-------------------------- MODULE LifecycleProofs ---------------------------
(***************************************************************************)
(* Lifecycle for any number of replicas, images and migrations: its        *)
(* inductive invariant and the safety properties that follow from it, and  *)
(* that the replicas together implement the single migrator of Migration.  *)
(***************************************************************************)
EXTENDS Lifecycle, TLAPS

\* What the invariant says of one replica.
ReplicaInv(r) ==
    /\ pc[r] \in Working <=> lock = r
    /\ Progress(r) /\ PoolsAt(r) /\ ServerAt(r)

LEMMA InvParts ==
    LifecycleInv <=> /\ TypeOK /\ SchemaMatchesVersion /\ ServesMigrated
                     /\ \A r \in Replicas : ReplicaInv(r)
  BY DEF LifecycleInv, ReplicaInv

LEMMA MigrationNumbers ==
    /\ \A m \in Migrations : m \in Nat /\ m > 0
    /\ \A r \in Replicas : 1..Files[r] \subseteq Migrations
  BY LifecycleAssumption DEF Migrations

\* No process runs at first, and nothing is migrated.
LEMMA InitInv == Init => LifecycleInv
<1> SUFFICES ASSUME Init PROVE LifecycleInv
  OBVIOUS
<1> USE LifecycleAssumption
<1>1. TypeOK
  BY DEF Init, TypeOK, Labels, AllCommands
<1>2. SchemaMatchesVersion
  <2>1. \A m \in Migrations : ~(m <= 0)
    BY MigrationNumbers
  <2>2. SchemaIs(0, {})
    BY <2>1 DEF Init, SchemaIs
  <2> QED BY <2>2 DEF Init, SchemaMatchesVersion
<1>3. ServesMigrated
  BY DEF Init, ServesMigrated, Serving
<1>4. ASSUME NEW r \in Replicas PROVE ReplicaInv(r)
  <2>1. pc[r] = "exited" /\ pools[r] = {} /\ listener[r] = "none" /\ lock # r
        /\ inflight[r] = 0
    BY DEF Init
  <2> QED BY <2>1 DEF ReplicaInv, Working, PoolsAt, Progress, ServerAt
<1> QED BY <1>1, <1>2, <1>3, <1>4, InvParts

\* A step of one process that leaves schema, lock and the pcs of others.
Quiet(r) ==
    /\ UNCHANGED <<version, dirty, schema, downs>>
    /\ \A q \in Replicas \ {r} :
         /\ pc'[q] = pc[q] /\ cmd'[q] = cmd[q] /\ todo'[q] = todo[q]
         /\ pools'[q] = pools[q] /\ listener'[q] = listener[q]
         /\ inflight'[q] = inflight[q] /\ timedOut'[q] = timedOut[q]
         /\ lock' = q <=> lock = q

\* A process that is not at the schema keeps what is said of the others.
LEMMA OthersKept ==
    ASSUME NEW r \in Replicas, Quiet(r), NEW q \in Replicas, q # r, ReplicaInv(q)
    PROVE  ReplicaInv(q)'
  BY DEF Quiet, ReplicaInv, Progress, PoolsAt, ServerAt, SchemaIs, Current

LEMMA QuietInv ==
    ASSUME LifecycleInv, NEW r \in Replicas, Quiet(r), TypeOK', ReplicaInv(r)',
           Serving(r)' /\ cmd'[r] = "serve" => Serving(r) /\ cmd[r] = "serve"
    PROVE  LifecycleInv'
<1>1. \A q \in Replicas : ReplicaInv(q)'
  BY InvParts, OthersKept
<1>2. SchemaMatchesVersion'
  BY DEF LifecycleInv, Quiet, SchemaMatchesVersion, SchemaIs
<1>3. ServesMigrated'
  BY DEF LifecycleInv, Quiet, ServesMigrated, Serving
<1> QED BY <1>1, <1>2, <1>3, InvParts DEF LifecycleInv, ReplicaInv

\* The end of a process, by itself.
ExitTypes ==
    /\ pc' \in [Replicas -> Labels] /\ todo' \in [Replicas -> Nat]
    /\ signalled' \in [Replicas -> BOOLEAN] /\ inflight' \in [Replicas -> Nat]
    /\ listener' \in [Replicas -> {"none", "pending", "open", "failed", "closed"}]
    /\ timedOut' \in [Replicas -> BOOLEAN]

LEMMA ExitTyped ==
    ASSUME TypeOK, NEW r \in Replicas, Exit(r)
    PROVE  ExitTypes
  BY DEF TypeOK, Exit, ExitTypes, Goto, Labels

-----------------------------------------------------------------------------
(* The steps that leave the schema alone.                                  *)

LEMMA RunInv ==
    ASSUME LifecycleInv, NEW r \in Replicas, Run(r)
    PROVE  LifecycleInv'
<1> USE LifecycleAssumption
<1>0. TypeOK /\ ReplicaInv(r)
  BY InvParts
<1>1. TypeOK'
  BY <1>0 DEF TypeOK, Labels, AllCommands, Run, Goto, Running, database, serving
<1>2. Quiet(r)
  BY <1>0 DEF TypeOK, Quiet, Run, Goto, Running, database, serving
<1>3. ReplicaInv(r)'
  BY <1>0 DEF TypeOK, ReplicaInv, Working, PoolsAt, Progress, ServerAt,
      SchemaIs, Current, Run, Goto, Running, database, serving
<1>4. Serving(r)' /\ cmd'[r] = "serve" => Serving(r) /\ cmd[r] = "serve"
  BY <1>0 DEF TypeOK, Serving, Run, Goto, Running, database, serving
<1> QED BY <1>1, <1>2, <1>3, <1>4, QuietInv

LEMMA SignalInv ==
    ASSUME LifecycleInv, NEW r \in Replicas, Signal(r)
    PROVE  LifecycleInv'
<1> USE LifecycleAssumption
<1>0. TypeOK /\ ReplicaInv(r)
  BY InvParts
<1>1. TypeOK'
  BY <1>0 DEF TypeOK, Labels, AllCommands, Signal, Goto, Running, database, serving
<1>2. Quiet(r)
  BY <1>0 DEF TypeOK, Quiet, Signal, Goto, Running, database, serving
<1>3. ReplicaInv(r)'
  BY <1>0 DEF TypeOK, ReplicaInv, Working, PoolsAt, Progress, ServerAt,
      SchemaIs, Current, Signal, Goto, Running, database, serving
<1>4. Serving(r)' /\ cmd'[r] = "serve" => Serving(r) /\ cmd[r] = "serve"
  BY <1>0 DEF TypeOK, Serving, Signal, Goto, Running, database, serving
<1> QED BY <1>1, <1>2, <1>3, <1>4, QuietInv

LEMMA KillInv ==
    ASSUME LifecycleInv, NEW r \in Replicas, Kill(r)
    PROVE  LifecycleInv'
<1> USE LifecycleAssumption
<1>0. TypeOK /\ ReplicaInv(r)
  BY InvParts
<1>1. TypeOK'
  BY <1>0 DEF TypeOK, Labels, AllCommands, Kill, Exit, Goto, Running, database, serving
<1>2. Quiet(r)
  BY <1>0 DEF TypeOK, Quiet, Kill, Exit, Goto, Running, database, serving
<1>3. ReplicaInv(r)'
  BY <1>0 DEF TypeOK, ReplicaInv, Working, PoolsAt, Progress, ServerAt,
      SchemaIs, Current, Kill, Exit, Goto, Running, database, serving
<1>4. Serving(r)' /\ cmd'[r] = "serve" => Serving(r) /\ cmd[r] = "serve"
  BY <1>0 DEF TypeOK, Serving, Kill, Exit, Goto, Running, database, serving
<1> QED BY <1>1, <1>2, <1>3, <1>4, QuietInv

LEMMA ConnectInv ==
    ASSUME LifecycleInv, NEW r \in Replicas, Connect(r)
    PROVE  LifecycleInv'
<1> USE LifecycleAssumption
<1>0. TypeOK /\ ReplicaInv(r)
  BY InvParts
<1>1. TypeOK'
  <2>1. CASE Exit(r)
    <3>1. ExitTypes
      BY <1>0, <2>1, ExitTyped
    <3> QED BY <1>0, <2>1, <3>1 DEF TypeOK, Labels, AllCommands, Connect, OpenPool, Goto, Running, database, serving, ExitTypes
  <2>2. CASE ~Exit(r)
    BY <1>0, <2>2 DEF TypeOK, Labels, AllCommands, Connect, OpenPool, Goto, Running, database, serving
  <2> QED BY <2>1, <2>2
<1>2. Quiet(r)
  BY <1>0 DEF TypeOK, Quiet, Connect, Exit, OpenPool, Goto, Running, database, serving
<1>3. ReplicaInv(r)'
  BY <1>0 DEF TypeOK, ReplicaInv, Working, PoolsAt, Progress, ServerAt,
      SchemaIs, Current, Connect, Exit, OpenPool, Goto, Running, database, serving
<1>4. Serving(r)' /\ cmd'[r] = "serve" => Serving(r) /\ cmd[r] = "serve"
  BY <1>0 DEF TypeOK, Serving, Connect, Exit, OpenPool, Goto, Running, database, serving
<1> QED BY <1>1, <1>2, <1>3, <1>4, QuietInv

LEMMA LockInv ==
    ASSUME LifecycleInv, NEW r \in Replicas, Lock(r)
    PROVE  LifecycleInv'
<1> USE LifecycleAssumption
<1>0. TypeOK /\ ReplicaInv(r)
  BY InvParts
<1>1. TypeOK'
  <2>1. CASE Exit(r)
    <3>1. ExitTypes
      BY <1>0, <2>1, ExitTyped
    <3> QED BY <1>0, <2>1, <3>1 DEF TypeOK, Labels, AllCommands, Lock, Abandon, ClosePool, Goto, Running, database, serving, ExitTypes
  <2>2. CASE ~Exit(r)
    BY <1>0, <2>2 DEF TypeOK, Labels, AllCommands, Lock, Abandon, ClosePool, Goto, Running, database, serving
  <2> QED BY <2>1, <2>2
<1>2. Quiet(r)
  BY <1>0 DEF TypeOK, Quiet, Lock, Abandon, Exit, ClosePool, Goto, Running, database, serving
<1>3. ReplicaInv(r)'
  BY <1>0 DEF TypeOK, ReplicaInv, Working, PoolsAt, Progress, ServerAt,
      SchemaIs, Current, Lock, Abandon, Exit, ClosePool, Goto, Running, database, serving
<1>4. Serving(r)' /\ cmd'[r] = "serve" => Serving(r) /\ cmd[r] = "serve"
  BY <1>0 DEF TypeOK, Serving, Lock, Abandon, Exit, ClosePool, Goto, Running, database, serving
<1> QED BY <1>1, <1>2, <1>3, <1>4, QuietInv

LEMMA CheckVersionInv ==
    ASSUME LifecycleInv, NEW r \in Replicas, CheckVersion(r)
    PROVE  LifecycleInv'
<1> USE LifecycleAssumption
<1>0. TypeOK /\ ReplicaInv(r)
  BY InvParts
<1>1. TypeOK'
  <2>1. CASE Exit(r)
    <3>1. ExitTypes
      BY <1>0, <2>1, ExitTyped
    <3> QED BY <1>0, <2>1, <3>1 DEF TypeOK, Labels, AllCommands, CheckVersion, Plan, Abandon, ClosePool, Goto, Running, database, serving, ExitTypes
  <2>2. CASE ~Exit(r)
    BY <1>0, <2>2 DEF TypeOK, Labels, AllCommands, CheckVersion, Plan, Abandon, ClosePool, Goto, Running, database, serving
  <2> QED BY <2>1, <2>2
<1>2. Quiet(r)
  BY <1>0 DEF TypeOK, Quiet, CheckVersion, Plan, Abandon, Exit, ClosePool, Goto, Running, database, serving
<1>3. ReplicaInv(r)'
  BY <1>0 DEF TypeOK, ReplicaInv, Working, PoolsAt, Progress, ServerAt,
      SchemaIs, Current, CheckVersion, Plan, Abandon, Exit, ClosePool, Goto, Running, database, serving
<1>4. Serving(r)' /\ cmd'[r] = "serve" => Serving(r) /\ cmd[r] = "serve"
  BY <1>0 DEF TypeOK, Serving, CheckVersion, Plan, Abandon, Exit, ClosePool, Goto, Running, database, serving
<1> QED BY <1>1, <1>2, <1>3, <1>4, QuietInv

LEMMA OpenMySQLInv ==
    ASSUME LifecycleInv, NEW r \in Replicas, OpenMySQL(r)
    PROVE  LifecycleInv'
<1> USE LifecycleAssumption
<1>0. TypeOK /\ ReplicaInv(r)
  BY InvParts
<1>1. TypeOK'
  <2>1. CASE Exit(r)
    <3>1. ExitTypes
      BY <1>0, <2>1, ExitTyped
    <3> QED BY <1>0, <2>1, <3>1 DEF TypeOK, Labels, AllCommands, OpenMySQL, OpenPool, Goto, Running, database, serving, ExitTypes
  <2>2. CASE ~Exit(r)
    BY <1>0, <2>2 DEF TypeOK, Labels, AllCommands, OpenMySQL, OpenPool, Goto, Running, database, serving
  <2> QED BY <2>1, <2>2
<1>2. Quiet(r)
  BY <1>0 DEF TypeOK, Quiet, OpenMySQL, Exit, OpenPool, Goto, Running, database, serving
<1>3. ReplicaInv(r)'
  BY <1>0 DEF TypeOK, ReplicaInv, Working, PoolsAt, Progress, ServerAt,
      SchemaIs, Current, OpenMySQL, Exit, OpenPool, Goto, Running, database, serving
<1>4. Serving(r)' /\ cmd'[r] = "serve" => Serving(r) /\ cmd[r] = "serve"
  BY <1>0 DEF TypeOK, Serving, OpenMySQL, Exit, OpenPool, Goto, Running, database, serving
<1> QED BY <1>1, <1>2, <1>3, <1>4, QuietInv

LEMMA OpenRedisInv ==
    ASSUME LifecycleInv, NEW r \in Replicas, OpenRedis(r)
    PROVE  LifecycleInv'
<1> USE LifecycleAssumption
<1>0. TypeOK /\ ReplicaInv(r)
  BY InvParts
<1>1. TypeOK'
  <2>1. CASE Exit(r)
    <3>1. ExitTypes
      BY <1>0, <2>1, ExitTyped
    <3> QED BY <1>0, <2>1, <3>1 DEF TypeOK, Labels, AllCommands, OpenRedis, OpenPool, ClosePool, Goto, Running, database, serving, ExitTypes
  <2>2. CASE ~Exit(r)
    BY <1>0, <2>2 DEF TypeOK, Labels, AllCommands, OpenRedis, OpenPool, ClosePool, Goto, Running, database, serving
  <2> QED BY <2>1, <2>2
<1>2. Quiet(r)
  BY <1>0 DEF TypeOK, Quiet, OpenRedis, Exit, OpenPool, ClosePool, Goto, Running, database, serving
<1>3. ReplicaInv(r)'
  BY <1>0 DEF TypeOK, ReplicaInv, Working, PoolsAt, Progress, ServerAt,
      SchemaIs, Current, OpenRedis, Exit, OpenPool, ClosePool, Goto, Running, database, serving
<1>4. Serving(r)' /\ cmd'[r] = "serve" => Serving(r) /\ cmd[r] = "serve"
  BY <1>0 DEF TypeOK, Serving, OpenRedis, Exit, OpenPool, ClosePool, Goto, Running, database, serving
<1> QED BY <1>1, <1>2, <1>3, <1>4, QuietInv

LEMMA ListenInv ==
    ASSUME LifecycleInv, NEW r \in Replicas, Listen(r)
    PROVE  LifecycleInv'
<1> USE LifecycleAssumption
<1>0. TypeOK /\ ReplicaInv(r)
  BY InvParts
<1>1. TypeOK'
  BY <1>0 DEF TypeOK, Labels, AllCommands, Listen, Goto, Running, database, serving
<1>2. Quiet(r)
  BY <1>0 DEF TypeOK, Quiet, Listen, Goto, Running, database, serving
<1>3. ReplicaInv(r)'
  BY <1>0 DEF TypeOK, ReplicaInv, Working, PoolsAt, Progress, ServerAt,
      SchemaIs, Current, Listen, Goto, Running, database, serving
<1>4. Serving(r)' /\ cmd'[r] = "serve" => Serving(r) /\ cmd[r] = "serve"
  BY <1>0 DEF TypeOK, Serving, Listen, Goto, Running, database, serving
<1> QED BY <1>1, <1>2, <1>3, <1>4, QuietInv

LEMMA AcceptInv ==
    ASSUME LifecycleInv, NEW r \in Replicas, Accept(r)
    PROVE  LifecycleInv'
<1> USE LifecycleAssumption
<1>0. TypeOK /\ ReplicaInv(r)
  BY InvParts
<1>1. TypeOK'
  BY <1>0 DEF TypeOK, Labels, AllCommands, Accept, Goto, Running, database, serving
<1>2. Quiet(r)
  BY <1>0 DEF TypeOK, Quiet, Accept, Goto, Running, database, serving
<1>3. ReplicaInv(r)'
  BY <1>0 DEF TypeOK, ReplicaInv, Working, PoolsAt, Progress, ServerAt,
      SchemaIs, Current, Accept, Goto, Running, database, serving
<1>4. Serving(r)' /\ cmd'[r] = "serve" => Serving(r) /\ cmd[r] = "serve"
  BY <1>0 DEF TypeOK, Serving, Accept, Goto, Running, database, serving
<1> QED BY <1>1, <1>2, <1>3, <1>4, QuietInv

LEMMA RespondInv ==
    ASSUME LifecycleInv, NEW r \in Replicas, Respond(r)
    PROVE  LifecycleInv'
<1> USE LifecycleAssumption
<1>0. TypeOK /\ ReplicaInv(r)
  BY InvParts
<1>1. TypeOK'
  BY <1>0 DEF TypeOK, Labels, AllCommands, Respond, Goto, Running, database, serving
<1>2. Quiet(r)
  BY <1>0 DEF TypeOK, Quiet, Respond, Goto, Running, database, serving
<1>3. ReplicaInv(r)'
  BY <1>0 DEF TypeOK, ReplicaInv, Working, PoolsAt, Progress, ServerAt,
      SchemaIs, Current, Respond, Goto, Running, database, serving
<1>4. Serving(r)' /\ cmd'[r] = "serve" => Serving(r) /\ cmd[r] = "serve"
  BY <1>0 DEF TypeOK, Serving, Respond, Goto, Running, database, serving
<1> QED BY <1>1, <1>2, <1>3, <1>4, QuietInv

LEMMA StopInv ==
    ASSUME LifecycleInv, NEW r \in Replicas, Stop(r)
    PROVE  LifecycleInv'
<1> USE LifecycleAssumption
<1>0. TypeOK /\ ReplicaInv(r)
  BY InvParts
<1>1. TypeOK'
  BY <1>0 DEF TypeOK, Labels, AllCommands, Stop, Goto, Running, database, serving
<1>2. Quiet(r)
  BY <1>0 DEF TypeOK, Quiet, Stop, Goto, Running, database, serving
<1>3. ReplicaInv(r)'
  BY <1>0 DEF TypeOK, ReplicaInv, Working, PoolsAt, Progress, ServerAt,
      SchemaIs, Current, Stop, Goto, Running, database, serving
<1>4. Serving(r)' /\ cmd'[r] = "serve" => Serving(r) /\ cmd[r] = "serve"
  BY <1>0 DEF TypeOK, Serving, Stop, Goto, Running, database, serving
<1> QED BY <1>1, <1>2, <1>3, <1>4, QuietInv

LEMMA ShutdownServerInv ==
    ASSUME LifecycleInv, NEW r \in Replicas, ShutdownServer(r)
    PROVE  LifecycleInv'
<1> USE LifecycleAssumption
<1>0. TypeOK /\ ReplicaInv(r)
  BY InvParts
<1>1. TypeOK'
  BY <1>0 DEF TypeOK, Labels, AllCommands, ShutdownServer, Goto, Running, database, serving
<1>2. Quiet(r)
  BY <1>0 DEF TypeOK, Quiet, ShutdownServer, Goto, Running, database, serving
<1>3. ReplicaInv(r)'
  BY <1>0 DEF TypeOK, ReplicaInv, Working, PoolsAt, Progress, ServerAt,
      SchemaIs, Current, ShutdownServer, Goto, Running, database, serving
<1>4. Serving(r)' /\ cmd'[r] = "serve" => Serving(r) /\ cmd[r] = "serve"
  BY <1>0 DEF TypeOK, Serving, ShutdownServer, Goto, Running, database, serving
<1> QED BY <1>1, <1>2, <1>3, <1>4, QuietInv

LEMMA DrainInv ==
    ASSUME LifecycleInv, NEW r \in Replicas, Drain(r)
    PROVE  LifecycleInv'
<1> USE LifecycleAssumption
<1>0. TypeOK /\ ReplicaInv(r)
  BY InvParts
<1>1. TypeOK'
  BY <1>0 DEF TypeOK, Labels, AllCommands, Drain, Goto, Running, database, serving
<1>2. Quiet(r)
  BY <1>0 DEF TypeOK, Quiet, Drain, Goto, Running, database, serving
<1>3. ReplicaInv(r)'
  BY <1>0 DEF TypeOK, ReplicaInv, Working, PoolsAt, Progress, ServerAt,
      SchemaIs, Current, Drain, Goto, Running, database, serving
<1>4. Serving(r)' /\ cmd'[r] = "serve" => Serving(r) /\ cmd[r] = "serve"
  BY <1>0 DEF TypeOK, Serving, Drain, Goto, Running, database, serving
<1> QED BY <1>1, <1>2, <1>3, <1>4, QuietInv

LEMMA CloseMySQLInv ==
    ASSUME LifecycleInv, NEW r \in Replicas, CloseMySQL(r)
    PROVE  LifecycleInv'
<1> USE LifecycleAssumption
<1>0. TypeOK /\ ReplicaInv(r)
  BY InvParts
<1>1. TypeOK'
  BY <1>0 DEF TypeOK, Labels, AllCommands, CloseMySQL, ClosePool, Goto, Running, database, serving
<1>2. Quiet(r)
  BY <1>0 DEF TypeOK, Quiet, CloseMySQL, ClosePool, Goto, Running, database, serving
<1>3. ReplicaInv(r)'
  BY <1>0 DEF TypeOK, ReplicaInv, Working, PoolsAt, Progress, ServerAt,
      SchemaIs, Current, CloseMySQL, ClosePool, Goto, Running, database, serving
<1>4. Serving(r)' /\ cmd'[r] = "serve" => Serving(r) /\ cmd[r] = "serve"
  BY <1>0 DEF TypeOK, Serving, CloseMySQL, ClosePool, Goto, Running, database, serving
<1> QED BY <1>1, <1>2, <1>3, <1>4, QuietInv

LEMMA CloseRedisInv ==
    ASSUME LifecycleInv, NEW r \in Replicas, CloseRedis(r)
    PROVE  LifecycleInv'
<1> USE LifecycleAssumption
<1>0. TypeOK /\ ReplicaInv(r)
  BY InvParts
<1>1. TypeOK'
  BY <1>0 DEF TypeOK, Labels, AllCommands, CloseRedis, ClosePool, Exit, Goto, Running, database, serving
<1>2. Quiet(r)
  BY <1>0 DEF TypeOK, Quiet, CloseRedis, ClosePool, Exit, Goto, Running, database, serving
<1>3. ReplicaInv(r)'
  BY <1>0 DEF TypeOK, ReplicaInv, Working, PoolsAt, Progress, ServerAt,
      SchemaIs, Current, CloseRedis, ClosePool, Exit, Goto, Running, database, serving
<1>4. Serving(r)' /\ cmd'[r] = "serve" => Serving(r) /\ cmd[r] = "serve"
  BY <1>0 DEF TypeOK, Serving, CloseRedis, ClosePool, Exit, Goto, Running, database, serving
<1> QED BY <1>1, <1>2, <1>3, <1>4, QuietInv

-----------------------------------------------------------------------------
(* The steps of the process that holds the lock.                           *)

\* Everybody else is elsewhere.
LEMMA HolderAlone ==
    ASSUME LifecycleInv, NEW r \in Replicas, pc[r] \in Working,
           NEW q \in Replicas, q # r
    PROVE  pc[q] \notin Working /\ lock = r
  BY DEF LifecycleInv

\* What such a step leaves to the others.
Local(r) ==
    /\ UNCHANGED <<lock, cmd, pools, listener, inflight, timedOut>>
    /\ \A q \in Replicas \ {r} : pc'[q] = pc[q] /\ todo'[q] = todo[q]

LEMMA LocalInv ==
    ASSUME LifecycleInv, NEW r \in Replicas, pc[r] \in Working, Local(r),
           pc'[r] \in Working, Progress(r)', TypeOK', SchemaMatchesVersion',
           ServesMigrated'
    PROVE  LifecycleInv'
<1>1. lock = r
  BY DEF LifecycleInv
<1>2. ReplicaInv(r)'
  BY <1>1 DEF LifecycleInv, Local, ReplicaInv, PoolsAt, ServerAt, Working
<1>3. ASSUME NEW q \in Replicas, q # r PROVE ReplicaInv(q)'
  <2>1. pc[q] \notin Working /\ ReplicaInv(q)
    BY <1>3, HolderAlone, InvParts
  <2> QED BY <1>1, <1>3, <2>1 DEF Local, ReplicaInv, PoolsAt, ServerAt, Progress, Working
<1> QED BY <1>2, <1>3 DEF LifecycleInv, ReplicaInv

LEMMA MarkInv ==
    ASSUME LifecycleInv, NEW r \in Replicas, Mark(r)
    PROVE  LifecycleInv'
<1> USE LifecycleAssumption
<1>0. TypeOK /\ SchemaMatchesVersion /\ ServesMigrated /\ Progress(r) /\ pc[r] = "next"
  BY DEF LifecycleInv, Mark
<1>1. ~dirty /\ version \in Nat /\ version <= Files[r] /\ SchemaIs(version, {})
      /\ (cmd[r] # "down" => version + todo[r] = Files[r])
      /\ todo[r] \in Nat /\ todo[r] > 0 /\ Files[r] \in Nat
  BY <1>0 DEF Progress, SchemaMatchesVersion, TypeOK, Mark
<1>2. TypeOK'
  <2>1. version' \in Nat
    BY <1>1 DEF Mark
  <2>2. dirty' \in BOOLEAN /\ downs' \in BOOLEAN
    BY DEF Mark
  <2> QED BY <1>0, <2>1, <2>2 DEF TypeOK, Mark, Goto, Labels, serving
<1>3. Local(r) /\ pc'[r] = "apply"
  BY <1>0 DEF TypeOK, Local, Mark, Goto, serving
<1>4. Current(r)' \in 1..Files[r] /\ Current(r)' \in {version', version' + 1}
  BY <1>1 DEF Mark, Current
<1>5. SchemaIs(version, {Current(r)})'
  <2> SUFFICES ASSUME NEW m \in Migrations, m # Current(r)'
               PROVE  schema[m] = IF m <= version' THEN "full" ELSE "none"
    BY DEF SchemaIs, Mark
  <2>1. m \in Nat /\ schema[m] = IF m <= version THEN "full" ELSE "none"
    BY <1>1, MigrationNumbers DEF SchemaIs
  <2> QED BY <1>1, <2>1 DEF Mark, Current
<1>6. cmd[r] # "down" => schema[Current(r)'] # "full"
  <2> SUFFICES ASSUME cmd[r] # "down" PROVE schema[Current(r)'] = "none"
    OBVIOUS
  <2>1. Current(r)' = version + 1
    BY DEF Mark, Current
  <2>2. version + 1 \in Migrations /\ ~(version + 1 <= version)
    BY <1>1, <1>4, <2>1, MigrationNumbers
  <2> QED BY <1>1, <2>1, <2>2 DEF SchemaIs
<1>7. Progress(r)'
  <2>1. version' \in Nat /\ cmd' = cmd /\ todo' = todo /\ schema' = schema
        /\ (cmd[r] # "down" => version' = version + 1)
    BY <1>1 DEF Mark
  <2>2. dirty' /\ (cmd[r] = "down" => downs')
    BY DEF Mark
  <2> QED BY <1>1, <1>3, <1>4, <1>5, <1>6, <2>1, <2>2 DEF Progress
<1>8. SchemaMatchesVersion'
  BY <1>4, <1>5 DEF SchemaMatchesVersion, Mark
<1>9. ServesMigrated'
  BY <1>0, <1>3 DEF ServesMigrated, Serving, Mark, Local
<1> QED BY <1>0, <1>2, <1>3, <1>7, <1>8, <1>9, LocalInv DEF Working

LEMMA ApplyInv ==
    ASSUME LifecycleInv, NEW r \in Replicas, Apply(r)
    PROVE  LifecycleInv'
<1> USE LifecycleAssumption
<1> DEFINE c == Current(r)
           s == schema'[c]
<1>0. TypeOK /\ SchemaMatchesVersion /\ ServesMigrated /\ Progress(r) /\ ReplicaInv(r)
  BY InvParts DEF LifecycleInv
<1>1. /\ dirty /\ version \in Nat /\ c \in 1..Files[r] /\ c \in Migrations
      /\ c \in {version, version + 1} /\ SchemaIs(version, {c})
      /\ cmd[r] # "down" => schema[c] # "full"
      /\ cmd[r] = "down" => downs
  BY <1>0, MigrationNumbers DEF Progress, TypeOK, Apply, Current
<1>2. CASE Exit(r)
  <2>1. TypeOK'
    <3>1. ExitTypes
      BY <1>0, <1>2, ExitTyped
    <3> QED BY <1>0, <1>2, <3>1 DEF ExitTypes, TypeOK, Apply, Abandon, ClosePool, Exit, Goto
  <2>2. Quiet(r)
    BY <1>0, <1>2 DEF TypeOK, Quiet, Apply, Abandon, Exit, ClosePool, Goto
  <2>3. ReplicaInv(r)'
    BY <1>0, <1>2 DEF TypeOK, ReplicaInv, Working, PoolsAt, Progress, ServerAt,
        Apply, Abandon, Exit, ClosePool, Goto
  <2>4. ~Serving(r)'
    BY <1>0, <1>2 DEF TypeOK, Serving, Exit, Goto
  <2> QED BY <2>1, <2>2, <2>3, <2>4, QuietInv
<1>3. CASE ~Exit(r)
  <2>1. /\ \/ pc[r] = "apply" /\ pc'[r] = "rest" /\ s = "part"
           \/ pc[r] = "rest" /\ pc'[r] = "clean" /\ s = IF cmd[r] = "down" THEN "none" ELSE "full"
        /\ schema' = [schema EXCEPT ![c] = s]
        /\ UNCHANGED <<version, dirty, downs, cmd, lock, todo, signalled, pools, serving>>
    BY <1>0, <1>1, <1>3 DEF TypeOK, Apply, Abandon, Goto
  <2>2. TypeOK'
    BY <1>0, <1>1, <1>3, <2>1 DEF TypeOK, Apply, Abandon, Goto, Labels, serving
  <2>3. Local(r) /\ pc[r] \in Working /\ pc'[r] \in Working
    BY <1>0, <1>3, <2>1 DEF TypeOK, Local, Apply, Abandon, Goto, serving, Working
  <2>4. SchemaIs(version, {c})' /\ Current(r)' = c
    BY <1>0, <1>1, <2>1 DEF SchemaIs, TypeOK, Current
  <2>5. Progress(r)'
    BY <1>0, <1>1, <2>1, <2>4 DEF Progress, TypeOK
  <2>6. SchemaMatchesVersion'
    BY <1>1, <2>1, <2>4 DEF SchemaMatchesVersion
  <2>7. ServesMigrated'
    <3> SUFFICES ASSUME NEW q \in Replicas, Serving(q)', cmd'[q] = "serve", ~downs',
                        NEW m \in 1..Files[q]
                 PROVE  schema'[m] = "full"
      BY DEF ServesMigrated
    <3>1. Serving(q) /\ cmd[q] = "serve" /\ ~downs
      BY <2>1, <2>3 DEF Serving, Local, Working
    <3>2. schema[m] = "full" /\ m \in Migrations
      BY <1>0, <3>1, MigrationNumbers DEF ServesMigrated
    <3>3. m # c
      BY <1>1, <3>1, <3>2
    <3> QED BY <1>0, <2>1, <3>2, <3>3 DEF TypeOK
  <2> QED BY <2>2, <2>3, <2>5, <2>6, <2>7, LocalInv
<1> QED BY <1>2, <1>3

LEMMA CleanInv ==
    ASSUME LifecycleInv, NEW r \in Replicas, Clean(r)
    PROVE  LifecycleInv'
<1> USE LifecycleAssumption
<1>0. TypeOK /\ SchemaMatchesVersion /\ ServesMigrated /\ Progress(r) /\ ReplicaInv(r)
      /\ pc[r] = "clean"
  BY InvParts DEF LifecycleInv, Clean
<1>1. CASE Exit(r)
  <2>1. TypeOK'
    <3>1. ExitTypes
      BY <1>0, <1>1, ExitTyped
    <3> QED BY <1>0, <1>1, <3>1 DEF ExitTypes, TypeOK, Clean, Abandon, ClosePool, Exit, Goto
  <2>5. Abandon(r) /\ dirty' = dirty
    BY <1>0, <1>1 DEF TypeOK, Clean, Exit, Goto
  <2>2. Quiet(r)
    <3>1. UNCHANGED <<version, schema, downs, cmd>>
      BY DEF Clean
    <3> QED BY <1>0, <2>5, <3>1 DEF TypeOK, Quiet, Abandon, Exit, ClosePool, Goto
  <2>3. ReplicaInv(r)'
    BY <1>0, <2>5 DEF TypeOK, ReplicaInv, Working, PoolsAt, Progress, ServerAt,
        Abandon, Exit, ClosePool, Goto
  <2>4. ~Serving(r)'
    BY <1>0, <1>1 DEF TypeOK, Serving, Exit, Goto
  <2> QED BY <2>1, <2>2, <2>3, <2>4, QuietInv
<1>2. CASE ~Exit(r)
  <2>1. /\ dirty' = FALSE /\ todo' = [todo EXCEPT ![r] = @ - 1]
        /\ pc' = [pc EXCEPT ![r] = "next"]
        /\ UNCHANGED <<version, schema, downs, starts, cmd, lock, signalled, pools, serving>>
    BY <1>2 DEF Clean, Abandon, Goto
  <2>2. /\ version \in Nat /\ todo[r] \in Nat /\ todo[r] > 0 /\ Files[r] \in Nat
        /\ Current(r) \in 1..Files[r] /\ SchemaIs(version, {Current(r)})
        /\ cmd[r] # "down" => version + todo[r] = Files[r] + 1
        /\ schema[Current(r)] = IF cmd[r] = "down" THEN "none" ELSE "full"
    BY <1>0 DEF Progress, TypeOK
  <2>3. TypeOK'
    <3>1. dirty' \in BOOLEAN
      BY <2>1
    <3>2. todo' \in [Replicas -> Nat] /\ pc' \in [Replicas -> Labels]
      BY <1>0, <2>1, <2>2 DEF TypeOK, Labels
    <3> QED BY <1>0, <2>1, <3>1, <3>2 DEF TypeOK, serving
  <2>4. Local(r) /\ pc'[r] = "next" /\ pc[r] \in Working /\ pc'[r] \in Working
    BY <1>0, <2>1 DEF TypeOK, Local, serving, Working
  <2>5. Progress(r)'
    BY <1>0, <2>1, <2>2 DEF Progress, TypeOK, Current
  <2>6. SchemaIs(version, {})
    <3> SUFFICES ASSUME NEW m \in Migrations
                 PROVE  schema[m] = IF m <= version THEN "full" ELSE "none"
      BY DEF SchemaIs
    <3>1. m \in Nat
      BY MigrationNumbers
    <3> QED BY <2>2, <3>1 DEF SchemaIs, Current
  <2>7. SchemaMatchesVersion'
    BY <2>1, <2>6 DEF SchemaMatchesVersion, SchemaIs
  <2>8. ServesMigrated'
    BY <1>0, <2>1, <2>4 DEF ServesMigrated, Serving, Local, Working
  <2> QED BY <2>3, <2>4, <2>5, <2>7, <2>8, LocalInv
<1> QED BY <1>1, <1>2

LEMMA UnlockInv ==
    ASSUME LifecycleInv, NEW r \in Replicas, Unlock(r)
    PROVE  LifecycleInv'
<1> USE LifecycleAssumption
<1>0. TypeOK /\ SchemaMatchesVersion /\ ServesMigrated /\ Progress(r) /\ ReplicaInv(r)
      /\ pc[r] = "next"
  BY InvParts DEF LifecycleInv, Unlock
<1>1. TypeOK'
  <2>1. CASE Exit(r)
    <3>1. ExitTypes
      BY <1>0, <2>1, ExitTyped
    <3> QED BY <1>0, <2>1, <3>1 DEF ExitTypes, TypeOK, Unlock, Abandon, ClosePool
  <2>2. CASE ~Exit(r)
    BY <1>0, <2>2 DEF TypeOK, Labels, Unlock, Abandon, ClosePool, Goto, serving
  <2> QED BY <2>1, <2>2
<1>2. Quiet(r)
  BY <1>0 DEF TypeOK, Quiet, ReplicaInv, Working, Unlock, Abandon, Exit, ClosePool, Goto, serving
<1>3. ReplicaInv(r)'
  BY <1>0 DEF TypeOK, ReplicaInv, Working, PoolsAt, Progress, ServerAt,
      Unlock, Abandon, Exit, ClosePool, Goto, serving
<1>4. SchemaMatchesVersion'
  BY <1>0, <1>2 DEF Quiet, SchemaMatchesVersion, SchemaIs
<1>5. \A q \in Replicas : ReplicaInv(q)'
  BY <1>2, <1>3, InvParts, OthersKept
<1>6. ServesMigrated'
  <2> SUFFICES ASSUME NEW q \in Replicas, Serving(q)', cmd'[q] = "serve", ~downs',
                      NEW m \in 1..Files[q]
               PROVE  schema'[m] = "full"
    BY DEF ServesMigrated
  <2>1. CASE q # r
    BY <1>0, <1>2, <2>1 DEF ServesMigrated, Serving, Quiet
  <2>2. CASE q = r
    <3>1. cmd[r] = "serve" /\ todo[r] = 0
      BY <1>2, <2>2 DEF Unlock
    <3>2. version = Files[r] /\ SchemaIs(version, {}) /\ m \in Migrations /\ m <= version
      BY <1>0, <2>2, <3>1, MigrationNumbers DEF Progress, SchemaMatchesVersion, TypeOK
    <3> QED BY <1>2, <3>2 DEF SchemaIs, Quiet
  <2> QED BY <2>1, <2>2
<1> QED BY <1>1, <1>4, <1>5, <1>6 DEF LifecycleInv, ReplicaInv

-----------------------------------------------------------------------------
LEMMA NextInv == LifecycleInv /\ [Next]_vars => LifecycleInv'
<1> SUFFICES ASSUME LifecycleInv, [Next]_vars PROVE LifecycleInv'
  OBVIOUS
<1>1. CASE UNCHANGED vars
  BY <1>1 DEF vars, database, serving, LifecycleInv, TypeOK, SchemaMatchesVersion,
      SchemaIs, ServesMigrated, Serving, Progress, PoolsAt, ServerAt, Current
<1>2. ASSUME NEW r \in Replicas,
             Run(r) \/ Signal(r) \/ Kill(r) \/ Listen(r) \/ Accept(r) \/ Respond(r)
      PROVE  LifecycleInv'
  BY <1>2, RunInv, SignalInv, KillInv, ListenInv, AcceptInv, RespondInv
<1>3. ASSUME NEW r \in Replicas, Connect(r) \/ Migrate(r)
      PROVE  LifecycleInv'
  BY <1>3, ConnectInv, LockInv, CheckVersionInv, MarkInv, ApplyInv, CleanInv,
      UnlockInv DEF Migrate
<1>4. ASSUME NEW r \in Replicas, New(r) \/ Stop(r) \/ Shutdown(r)
      PROVE  LifecycleInv'
  BY <1>4, OpenMySQLInv, OpenRedisInv, StopInv, ShutdownServerInv, DrainInv,
      CloseMySQLInv, CloseRedisInv DEF New, Shutdown
<1> QED BY <1>1, <1>2, <1>3, <1>4 DEF Next, Main

\* The inductive invariant of starting, migrating, serving and stopping
\* holds for any number of replicas and migrations.
THEOREM LifecycleInvariant == Spec => []LifecycleInv
  BY InitInv, NextInv, PTL DEF Spec

\* Replicas and migrate commands that run together, with any images, and are
\* killed at any call, never leave a schema that differs from its recorded
\* version without being marked dirty (migrator.go, Up and Down).
THEOREM SchemaSafety == Spec => []SchemaMatchesVersion
<1>1. LifecycleInv => SchemaMatchesVersion
  BY DEF LifecycleInv
<1> QED BY <1>1, LifecycleInvariant, PTL

\* A replica that migrates on start (main.go, serve) opens its backends and
\* serves only with every migration of its image applied.
THEOREM MigratedBeforeServing == Spec => []ServesMigrated
<1>1. LifecycleInv => ServesMigrated
  BY DEF LifecycleInv
<1> QED BY <1>1, LifecycleInvariant, PTL

\* App.shutdown closes MySQL and Redis under a request only after its drain
\* has timed out, or when Listen had not yet bound the port.
THEOREM DrainBeforeClose == Spec => []BackendsOutliveRequests
<1>1. LifecycleInv => BackendsOutliveRequests
  BY DEF LifecycleInv, BackendsOutliveRequests, ServerAt, PoolsAt, TypeOK, Labels
<1> QED BY <1>1, LifecycleInvariant, PTL

\* Every path through main, app.New and the migrator closes what it opened.
THEOREM NothingLeftOpen == Spec => []CleanExit
<1>1. LifecycleInv => CleanExit
  BY DEF LifecycleInv, CleanExit, PoolsAt, TypeOK, Working
<1> QED BY <1>1, LifecycleInvariant, PTL

-----------------------------------------------------------------------------
(* The schema sees one migrator: Lifecycle implements Migration.           *)

\* Only the holder of the lock is at a file, and which file it is does not
\* depend on anybody else.
LEMMA FileOf ==
    ASSUME LifecycleInv, NEW r \in Replicas
    PROVE  /\ AtFile(r) => File = Current(r) /\ lock = r
           /\ pc[r] \in Working /\ ~AtFile(r) => File = 0
           /\ lock \notin Replicas => File = 0
  BY DEF LifecycleInv, File, AtFile, Working

\* The goal of the file, in the terms of Migration.
LEMMA GoalOf ==
    ASSUME LifecycleInv, NEW r \in Replicas, AtFile(r)
    PROVE  /\ File # 0 /\ File \in Migrations
           /\ Contract!Goal = IF cmd[r] = "down" THEN "none" ELSE "full"
<1>1. /\ File = Current(r) /\ Current(r) \in 1..Files[r] /\ version \in Nat
      /\ Files[r] \in Nat
  BY FileOf, LifecycleAssumption DEF LifecycleInv, Progress, AtFile, TypeOK
<1> QED BY <1>1, MigrationNumbers DEF Contract!Goal, Current

\* A step of r that neither marks a file nor executes or finishes one.
Away(r) ==
    /\ UNCHANGED <<version, dirty, schema>>
    /\ \A q \in Replicas \ {r} : pc'[q] = pc[q] /\ cmd'[q] = cmd[q]
    /\ AtFile(r)' => pc'[r] = pc[r] /\ cmd'[r] = cmd[r]

\* Such a step is none of Migration's, or gives a file up.
LEMMA AwayMaps ==
    ASSUME LifecycleInv, LifecycleInv', NEW r \in Replicas, Away(r)
    PROVE  UNCHANGED Contract!stateVars \/ Contract!GiveUp
<1>1. ASSUME NEW q \in Replicas, AtFile(q)'
      PROVE  AtFile(q) /\ Current(q)' = Current(q)
  BY <1>1 DEF Away, AtFile, Current
<1>2. ASSUME NEW q \in Replicas, AtFile(q)'
      PROVE  File' = File
  <2>1. File' = Current(q)'
    BY <1>2 DEF LifecycleInv, File, AtFile, Working
  <2> QED BY <1>1, <1>2, <2>1, FileOf
<1>3. ASSUME \A q \in Replicas : ~AtFile(q)'
      PROVE  File' = 0
  BY <1>3 DEF File, AtFile
<1>4. File' = File \/ (File # 0 /\ File' = 0)
  BY <1>2, <1>3
<1> QED BY <1>4 DEF Away, Contract!stateVars, Contract!GiveUp

\* The steps of every process but those at a file.
LEMMA ProcessAway ==
    ASSUME LifecycleInv, NEW r \in Replicas,
           \/ Run(r) \/ Signal(r) \/ Kill(r) \/ Listen(r) \/ Accept(r) \/ Respond(r)
           \/ Connect(r) \/ New(r) \/ Stop(r) \/ Shutdown(r)
    PROVE  Away(r)
<1>0. pc \in [Replicas -> Labels] /\ cmd \in [Replicas -> AllCommands]
  BY DEF LifecycleInv, TypeOK
<1>1. CASE Run(r)
  BY <1>0, <1>1 DEF Away, AtFile, Run, Goto, database
<1>2. CASE Signal(r) \/ Listen(r) \/ Accept(r) \/ Respond(r)
  BY <1>0, <1>2 DEF Away, AtFile, Signal, Listen, Accept, Respond, database
<1>3. CASE Kill(r)
  BY <1>0, <1>3 DEF Away, AtFile, Kill, Exit, Goto
<1>4. CASE Connect(r)
  BY <1>0, <1>4 DEF Away, AtFile, Connect, Exit, Goto, database
<1>5. CASE New(r)
  BY <1>0, <1>5 DEF Away, AtFile, New, OpenMySQL, OpenRedis, Exit, Goto, database
<1>6. CASE Stop(r)
  BY <1>0, <1>6 DEF Away, AtFile, Stop, Goto, database
<1>7. CASE Shutdown(r)
  BY <1>0, <1>7 DEF Away, AtFile, Shutdown, ShutdownServer, Drain, CloseMySQL,
      CloseRedis, Exit, Goto, database
<1> QED BY <1>1, <1>2, <1>3, <1>4, <1>5, <1>6, <1>7

\* Abandon is the end of a process, at a file or not.
LEMMA MigratorAway ==
    ASSUME LifecycleInv, NEW r \in Replicas,
           \/ Lock(r) \/ CheckVersion(r) \/ Unlock(r)
           \/ Abandon(r) /\ UNCHANGED <<version, dirty, schema, cmd>>
    PROVE  Away(r)
<1>0. pc \in [Replicas -> Labels] /\ cmd \in [Replicas -> AllCommands]
  BY DEF LifecycleInv, TypeOK
<1>1. CASE Lock(r)
  BY <1>0, <1>1 DEF Away, AtFile, Lock, Abandon, Exit, Goto
<1>2. CASE CheckVersion(r)
  BY <1>0, <1>2 DEF Away, AtFile, CheckVersion, Abandon, Exit, Goto
<1>3. CASE Unlock(r)
  BY <1>0, <1>3 DEF Away, AtFile, Unlock, Abandon, Exit, Goto
<1>4. CASE Abandon(r) /\ UNCHANGED <<version, dirty, schema, cmd>>
  BY <1>0, <1>4 DEF Away, AtFile, Abandon, Exit, Goto
<1> QED BY <1>1, <1>2, <1>3, <1>4

\* SetVersion(target, dirty) begins the file next to the version.
LEMMA MarkMaps ==
    ASSUME LifecycleInv, LifecycleInv', NEW r \in Replicas, Mark(r)
    PROVE  \E m \in Migrations : Contract!Begin(m)
<1>1. pc[r] = "next" /\ AtFile(r)' /\ cmd' = cmd /\ schema' = schema /\ dirty'
  BY DEF LifecycleInv, TypeOK, AtFile, Mark, Goto
<1>2. File = 0 /\ ~dirty /\ version \in Nat
  BY <1>1, FileOf DEF LifecycleInv, TypeOK, Progress, AtFile, Working
<1>3. File' = Current(r)' /\ lock' = r
  BY <1>1 DEF LifecycleInv, File, AtFile, Working
<1>4. Current(r)' \in Migrations
  BY <1>1, MigrationNumbers DEF LifecycleInv, Progress, AtFile
<1>5. \/ Current(r)' = version + 1 /\ version' = version + 1
      \/ Current(r)' = version /\ version' = version - 1
  BY <1>1, <1>2 DEF Mark, Current
<1>6. Contract!Begin(Current(r)')
  <2>1. dirty' = TRUE
    BY DEF Mark
  <2> QED BY <1>1, <1>2, <1>3, <1>5, <2>1 DEF Contract!Begin
<1> QED BY <1>4, <1>6

\* Statements of the file are executed; or one of them fails.
LEMMA ApplyMaps ==
    ASSUME LifecycleInv, LifecycleInv', NEW r \in Replicas, Apply(r)
    PROVE  Contract!Execute \/ UNCHANGED Contract!stateVars \/ Contract!GiveUp
<1>1. CASE Abandon(r) /\ UNCHANGED schema
  BY <1>1, MigratorAway, AwayMaps DEF Apply
<1>2. CASE ~(Abandon(r) /\ UNCHANGED schema)
  <2> DEFINE s == IF pc[r] = "apply" THEN "part"
                  ELSE IF cmd[r] = "down" THEN "none" ELSE "full"
  <2>1. /\ AtFile(r) /\ AtFile(r)' /\ UNCHANGED <<version, dirty, cmd>>
        /\ schema' = [schema EXCEPT ![Current(r)] = s]
    BY <1>2 DEF Apply, AtFile, Goto, LifecycleInv, TypeOK
  <2>2. File = Current(r) /\ File # 0 /\ s \in {"part", Contract!Goal}
    BY <2>1, FileOf, GoalOf
  <2>3. File' = Current(r)' /\ Current(r)' = Current(r)
    BY <2>1 DEF LifecycleInv, File, AtFile, Working, Current
  <2> HIDE DEF s
  <2> QED BY <2>1, <2>2, <2>3 DEF Contract!Execute
<1> QED BY <1>1, <1>2

\* The mark is removed from a complete file; or SetVersion fails.
LEMMA CleanMaps ==
    ASSUME LifecycleInv, LifecycleInv', NEW r \in Replicas, Clean(r)
    PROVE  Contract!Finish \/ UNCHANGED Contract!stateVars \/ Contract!GiveUp
<1>1. CASE Abandon(r) /\ UNCHANGED dirty
  BY <1>1, MigratorAway, AwayMaps DEF Clean
<1>2. CASE ~(Abandon(r) /\ UNCHANGED dirty)
  <2>1. AtFile(r) /\ pc[r] = "clean" /\ pc'[r] = "next" /\ dirty' = FALSE
        /\ UNCHANGED <<version, schema>>
    BY <1>2 DEF Clean, AtFile, Goto, LifecycleInv, TypeOK
  <2>2. /\ File = Current(r) /\ File # 0
        /\ schema[Current(r)] = IF cmd[r] = "down" THEN "none" ELSE "full"
        /\ Contract!Goal = IF cmd[r] = "down" THEN "none" ELSE "full"
    BY <2>1, FileOf, GoalOf DEF LifecycleInv, Progress
  <2>3. File' = 0
    BY <2>1 DEF LifecycleInv, File, AtFile, Working
  <2> QED BY <2>1, <2>2, <2>3 DEF Contract!Finish
<1> QED BY <1>1, <1>2

LEMMA InitMaps == Init => Contract!Init
  BY LifecycleAssumption DEF Init, Contract!Init, File

LEMMA StepMaps ==
    ASSUME LifecycleInv, LifecycleInv', [Next]_vars
    PROVE  [Contract!Next]_(Contract!stateVars)
<1>1. CASE UNCHANGED vars
  BY <1>1 DEF vars, database, Contract!stateVars, File, AtFile, Current
<1>2. ASSUME NEW r \in Replicas, Migrate(r)
      PROVE  Contract!Next \/ UNCHANGED Contract!stateVars
  <2>1. CASE Lock(r) \/ CheckVersion(r) \/ Unlock(r)
    BY <2>1, MigratorAway, AwayMaps DEF Contract!Next
  <2>2. CASE Mark(r)
    BY <2>2, MarkMaps DEF Contract!Next
  <2>3. CASE Apply(r) \/ Clean(r)
    BY <2>3, ApplyMaps, CleanMaps DEF Contract!Next
  <2> QED BY <1>2, <2>1, <2>2, <2>3 DEF Migrate
<1>3. ASSUME NEW r \in Replicas,
             \/ Run(r) \/ Signal(r) \/ Kill(r) \/ Listen(r) \/ Accept(r) \/ Respond(r)
             \/ Connect(r) \/ New(r) \/ Stop(r) \/ Shutdown(r)
      PROVE  Contract!Next \/ UNCHANGED Contract!stateVars
  BY <1>3, ProcessAway, AwayMaps DEF Contract!Next
<1> QED BY <1>1, <1>2, <1>3 DEF Next, Main

\* Any number of replicas and migrate commands, killed anywhere, implement
\* one migrator that does a file at a time and stops for good at the first
\* that fails (migrator.go, Up and Down over golang-migrate).
THEOREM ImplementsMigration == Spec => MigrationContract
<1>1. LifecycleInv /\ LifecycleInv' /\ [Next]_vars => [Contract!Next]_(Contract!stateVars)
  BY StepMaps
<1> QED BY <1>1, InitMaps, LifecycleInvariant, PTL DEF Spec, MigrationContract, Contract!Spec
=============================================================================
