------------------------------ MODULE Migrate ------------------------------
(***************************************************************************)
(* migrate-up, migrate-down and migrate-force (internal/database), over    *)
(* golang-migrate as its use and the comments on it describe it: one lock, *)
(* one file at a time, a dirty mark around each, and a graceful stop that  *)
(* looks like completion.                                                  *)
(***************************************************************************)
EXTENDS Lifecycle

CONSTANTS Latest,  \* this binary has migrations 1..Latest
          Forced,  \* the version that a migrate-force sets
          Nobody

ASSUME MigrateAssumption == Latest \in Nat /\ Forced \in Nat /\ Nobody \notin Programs

VARIABLES
    schema, \* schema_migrations: the version, 0 for none, and the dirty mark
    holder, \* who took the lock last; a session that ends lets go of it
    mig     \* mig[p]: GracefulStop, what the call found, what it returns and what it leaves

migrateVars == <<schema, holder, mig>>
programVars == <<lifecycleVars, migrateVars>>

MigrateInit ==
    /\ LifecycleInit
    /\ schema \in [version : 0..(Latest + 1), dirty : BOOLEAN]
    /\ holder = Nobody
    /\ mig = [p \in Programs |-> [stop |-> FALSE, found |-> 0, left |-> 0, err |-> "-"]]

Goes(p, to) == prog' = [prog EXCEPT ![p].at = to]
OnlyMigrates == UNCHANGED <<signals, ctx, request>>

-----------------------------------------------------------------------------
(* golang-migrate.                                                         *)

\* newMigrator.
Open(p) ==
    /\ Command(p) \in Migrations
    /\ Move(p, "new", "lock") \/ Exits(p, "new", "error")
    /\ OnlyMigrates /\ UNCHANGED migrateVars

\* The lock may come late: golang-migrate gives up after its lock timeout, and to close the
\* connection that still waits for it may take for ever.
LockFails(p) ==
    /\ prog[p].at = "lock" /\ Goes(p, "check")
    /\ mig' = [mig EXCEPT ![p].err = "no lock"]
    /\ OnlyMigrates /\ UNCHANGED <<schema, holder>>

Lock(p) ==
    /\ prog[p].at = "lock"
    /\ holder = Nobody \/ (holder \in Programs /\ Ended(holder))
    /\ holder' = p
    /\ IF Command(p) # "migrate-force" /\ schema.dirty
       THEN mig' = [mig EXCEPT ![p].found = schema.version, ![p].err = "dirty"] /\ Goes(p, "unlock")
       ELSE mig' = [mig EXCEPT ![p].found = schema.version] /\ Goes(p, "apply")
    /\ OnlyMigrates /\ UNCHANGED schema

\* watchGracefulStop, while the call lasts.
GracefulStop(p) ==
    /\ Command(p) \in Migrations \ {"migrate-force"}
    /\ prog[p].at \in {"lock", "apply", "file", "unlock"} /\ ctx[p] = "canceled" /\ ~mig[p].stop
    /\ mig' = [mig EXCEPT ![p].stop = TRUE]
    /\ UNCHANGED <<lifecycleVars, schema, holder>>

\* No file is known to go on from v, and none is left to.
FileMissing(p, v) == v > Latest \/ (v = 0 /\ Command(p) = "migrate-down")
NoneLeft(p, v) ==
    \/ Command(p) = "migrate-up" /\ v = Latest
    \/ Command(p) = "migrate-down --all" /\ v = 0
    \/ Command(p) = "migrate-down" /\ v # mig[p].found

\* Between files: a graceful stop returns nil, as completion does.
StopsHere(p) == mig[p].stop \/ FileMissing(p, schema.version) \/ NoneLeft(p, schema.version)

NextFile(p) ==
    /\ prog[p].at = "apply" /\ Command(p) # "migrate-force"
    /\ \/ /\ StopsHere(p) /\ Goes(p, "unlock")
          /\ mig' = [mig EXCEPT ![p].err = IF ~mig[p].stop /\ FileMissing(p, schema.version)
                                           THEN "not exist" ELSE "nil"]
          /\ UNCHANGED schema
       \/ /\ ~StopsHere(p) /\ Goes(p, "file")
          /\ schema' = [version |-> IF Command(p) = "migrate-up" THEN schema.version + 1
                                    ELSE schema.version - 1, dirty |-> TRUE]
          /\ UNCHANGED mig
    /\ OnlyMigrates /\ UNCHANGED holder

RunFile(p) ==
    /\ prog[p].at = "file"
    /\ \/ schema' = [schema EXCEPT !.dirty = FALSE] /\ Goes(p, "apply") /\ UNCHANGED mig
       \/ UNCHANGED schema /\ Goes(p, "unlock") /\ mig' = [mig EXCEPT ![p].err = "failed"]
    /\ OnlyMigrates /\ UNCHANGED holder

ForceVersion(p) ==
    /\ prog[p].at = "apply" /\ Command(p) = "migrate-force"
    /\ schema' = [version |-> Forced, dirty |-> FALSE]
    /\ Goes(p, "unlock") /\ mig' = [mig EXCEPT ![p].err = "nil"]
    /\ OnlyMigrates /\ UNCHANGED holder

Unlock(p) ==
    /\ prog[p].at = "unlock"
    /\ holder' = Nobody /\ Goes(p, "check")
    /\ mig' = [mig EXCEPT ![p].left = schema.version]
    /\ OnlyMigrates /\ UNCHANGED schema

-----------------------------------------------------------------------------
(* What the commands make of it.                                           *)

\* nil is completion.
TakesNil(p) == FALSE

\* checkInterrupted: a canceled context may have stopped it half-way.
Interrupted(p) == ctx[p] = "canceled"

\* MigrateDownStep: no file to step back through is harmless at no version only.
Succeeds(p) ==
    \/ mig[p].err = "nil" /\ Command(p) = "migrate-force"
    \/ mig[p].err = "nil" /\ ~Interrupted(p)
    \/ /\ mig[p].err = "not exist" /\ Command(p) = "migrate-down" /\ schema.version = 0
       /\ ~Interrupted(p)

Check(p) ==
    /\ Exits(p, "check", IF Succeeds(p) THEN "ok" ELSE "error")
    /\ mig' = [mig EXCEPT ![p].left = IF mig[p].err = "not exist" THEN schema.version ELSE @]
    /\ OnlyMigrates /\ UNCHANGED <<schema, holder>>

MigrateStep(p) ==
    Open(p) \/ Lock(p) \/ LockFails(p) \/ NextFile(p) \/ RunFile(p) \/ ForceVersion(p) \/ Unlock(p) \/ Check(p)

Lives(A) == A /\ UNCHANGED migrateVars

ProgramStep(p) == Lives(LifecycleStep(p)) \/ MigrateStep(p) \/ GracefulStop(p)
ProgramNext == \E p \in Programs : ProgramStep(p)

\* Timers and the goroutine that waits for signals get their turn; a request that is being
\* answered, the lock and a migration file may take for ever.
ProgramFairness ==
    \A p \in Programs :
        /\ WF_programVars(Lives(Hear(p))) /\ WF_programVars(Lives(Insist(p)))
        /\ WF_programVars(Lives(ServeStep(p)))

ProgramSpec == MigrateInit /\ [][ProgramNext]_programVars /\ ProgramFairness

-----------------------------------------------------------------------------
(* Properties.                                                             *)

\* The version that a command leaves when it has done all that it was asked to.
Done(p, v) ==
    /\ Command(p) = "migrate-up" => v = Latest
    /\ Command(p) = "migrate-down --all" => v = 0
    /\ Command(p) = "migrate-down" => v = 0 \/ v = mig[p].found - 1
    /\ Command(p) = "migrate-force" => v = Forced

\* A migration command that exits with success has done all that it was asked to, however
\* it was stopped, whatever version it met and whoever else migrates at the time: "it must
\* never lie about what happened" (MigrateDownStep, checkInterrupted).
MigrateTellsTheTruth ==
    \A p \in Programs : Command(p) \in Migrations /\ prog[p].exit = "ok" => Done(p, mig[p].left)

\* One migrator at a time touches the schema.
OneMigrator ==
    \A p \in Programs : prog[p].at \in {"apply", "file", "unlock"} => holder = p

\* A second signal ends every command, even one that waits for a lock or for a request that
\* is never answered.  run ends after the first, and so does serve unless one of its requests
\* is never answered: Shutdown gives up on it, the closing pool waits for its connection
\* (installSignalHandling, runServe, closeWithTimeout).
ShutdownEnds ==
    \A p \in Programs :
        /\ signals[p] = 2 ~> Ended(p)
        /\ Command(p) = "run" => (signals[p] > 0 ~> Ended(p))
        /\ Command(p) = "serve" => (signals[p] > 0 ~> Ended(p)) \/ <>[]request[p]
=============================================================================
