---------------------------- MODULE MigrateProofs ----------------------------
(* Proofs about Migrate, for any commands side by side and any versions.    *)
EXTENDS Migrate, TLAPS

Busy == {"apply", "file", "unlock"}

Places == Busy \cup {"new", "up", "drain", "close", "release", "lock", "check", "ended"}
Exit == {"-", "ok", "error", "killed"}
Program == [cmd : Commands, at : Places, exit : Exit]

MigrateTypeOK ==
    /\ ctx \in [Programs -> {"live", "canceled"}]
    /\ prog \in [Programs -> Program]
    /\ schema \in [version : Nat, dirty : BOOLEAN]
    /\ mig \in [Programs -> [stop : BOOLEAN, found : Nat, left : Nat,
                             err : {"-", "nil", "no lock", "dirty", "failed", "not exist"}]]

\* A migration's way, and that only the end of the context stops it gracefully.
OnItsWay(p) ==
    /\ Command(p) \in Migrations =>
          /\ prog[p].at \in {"new", "lock", "apply", "file", "unlock", "check", "ended"}
          /\ prog[p].exit = "ok" => prog[p].at = "ended"
    /\ prog[p].at \in {"lock", "apply", "file", "unlock", "check"} => Command(p) \in Migrations
    /\ mig[p].stop => ctx[p] = "canceled"
    /\ Command(p) = "migrate-force" => ~mig[p].stop

\* Whoever holds the lock has taken one step back at most.
StepsBack(p) ==
    Command(p) = "migrate-down" =>
        /\ prog[p].at = "apply" => schema.version = mig[p].found \/ schema.version = mig[p].found - 1
        /\ prog[p].at = "file" => schema.version = mig[p].found - 1

\* nil is completion, unless the context has ended.
NilIsTrue(p) ==
    Command(p) \in Migrations =>
        /\ prog[p].at = "unlock" /\ mig[p].err = "nil" /\ ~mig[p].stop => Done(p, schema.version)
        /\ prog[p].at = "check" /\ mig[p].err = "nil"
              /\ (Command(p) = "migrate-force" \/ ctx[p] = "live") => Done(p, mig[p].left)
        /\ prog[p].exit = "ok" => Done(p, mig[p].left)

MigrateInv ==
    /\ MigrateTypeOK /\ OneMigrator
    /\ \A p \in Programs : OnItsWay(p) /\ StepsBack(p) /\ NilIsTrue(p)

-----------------------------------------------------------------------------
(* Initial states.                                                         *)

LEMMA InitHolds == MigrateInit => MigrateInv
<1> SUFFICES ASSUME MigrateInit PROVE MigrateInv OBVIOUS
<1>1. ASSUME NEW p \in Programs
      PROVE  prog[p] \in [cmd : Commands, at : {"new", "ended"}, exit : {"-"}]
  <2>1. prog[p] \in {New(c) : c \in Commands} \cup {NotStarted}
    BY DEF MigrateInit, LifecycleInit
  <2>2. CASE prog[p] = NotStarted
    BY <2>2 DEF NotStarted, Commands
  <2>3. CASE \E c \in Commands : prog[p] = New(c)
    BY <2>3 DEF New
  <2>4. QED BY <2>1, <2>2, <2>3
<1>2. mig = [p \in Programs |-> [stop |-> FALSE, found |-> 0, left |-> 0, err |-> "-"]]
  BY DEF MigrateInit
<1>3. MigrateTypeOK
  <2>1. prog \in [Programs -> [cmd : Commands, at : {"new", "ended"}, exit : {"-"}]]
    <3>1. prog = [p \in Programs |-> prog[p]]
      BY DEF MigrateInit, LifecycleInit
    <3>2. QED BY <1>1, <3>1
  <2>2. schema \in [version : Nat, dirty : BOOLEAN]
    BY MigrateAssumption DEF MigrateInit
  <2>3. QED BY <1>2, <2>1, <2>2 DEF MigrateTypeOK, MigrateInit, LifecycleInit, Program, Places, Exit, Busy
<1>4. QED
  BY <1>1, <1>2, <1>3 DEF MigrateInv, OneMigrator, OnItsWay, StepsBack, NilIsTrue

-----------------------------------------------------------------------------
(* Steps.                                                                  *)

\* A program goes to another place, and may exit.
Went(p, at, exit) ==
    /\ prog' \in [Programs -> Program]
    /\ prog'[p].cmd = prog[p].cmd /\ prog'[p].at = at /\ prog'[p].exit = exit
    /\ \A q \in Programs \ {p} : prog'[q] = prog[q]

LEMMA Moving ==
    ASSUME MigrateTypeOK, NEW p \in Programs, NEW at \in Places,
           prog' = [prog EXCEPT ![p].at = at]
    PROVE  Went(p, at, prog[p].exit)
<1>1. prog \in [Programs -> Program] /\ prog[p] \in Program
  BY DEF MigrateTypeOK
<1>2. PICK x : x = [prog[p] EXCEPT !.at = at]
  OBVIOUS
<1>3. x \in Program /\ x.cmd = prog[p].cmd /\ x.at = at /\ x.exit = prog[p].exit
  BY <1>1, <1>2 DEF Program
<1>4. prog' = [prog EXCEPT ![p] = x]
  BY <1>2
<1>5. QED BY <1>1, <1>3, <1>4 DEF Went

LEMMA Exiting ==
    ASSUME MigrateTypeOK, NEW p \in Programs, NEW at \in Places, NEW exit \in Exit,
           prog' = [prog EXCEPT ![p].at = at, ![p].exit = exit]
    PROVE  Went(p, at, exit)
<1>1. prog \in [Programs -> Program] /\ prog[p] \in Program
  BY DEF MigrateTypeOK
<1>2. PICK x : x = [prog[p] EXCEPT !.at = at, !.exit = exit]
  OBVIOUS
<1>3. x \in Program /\ x.cmd = prog[p].cmd /\ x.at = at /\ x.exit = exit
  BY <1>1, <1>2 DEF Program
<1>4. prog' = [prog EXCEPT ![p] = x]
  BY <1>2
<1>5. QED BY <1>1, <1>3, <1>4 DEF Went

\* What a step of another program does not touch.
LEMMA OthersKept ==
    ASSUME MigrateInv, NEW q \in Programs,
           prog'[q] = prog[q], mig'[q] = mig[q], ctx'[q] = ctx[q],
           schema' = schema \/ prog[q].at \notin Busy
    PROVE  OnItsWay(q)' /\ StepsBack(q)' /\ NilIsTrue(q)'
<1>1. OnItsWay(q) /\ StepsBack(q) /\ NilIsTrue(q) /\ Command(q)' = Command(q)
  BY DEF MigrateInv, Command
<1>2. OnItsWay(q)'
  BY <1>1 DEF OnItsWay
<1>3. StepsBack(q)'
  BY <1>1 DEF StepsBack, Busy
<1>4. \A v : Done(q, v)' <=> Done(q, v)
  BY <1>1 DEF Done
<1>5. NilIsTrue(q)'
  BY <1>1, <1>4 DEF NilIsTrue, Busy
<1>6. QED BY <1>2, <1>3, <1>5

\* Whoever holds the lock touches the schema alone.
LEMMA Alone ==
    ASSUME MigrateInv, NEW p \in Programs, prog[p].at \in Busy, NEW q \in Programs \ {p}
    PROVE  prog[q].at \notin Busy
BY DEF MigrateInv, OneMigrator, Busy

\* Outside of migrations: to a place of serve or run, or to the end.
Elsewhere(p) ==
    \E at \in Places \ (Busy \cup {"lock", "check"}), exit \in Exit :
        /\ Went(p, at, exit)
        /\ at = "ended" \/ Command(p) \in {"serve", "run"}
        /\ exit = "ok" => Command(p) \in {"serve", "run"}

LEMMA LifecycleWay ==
    ASSUME MigrateInv, NEW p \in Programs, LifecycleStep(p)
    PROVE  /\ UNCHANGED prog \/ Elsewhere(p)
           /\ UNCHANGED ctx \/ ctx' = [ctx EXCEPT ![p] = "canceled"]
<1> USE DEF MigrateInv
<1>1. CASE Signal(p) \/ Asked(p) \/ Answered(p) \/ Hear(p)
  BY <1>1 DEF Signal, Asked, Answered, Hear
<1>2. ASSUME NEW at \in {"up", "drain", "close"}, prog' = [prog EXCEPT ![p].at = at],
             Command(p) \in {"serve", "run"}
      PROVE  Elsewhere(p)
  <2>1. prog[p].exit \in Exit
    BY DEF MigrateTypeOK, Program
  <2>2. at \in Places \ (Busy \cup {"lock", "check"})
    BY DEF Places, Busy
  <2>3. Went(p, at, prog[p].exit)
    BY <1>2, <2>2, Moving
  <2>4. QED BY <1>2, <2>1, <2>2, <2>3 DEF Elsewhere
<1>3. ASSUME NEW at \in {"ended", "release"}, NEW exit \in Exit,
             prog' = [prog EXCEPT ![p].at = at, ![p].exit = exit],
             Command(p) \in {"serve", "run"} \/ (at = "ended" /\ exit # "ok")
      PROVE  Elsewhere(p)
  <2>1. at \in Places \ (Busy \cup {"lock", "check"})
    BY DEF Places, Busy
  <2>2. Went(p, at, exit)
    BY <1>3, <2>1, Exiting
  <2>3. QED BY <1>3, <2>1, <2>2 DEF Elsewhere
<1>4. prog[p].at \in {"up", "drain", "close", "release"} => Command(p) \in {"serve", "run"}
  BY DEF OnItsWay, MigrateTypeOK, Program, Command, Commands
<1>5. {"ok", "error", "killed"} \subseteq Exit
  BY DEF Exit
<1>6. CASE Insist(p)
  BY <1>3, <1>5, <1>6 DEF Insist
<1>7. CASE Connect(p)
  BY <1>2, <1>3, <1>5, <1>7 DEF Connect, Move, Exits
<1>8. CASE SeeTheEnd(p)
  BY <1>2, <1>4, <1>8 DEF SeeTheEnd, Move
<1>9. CASE ListenFails(p) \/ Drain(p)
  BY <1>3, <1>4, <1>5, <1>9 DEF ListenFails, Drain, Returns
<1>10. CASE Release(p)
  <2>1. prog[p].exit \in Exit
    BY DEF MigrateTypeOK, Program
  <2>2. QED BY <1>3, <1>4, <1>10, <2>1 DEF Release, Exits
<1>11. CASE CloseInTime(p)
  BY <1>3, <1>4, <1>5, <1>11 DEF CloseInTime, Exits
<1>12. QED
  BY <1>1, <1>6, <1>7, <1>8, <1>9, <1>10, <1>11
     DEF LifecycleStep, ServeStep, Insist, Connect, SeeTheEnd, ListenFails, Drain, Release, CloseInTime

LEMMA LifecycleKeeps ==
    ASSUME MigrateInv, NEW p \in Programs, Lives(LifecycleStep(p))
    PROVE  MigrateInv'
<1>1. /\ UNCHANGED prog \/ Elsewhere(p)
      /\ UNCHANGED ctx \/ ctx' = [ctx EXCEPT ![p] = "canceled"]
      /\ UNCHANGED <<schema, holder, mig>>
  BY LifecycleWay DEF Lives, migrateVars
<1>2. MigrateTypeOK'
  BY <1>1 DEF MigrateInv, MigrateTypeOK, Elsewhere, Went
<1>3. OneMigrator'
  BY <1>1 DEF MigrateInv, OneMigrator, Elsewhere, Went, Busy
<1>4. ctx'[p] \in {ctx[p], "canceled"} /\ \A q \in Programs \ {p} : ctx'[q] = ctx[q]
  BY <1>1 DEF MigrateInv, MigrateTypeOK
<1>5. OnItsWay(p)' /\ StepsBack(p)' /\ NilIsTrue(p)'
  <2>1. CASE UNCHANGED prog
    BY <1>1, <1>4, <2>1 DEF MigrateInv, OnItsWay, StepsBack, NilIsTrue, Done, Command
  <2>2. CASE Elsewhere(p)
    BY <1>1, <1>4, <2>2 DEF MigrateInv, Elsewhere, Went, OnItsWay, StepsBack, NilIsTrue, Done,
                            Command, Migrations, Busy
  <2>3. QED BY <1>1, <2>1, <2>2
<1>6. \A q \in Programs \ {p} : OnItsWay(q)' /\ StepsBack(q)' /\ NilIsTrue(q)'
  BY <1>1, <1>4, OthersKept DEF Elsewhere, Went
<1>7. QED BY <1>2, <1>3, <1>5, <1>6 DEF MigrateInv

LEMMA OpenKeeps ==
    ASSUME MigrateInv, NEW p \in Programs, Open(p)
    PROVE  MigrateInv'
<1>1. UNCHANGED <<ctx, schema, holder, mig>>
  BY DEF Open, OnlyMigrates, migrateVars
<1>2. \/ Went(p, "lock", prog[p].exit) /\ prog[p].at = "new"
      \/ Went(p, "ended", "error")
  <2>1. "lock" \in Places /\ "ended" \in Places /\ "error" \in Exit
    BY DEF Places, Exit
  <2>2. QED BY <2>1, Moving, Exiting DEF MigrateInv, Open, Move, Exits
<1>3. MigrateTypeOK'
  BY <1>1, <1>2 DEF MigrateInv, MigrateTypeOK, Went
<1>4. OneMigrator'
  BY <1>1, <1>2 DEF MigrateInv, OneMigrator, Went
<1>5. OnItsWay(p)' /\ StepsBack(p)' /\ NilIsTrue(p)'
  BY <1>1, <1>2 DEF MigrateInv, Open, Went, OnItsWay, StepsBack, NilIsTrue, Done, Command
<1>6. \A q \in Programs \ {p} : OnItsWay(q)' /\ StepsBack(q)' /\ NilIsTrue(q)'
  BY <1>1, <1>2, OthersKept DEF Went
<1>7. QED BY <1>3, <1>4, <1>5, <1>6 DEF MigrateInv

LEMMA GracefulStopKeeps ==
    ASSUME MigrateInv, NEW p \in Programs, GracefulStop(p)
    PROVE  MigrateInv'
<1>1. UNCHANGED <<ctx, prog, schema, holder>>
  BY DEF GracefulStop, lifecycleVars
<1>2. /\ mig'[p].stop /\ mig'[p].found = mig[p].found /\ mig'[p].left = mig[p].left /\ mig'[p].err = mig[p].err
      /\ MigrateTypeOK'
      /\ \A q \in Programs \ {p} : mig'[q] = mig[q]
  BY DEF GracefulStop, lifecycleVars, MigrateInv, MigrateTypeOK
<1>3. OneMigrator'
  BY <1>1 DEF MigrateInv, OneMigrator
<1>4. OnItsWay(p)' /\ StepsBack(p)' /\ NilIsTrue(p)'
  BY <1>1, <1>2 DEF MigrateInv, GracefulStop, OnItsWay, StepsBack, NilIsTrue, Done, Command
<1>5. \A q \in Programs \ {p} : OnItsWay(q)' /\ StepsBack(q)' /\ NilIsTrue(q)'
  BY <1>1, <1>2, OthersKept
<1>6. QED BY <1>2, <1>3, <1>4, <1>5 DEF MigrateInv

\* Who is on its way and goes on to another place of the way stays on it.
LEMMA StaysOnItsWay ==
    ASSUME NEW p \in Programs, OnItsWay(p), prog[p].at \in {"lock", "apply", "file", "unlock", "check"},
           NEW at \in {"apply", "file", "unlock", "check"}, Went(p, at, prog[p].exit),
           ctx' = ctx, mig'[p].stop = mig[p].stop
    PROVE  OnItsWay(p)'
<1>1. Command(p)' = Command(p) /\ prog'[p].at = at /\ prog'[p].exit = prog[p].exit
  BY DEF Went, Command
<1>2. Command(p) \in Migrations /\ prog[p].exit # "ok"
  BY DEF OnItsWay
<1>3. (mig'[p].stop => ctx'[p] = "canceled") /\ (Command(p) = "migrate-force" => ~mig'[p].stop)
  BY DEF OnItsWay
<1>4. QED BY <1>1, <1>2, <1>3 DEF OnItsWay

\* Nobody who could touch the schema is left when the lock is to be had.
LEMMA LockKeeps ==
    ASSUME MigrateInv, NEW p \in Programs, Lock(p)
    PROVE  MigrateInv'
<1>1. UNCHANGED <<ctx, schema>> /\ holder' = p /\ prog[p].at = "lock"
  BY DEF Lock, OnlyMigrates
<1>2. \/ Went(p, "unlock", prog[p].exit) /\ mig'[p].err = "dirty"
      \/ Went(p, "apply", prog[p].exit)
  <2>1. "unlock" \in Places /\ "apply" \in Places
    BY DEF Places, Busy
  <2>2. CASE mig' = [mig EXCEPT ![p].found = schema.version, ![p].err = "dirty"] /\ Goes(p, "unlock")
    BY <2>1, <2>2, Moving DEF Goes, MigrateInv, MigrateTypeOK
  <2>3. CASE Goes(p, "apply")
    BY <2>1, <2>3, Moving DEF Goes, MigrateInv
  <2>4. QED BY <2>2, <2>3 DEF Lock
<1>3. /\ mig'[p].found = schema.version /\ mig'[p].stop = mig[p].stop
      /\ mig' \in [Programs -> [stop : BOOLEAN, found : Nat, left : Nat,
                               err : {"-", "nil", "no lock", "dirty", "failed", "not exist"}]]
      /\ \A q \in Programs \ {p} : mig'[q] = mig[q]
  <2>1. schema.version \in Nat
    BY DEF MigrateInv, MigrateTypeOK
  <2>2. CASE mig' = [mig EXCEPT ![p].found = schema.version, ![p].err = "dirty"]
    <3>1. PICK x : x = [mig[p] EXCEPT !.found = schema.version, !.err = "dirty"]
      OBVIOUS
    <3>2. mig' = [mig EXCEPT ![p] = x]
      BY <2>2, <3>1
    <3>3. QED BY <2>1, <3>1, <3>2 DEF MigrateInv, MigrateTypeOK
  <2>3. CASE mig' = [mig EXCEPT ![p].found = schema.version]
    BY <2>1, <2>3 DEF MigrateInv, MigrateTypeOK
  <2>4. QED BY <2>2, <2>3 DEF Lock
<1>4. MigrateTypeOK'
  BY <1>1, <1>2, <1>3 DEF MigrateInv, MigrateTypeOK, Went
<1>5. \A q \in Programs : prog[q].at \notin Busy
  BY MigrateAssumption DEF Lock, MigrateInv, OneMigrator, Ended, Busy
<1>6. OneMigrator'
  BY <1>1, <1>2, <1>5 DEF OneMigrator, Went, Busy
<1>7. OnItsWay(p)' /\ StepsBack(p)' /\ NilIsTrue(p)'
  <2>1. OnItsWay(p)'
    <3>1. PICK at \in {"unlock", "apply"} : Went(p, at, prog[p].exit)
      BY <1>2
    <3>2. OnItsWay(p)
      BY DEF MigrateInv
    <3>3. QED BY <1>1, <1>3, <3>1, <3>2, StaysOnItsWay
  <2>2. StepsBack(p)'
    BY <1>1, <1>2, <1>3 DEF Went, StepsBack, Command
  <2>3. NilIsTrue(p)'
    BY <1>1, <1>2 DEF MigrateInv, Went, OnItsWay, NilIsTrue, Command
  <2>4. QED BY <2>1, <2>2, <2>3
<1>8. \A q \in Programs \ {p} : OnItsWay(q)' /\ StepsBack(q)' /\ NilIsTrue(q)'
  BY <1>1, <1>2, <1>3, OthersKept DEF Went
<1>9. QED BY <1>4, <1>6, <1>7, <1>8 DEF MigrateInv

LEMMA LockFailsKeeps ==
    ASSUME MigrateInv, NEW p \in Programs, LockFails(p)
    PROVE  MigrateInv'
<1>1. prog[p].at = "lock" /\ UNCHANGED <<ctx, schema, holder>>
  BY DEF LockFails, OnlyMigrates
<1>2. Went(p, "check", prog[p].exit)
  <2>1. "check" \in Places
    BY DEF Places
  <2>2. QED BY <2>1, Moving DEF LockFails, Goes, MigrateInv
<1>3. /\ mig'[p].err = "no lock" /\ mig'[p].stop = mig[p].stop
      /\ mig' \in [Programs -> [stop : BOOLEAN, found : Nat, left : Nat,
                               err : {"-", "nil", "no lock", "dirty", "failed", "not exist"}]]
      /\ \A q \in Programs \ {p} : mig'[q] = mig[q]
  BY DEF LockFails, MigrateInv, MigrateTypeOK
<1>4. MigrateTypeOK'
  BY <1>1, <1>2, <1>3 DEF MigrateInv, MigrateTypeOK, Went
<1>5. OneMigrator'
  BY <1>1, <1>2 DEF MigrateInv, OneMigrator, Went
<1>6. OnItsWay(p)'
  BY <1>1, <1>2, <1>3, StaysOnItsWay DEF MigrateInv
<1>7. StepsBack(p)' /\ NilIsTrue(p)'
  BY <1>1, <1>2, <1>3 DEF MigrateInv, Went, OnItsWay, StepsBack, NilIsTrue, Command
<1>8. \A q \in Programs \ {p} : OnItsWay(q)' /\ StepsBack(q)' /\ NilIsTrue(q)'
  BY <1>1, <1>2, <1>3, OthersKept DEF Went
<1>9. QED BY <1>4, <1>5, <1>6, <1>7, <1>8 DEF MigrateInv

\* p does one thing to the schema, or to what it makes of it, and goes on.
AtWork(p, at) ==
    /\ prog[p].at \in Busy /\ Went(p, at, prog[p].exit)
    /\ schema' \in [version : Nat, dirty : BOOLEAN]
    /\ mig' \in [Programs -> [stop : BOOLEAN, found : Nat, left : Nat,
                              err : {"-", "nil", "no lock", "dirty", "failed", "not exist"}]]
    /\ mig'[p].stop = mig[p].stop /\ mig'[p].found = mig[p].found
    /\ \A q \in Programs \ {p} : mig'[q] = mig[q]
    /\ UNCHANGED <<ctx, holder>>

LEMMA AtWorkKeeps ==
    ASSUME MigrateInv, NEW p \in Programs, NEW at \in Busy, AtWork(p, at)
    PROVE  StepsBack(p)' /\ NilIsTrue(p)' => MigrateInv'
<1> SUFFICES ASSUME StepsBack(p)', NilIsTrue(p)' PROVE MigrateInv' OBVIOUS
<1>1. MigrateTypeOK'
  BY DEF MigrateInv, MigrateTypeOK, AtWork, Went
<1>2. \A q \in Programs \ {p} : prog[q].at \notin Busy /\ prog'[q] = prog[q]
  BY Alone DEF AtWork, Went
<1>3. OneMigrator'
  BY <1>2 DEF MigrateInv, OneMigrator, AtWork, Went, Busy
<1>4. OnItsWay(p)'
  BY DEF MigrateInv, OnItsWay, AtWork, Went, Command, Busy
<1>5. \A q \in Programs \ {p} : OnItsWay(q)' /\ StepsBack(q)' /\ NilIsTrue(q)'
  BY <1>2, OthersKept DEF AtWork
<1>6. QED BY <1>1, <1>3, <1>4, <1>5 DEF MigrateInv

LEMMA NextFileKeeps ==
    ASSUME MigrateInv, NEW p \in Programs, NextFile(p)
    PROVE  MigrateInv'
<1> DEFINE v == schema.version
<1>1. /\ v \in Nat /\ Latest \in Nat
      /\ "unlock" \in Places /\ "file" \in Places /\ "unlock" \in Busy /\ "file" \in Busy
      /\ prog[p].at = "apply" /\ prog[p].at \in Busy /\ Command(p) # "migrate-force"
  BY MigrateAssumption DEF MigrateInv, MigrateTypeOK, Places, Busy, NextFile
<1>2. CASE StopsHere(p) /\ Goes(p, "unlock") /\ UNCHANGED schema
           /\ mig' = [mig EXCEPT ![p].err = IF ~mig[p].stop /\ FileMissing(p, v) THEN "not exist" ELSE "nil"]
  <2>1. AtWork(p, "unlock")
    <3>1. Went(p, "unlock", prog[p].exit)
      BY <1>1, <1>2, Moving DEF Goes, MigrateInv
    <3>2. UNCHANGED <<ctx, holder>>
      BY DEF NextFile, OnlyMigrates
    <3>3. PICK err \in {"not exist", "nil"} : mig' = [mig EXCEPT ![p].err = err]
      BY <1>2
    <3>4. mig' \in [Programs -> [stop : BOOLEAN, found : Nat, left : Nat,
                                 err : {"-", "nil", "no lock", "dirty", "failed", "not exist"}]]
      BY <3>3 DEF MigrateInv, MigrateTypeOK
    <3>5. /\ mig'[p].stop = mig[p].stop /\ mig'[p].found = mig[p].found
          /\ \A q \in Programs \ {p} : mig'[q] = mig[q]
      BY <3>3 DEF MigrateInv, MigrateTypeOK
    <3>6. schema' \in [version : Nat, dirty : BOOLEAN]
      BY <1>2 DEF MigrateInv, MigrateTypeOK
    <3>7. QED BY <1>1, <3>1, <3>2, <3>4, <3>5, <3>6 DEF AtWork
  <2>2. StepsBack(p)'
    BY <2>1 DEF StepsBack, AtWork, Went, Command
  <2>3. NoneLeft(p, v) /\ ~FileMissing(p, v) => Done(p, v)
    BY <1>1 DEF NoneLeft, FileMissing, Done, MigrateInv, StepsBack
  <2>4. mig'[p].err = "nil" /\ ~mig[p].stop => ~FileMissing(p, v) /\ NoneLeft(p, v)
    BY <1>2 DEF StopsHere, MigrateInv, MigrateTypeOK
  <2>5. NilIsTrue(p)'
    <3>1. prog[p].exit # "ok" \/ Command(p) \notin Migrations
      BY <1>1 DEF MigrateInv, OnItsWay
    <3>2. Done(p, v) => Done(p, schema.version)'
      BY <1>2, <2>1 DEF AtWork, Went, Done, Command
    <3>3. prog'[p].at = "unlock" /\ Command(p)' = Command(p) /\ prog'[p].exit = prog[p].exit
          /\ mig'[p].stop = mig[p].stop
      BY <2>1 DEF AtWork, Went, Command
    <3>4. QED BY <2>3, <2>4, <3>1, <3>2, <3>3 DEF NilIsTrue
  <2>6. QED BY <1>1, <2>1, <2>2, <2>5, AtWorkKeeps
<1>3. CASE ~StopsHere(p) /\ Goes(p, "file") /\ UNCHANGED mig
           /\ schema' = [version |-> IF Command(p) = "migrate-up" THEN v + 1 ELSE v - 1, dirty |-> TRUE]
  <2>1. v + 1 \in Nat /\ (Command(p) # "migrate-up" => v - 1 \in Nat)
    <3>1. Command(p) \in Migrations
      BY <1>1 DEF MigrateInv, OnItsWay
    <3>2. v # 0 \/ Command(p) = "migrate-up"
      BY <1>1, <1>3, <3>1 DEF StopsHere, FileMissing, NoneLeft, Migrations
    <3>3. QED BY <1>1, <3>2
  <2>2. AtWork(p, "file")
    BY <1>1, <1>3, <2>1, Moving DEF NextFile, Goes, OnlyMigrates, MigrateInv, MigrateTypeOK, AtWork
  <2>3. StepsBack(p)'
    BY <1>1, <1>3, <2>2 DEF StopsHere, NoneLeft, StepsBack, AtWork, Went, Command
  <2>4. NilIsTrue(p)'
    BY <1>1, <2>2 DEF MigrateInv, OnItsWay, NilIsTrue, AtWork, Went, Command
  <2>5. QED BY <1>1, <2>2, <2>3, <2>4, AtWorkKeeps
<1>4. QED BY <1>2, <1>3 DEF NextFile

LEMMA RunFileKeeps ==
    ASSUME MigrateInv, NEW p \in Programs, RunFile(p)
    PROVE  MigrateInv'
<1>1. /\ "unlock" \in Places /\ "apply" \in Places /\ "unlock" \in Busy /\ "apply" \in Busy
      /\ prog[p].at = "file" /\ prog[p].at \in Busy
  BY DEF Places, Busy, RunFile
<1>2. CASE schema' = [schema EXCEPT !.dirty = FALSE] /\ Goes(p, "apply") /\ UNCHANGED mig
  <2>1. AtWork(p, "apply") /\ schema'.version = schema.version
    BY <1>1, <1>2, Moving DEF RunFile, Goes, OnlyMigrates, MigrateInv, MigrateTypeOK, AtWork
  <2>2. StepsBack(p)' /\ NilIsTrue(p)'
    BY <1>1, <1>2, <2>1 DEF MigrateInv, OnItsWay, StepsBack, NilIsTrue, AtWork, Went, Command
  <2>3. QED BY <1>1, <2>1, <2>2, AtWorkKeeps
<1>3. CASE UNCHANGED schema /\ Goes(p, "unlock") /\ mig' = [mig EXCEPT ![p].err = "failed"]
  <2>0. Went(p, "unlock", prog[p].exit)
    BY <1>1, <1>3, Moving DEF Goes, MigrateInv
  <2>1. AtWork(p, "unlock") /\ mig'[p].err = "failed"
    BY <1>1, <1>3, <2>0 DEF RunFile, OnlyMigrates, MigrateInv, MigrateTypeOK, AtWork
  <2>2. StepsBack(p)' /\ NilIsTrue(p)'
    BY <1>1, <2>1 DEF MigrateInv, OnItsWay, StepsBack, NilIsTrue, AtWork, Went, Command
  <2>3. QED BY <1>1, <2>1, <2>2, AtWorkKeeps
<1>4. QED BY <1>2, <1>3 DEF RunFile

LEMMA ForceKeeps ==
    ASSUME MigrateInv, NEW p \in Programs, ForceVersion(p)
    PROVE  MigrateInv'
<1>1. /\ "unlock" \in Places /\ "unlock" \in Busy /\ prog[p].at = "apply" /\ prog[p].at \in Busy
      /\ Command(p) = "migrate-force" /\ schema'.version = Forced /\ Forced \in Nat
  BY MigrateAssumption DEF Places, Busy, ForceVersion
<1>2. AtWork(p, "unlock")
  BY <1>1, Moving DEF ForceVersion, Goes, OnlyMigrates, MigrateInv, MigrateTypeOK, AtWork
<1>3. StepsBack(p)' /\ NilIsTrue(p)'
  BY <1>1, <1>2 DEF MigrateInv, OnItsWay, StepsBack, NilIsTrue, AtWork, Went, Done, Command
<1>4. QED BY <1>1, <1>2, <1>3, AtWorkKeeps

LEMMA UnlockKeeps ==
    ASSUME MigrateInv, NEW p \in Programs, Unlock(p)
    PROVE  MigrateInv'
<1>1. Went(p, "check", prog[p].exit) /\ prog[p].at = "unlock" /\ UNCHANGED <<ctx, schema>>
  <2>1. "check" \in Places
    BY DEF Places
  <2>2. QED BY <2>1, Moving DEF Unlock, Goes, OnlyMigrates, MigrateInv
<1>2. /\ mig' \in [Programs -> [stop : BOOLEAN, found : Nat, left : Nat,
                               err : {"-", "nil", "no lock", "dirty", "failed", "not exist"}]]
      /\ mig'[p].left = schema.version /\ mig'[p].stop = mig[p].stop
      /\ mig'[p].err = mig[p].err /\ mig'[p].found = mig[p].found
      /\ \A q \in Programs \ {p} : mig'[q] = mig[q]
  BY DEF Unlock, MigrateInv, MigrateTypeOK
<1>3. MigrateTypeOK'
  BY <1>1, <1>2 DEF MigrateInv, MigrateTypeOK, Went
<1>4. OneMigrator'
  BY <1>1, Alone DEF Went, OneMigrator, Busy
<1>5. OnItsWay(p)' /\ StepsBack(p)'
  <2>1. OnItsWay(p)
    BY DEF MigrateInv
  <2>2. OnItsWay(p)'
    BY <1>1, <1>2, <2>1, StaysOnItsWay
  <2>3. StepsBack(p)'
    BY <1>1 DEF Went, StepsBack
  <2>4. QED BY <2>2, <2>3
<1>6. NilIsTrue(p)'
  <2>1. Command(p)' = Command(p) /\ prog'[p].at = "check" /\ prog'[p].exit = prog[p].exit /\ ctx'[p] = ctx[p]
    BY <1>1 DEF Went, Command
  <2>2. Command(p) \in Migrations => prog[p].exit # "ok"
    BY <1>1 DEF MigrateInv, OnItsWay
  <2>3. Done(p, schema.version) => Done(p, mig[p].left)'
    BY <1>2, <2>1 DEF Done
  <2>4. mig[p].err = "nil" /\ Command(p) \in Migrations /\ ~mig[p].stop => Done(p, schema.version)
    BY <1>1 DEF MigrateInv, NilIsTrue
  <2>5. mig[p].stop => ctx[p] = "canceled" /\ Command(p) # "migrate-force"
    BY DEF MigrateInv, OnItsWay
  <2>6. QED BY <1>2, <2>1, <2>2, <2>3, <2>4, <2>5 DEF NilIsTrue
<1>7. \A q \in Programs \ {p} : OnItsWay(q)' /\ StepsBack(q)' /\ NilIsTrue(q)'
  BY <1>1, <1>2, OthersKept DEF Went
<1>8. QED BY <1>3, <1>4, <1>5, <1>6, <1>7 DEF MigrateInv

LEMMA CheckKeeps ==
    ASSUME MigrateInv, NEW p \in Programs, Check(p)
    PROVE  MigrateInv'
<1>1. PICK how \in {"ok", "error"} : Exits(p, "check", how) /\ (how = "ok" => Succeeds(p))
  BY DEF Check
<1>2. Went(p, "ended", how) /\ prog[p].at = "check" /\ UNCHANGED <<ctx, schema>>
  <2>1. "ended" \in Places /\ how \in Exit
    BY DEF Places, Exit
  <2>2. QED BY <1>1, <2>1, Exiting DEF Exits, Check, OnlyMigrates, MigrateInv
<1>3. /\ mig' \in [Programs -> [stop : BOOLEAN, found : Nat, left : Nat,
                               err : {"-", "nil", "no lock", "dirty", "failed", "not exist"}]]
      /\ mig'[p].left = IF mig[p].err = "not exist" THEN schema.version ELSE mig[p].left
      /\ mig'[p].stop = mig[p].stop /\ mig'[p].found = mig[p].found
      /\ \A q \in Programs \ {p} : mig'[q] = mig[q]
  BY DEF Check, MigrateInv, MigrateTypeOK
<1>4. MigrateTypeOK'
  BY <1>2, <1>3 DEF MigrateInv, MigrateTypeOK, Went
<1>5. OneMigrator'
  BY <1>2 DEF MigrateInv, Check, Went, OneMigrator
<1>6. OnItsWay(p)' /\ StepsBack(p)'
  <2>1. OnItsWay(p)'
    <3>1. Command(p)' = Command(p) /\ prog'[p].at = "ended" /\ prog'[p].exit = how
      BY <1>2 DEF Went, Command
    <3>2. ctx'[p] = ctx[p] /\ mig'[p].stop = mig[p].stop
      BY <1>2, <1>3
    <3>3. OnItsWay(p)
      BY DEF MigrateInv
    <3>4. QED BY <3>1, <3>2, <3>3 DEF OnItsWay
  <2>2. StepsBack(p)'
    BY <1>2 DEF Went, StepsBack
  <2>3. QED BY <2>1, <2>2
<1>7. NilIsTrue(p)'
  <2>1. how = "ok" => Done(p, mig'[p].left)
    <3>1. Command(p) \in Migrations /\ NilIsTrue(p) /\ ctx[p] \in {"live", "canceled"}
      BY <1>2 DEF MigrateInv, OnItsWay, MigrateTypeOK
    <3>2. CASE mig[p].err = "nil" /\ (Command(p) = "migrate-force" \/ ~Interrupted(p))
      BY <1>2, <1>3, <3>1, <3>2 DEF NilIsTrue, Interrupted
    <3>3. CASE mig[p].err = "not exist" /\ Command(p) = "migrate-down" /\ schema.version = 0
      BY <1>3, <3>3 DEF Done
    <3>4. QED BY <1>1, <3>2, <3>3 DEF Succeeds
  <2>2. Done(p, mig'[p].left) => Done(p, mig[p].left)'
    BY <1>2, <1>3 DEF Done, Went, Command
  <2>3. QED BY <1>2, <2>1, <2>2 DEF NilIsTrue, Went
<1>8. \A q \in Programs \ {p} : OnItsWay(q)' /\ StepsBack(q)' /\ NilIsTrue(q)'
  BY <1>2, <1>3, OthersKept DEF Went
<1>9. QED BY <1>4, <1>5, <1>6, <1>7, <1>8 DEF MigrateInv

-----------------------------------------------------------------------------
(* Theorems.                                                               *)

LEMMA StepKeeps == MigrateInv /\ [ProgramNext]_programVars => MigrateInv'
<1> SUFFICES ASSUME MigrateInv, [ProgramNext]_programVars PROVE MigrateInv' OBVIOUS
<1>1. ASSUME NEW p \in Programs, ProgramStep(p) PROVE MigrateInv'
  BY <1>1, LifecycleKeeps, OpenKeeps, LockKeeps, LockFailsKeeps, NextFileKeeps, RunFileKeeps, ForceKeeps,
     UnlockKeeps, CheckKeeps, GracefulStopKeeps DEF ProgramStep, MigrateStep
<1>2. CASE UNCHANGED programVars
  <2>1. UNCHANGED <<ctx, prog, schema, holder, mig>>
    BY <1>2 DEF programVars, lifecycleVars, migrateVars
  <2>2. MigrateTypeOK' /\ OneMigrator'
    BY <2>1 DEF MigrateInv, MigrateTypeOK, OneMigrator
  <2>3. QED BY <2>1, <2>2, OthersKept DEF MigrateInv
<1>3. QED BY <1>1, <1>2 DEF ProgramNext

\* Wherever signals, failures and other migrators come in between, what a migration
\* command says on success is true (Migrate.MigrateTellsTheTruth).
THEOREM SuccessIsTrue == ProgramSpec => []MigrateTellsTheTruth
<1>1. MigrateInv => MigrateTellsTheTruth
  BY DEF MigrateInv, NilIsTrue, MigrateTellsTheTruth
<1>2. QED BY <1>1, InitHolds, StepKeeps, PTL DEF ProgramSpec

\* No two commands touch the schema at a time.
THEOREM OneAtATime == ProgramSpec => []OneMigrator
<1>1. MigrateInv => OneMigrator
  BY DEF MigrateInv
<1>2. QED BY <1>1, InitHolds, StepKeeps, PTL DEF ProgramSpec
=============================================================================
