------------------------------- MODULE RunLog -------------------------------
(***************************************************************************)
(* The minimum gap between two calls of one rate-limited source: tooSoon   *)
(* in internal/ingestion/collectors.go, against the collector_runs table   *)
(* of internal/runlog, by ingest processes that may overlap.               *)
(***************************************************************************)
EXTENDS Integers

CONSTANTS Procs,   \* ingest processes that may overlap
          Forcing, \* those run with --force
          MinGap,  \* MinInterval less intervalTolerance, in ticks
          MaxTime  \* the bound of the clock: the model stops there

ASSUME RunLogAssumption ==
    /\ Forcing \subseteq Procs
    /\ MinGap \in Nat \ {0} /\ MaxTime \in Nat

Never == -1

VARIABLES
    clock, \* the wall clock
    last,  \* collector_runs.last_run_at, or Never
    pc,    \* pc[p]: "idle", or what tooSoon does next
    now,   \* now[p]: when p looked at the clock
    asked, \* the latest such time of a request that was made, or Never
    overtaken \* overtaken[p]: another run was recorded since p read the log

vars == <<clock, last, pc, now, asked, overtaken>>

Init ==
    /\ clock = 0 /\ last = Never /\ asked = Never
    /\ pc = [p \in Procs |-> "idle"]
    /\ now = [p \in Procs |-> 0]
    /\ overtaken = [p \in Procs |-> FALSE]

Goto(p, there) == pc' = [pc EXCEPT ![p] = there]
Later(s, t) == IF s > t THEN s ELSE t

\* in.now(): the clock is read before the run log is.
Start(p) ==
    /\ pc[p] = "idle"
    /\ now' = [now EXCEPT ![p] = clock]
    /\ overtaken' = [overtaken EXCEPT ![p] = FALSE]
    /\ Goto(p, IF p \in Forcing THEN "record" ELSE "read")
    /\ UNCHANGED <<clock, last, asked>>

\* A gap that is one tick short.
TooSoonEarly(p) == last # Never /\ now[p] - last < MinGap - 1

TooSoon(p) == last # Never /\ now[p] - last < MinGap

\* LastRun: a run that comes too soon is skipped.
Read(p) ==
    /\ pc[p] = "read"
    /\ Goto(p, IF TooSoon(p) THEN "idle" ELSE "record")
    /\ UNCHANGED <<clock, last, now, asked, overtaken>>

\* Those that were let through by what the log said before p's record.
Overtake(p) ==
    overtaken' = [q \in Procs |-> overtaken[q]
                                  \/ (q # p /\ pc[q] \in {"record", "request"})]

\* A record that lets a slow run overwrite a newer one.
RecordAnyway(p) ==
    /\ pc[p] = "record"
    /\ last' = now[p]
    /\ Overtake(p)
    /\ Goto(p, "request")
    /\ UNCHANGED <<clock, now, asked>>

\* A record of when the next run may come.
RecordNext(p) ==
    /\ pc[p] = "record"
    /\ last' = Later(last, now[p] + MinGap)
    /\ Overtake(p)
    /\ Goto(p, "request")
    /\ UNCHANGED <<clock, now, asked>>

RecordRun(p) ==
    /\ pc[p] = "record"
    /\ last' = Later(last, now[p])
    /\ Overtake(p)
    /\ Goto(p, "request")
    /\ UNCHANGED <<clock, now, asked>>

\* Not knowing is taken for permission.
GoesAhead(p) ==
    /\ pc[p] \in {"read", "record", "request"}
    /\ Goto(p, "request")
    /\ UNCHANGED <<clock, last, now, asked, overtaken>>

\* The run log cannot be read or written, or the process dies: no request.
GivesUp(p) ==
    /\ pc[p] \in {"read", "record", "request"}
    /\ Goto(p, "idle")
    /\ UNCHANGED <<clock, last, now, asked, overtaken>>

\* Collect.
Request(p) ==
    /\ pc[p] = "request"
    /\ asked' = Later(asked, now[p])
    /\ Goto(p, "idle")
    /\ UNCHANGED <<clock, last, now, overtaken>>

Tick ==
    /\ clock < MaxTime
    /\ clock' = clock + 1
    /\ UNCHANGED <<last, pc, now, asked, overtaken>>

Next ==
    \/ \E p \in Procs : Start(p) \/ Read(p) \/ RecordRun(p) \/ GivesUp(p) \/ Request(p)
    \/ Tick

Spec == Init /\ [][Next]_vars

-----------------------------------------------------------------------------
(* Properties.                                                             *)

Times == Nat \cup {Never}

TypeOK ==
    /\ clock \in Nat /\ last \in Times /\ asked \in Times
    /\ pc \in [Procs -> {"idle", "read", "record", "request"}]
    /\ now \in [Procs -> Nat]
    /\ overtaken \in [Procs -> BOOLEAN]
    /\ last <= clock /\ \A p \in Procs : now[p] <= clock

\* "An attempt counts": no request is made that is not on record, whichever
\* processes overlap or die, so a later run that asks the log sees it.
AskedIsRecorded ==
    /\ asked <= last
    /\ \A p \in Procs : pc[p] = "request" => now[p] <= last

\* "The stored time only moves forward": a slow process cannot make the newest
\* run look older and let the next one in early (RecordRun of internal/runlog).
NeverLooksOlder == [][last' >= last]_vars

\* A request that was not forced comes at least the gap after every request before
\* it, unless another process recorded its run between this one's look at the log
\* and its request: that window is the only way around the gap.
GapKept ==
    [][\A p \in Procs \ Forcing :
          (pc[p] = "request" /\ Request(p) /\ ~overtaken[p] /\ asked # Never)
              => now[p] - asked >= MinGap]_vars
=============================================================================
