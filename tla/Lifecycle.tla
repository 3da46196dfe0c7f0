----------------------------- MODULE Lifecycle -----------------------------
(***************************************************************************)
(* How a command starts and ends (cmd/aggregator): the two signals of      *)
(* installSignalHandling, "serve" over the API server, and "run".          *)
(***************************************************************************)
EXTENDS Naturals

CONSTANT Programs \* processes of the command line

Migrations == {"migrate-up", "migrate-down --all", "migrate-down", "migrate-force"}

Commands == {"serve", "run"} \cup Migrations

VARIABLES
    signals, \* signals[p]: SIGINT and SIGTERM p has been sent
    ctx,     \* ctx[p]: the context of p
    prog,    \* prog[p]: what p was started for, where it is, and how it exits
    request  \* request[p]: a request that p is answering from its database

lifecycleVars == <<signals, ctx, prog, request>>

New(c) == [cmd |-> c, at |-> "new", exit |-> "-"]
NotStarted == [cmd |-> "run", at |-> "ended", exit |-> "-"]
Command(p) == prog[p].cmd

LifecycleInit ==
    /\ signals = [p \in Programs |-> 0]
    /\ ctx = [p \in Programs |-> "live"]
    /\ prog \in [Programs -> {New(c) : c \in Commands} \cup {NotStarted}]
    /\ request = [p \in Programs |-> FALSE]

Move(p, from, to) == prog[p].at = from /\ prog' = [prog EXCEPT ![p].at = to]
Exits(p, from, how) == prog[p].at = from /\ prog' = [prog EXCEPT ![p].at = "ended", ![p].exit = how]
Ended(p) == prog[p].at = "ended"

Signal(p) ==
    /\ ~Ended(p) /\ signals[p] < 2
    /\ signals' = [signals EXCEPT ![p] = @ + 1]
    /\ UNCHANGED <<ctx, prog, request>>

\* The first ends the context.
Hear(p) ==
    /\ ~Ended(p) /\ signals[p] > 0 /\ ctx[p] = "live"
    /\ ctx' = [ctx EXCEPT ![p] = "canceled"]
    /\ UNCHANGED <<signals, prog, request>>

\* signal.NotifyContext: later signals are taken and nothing comes of them.
InsistInVain(p) ==
    /\ ~Ended(p) /\ signals[p] > 1 /\ ctx[p] = "canceled"
    /\ UNCHANGED lifecycleVars

\* The second ends the process, whatever it is doing.
Insist(p) ==
    /\ ~Ended(p) /\ signals[p] > 1 /\ ctx[p] = "canceled"
    /\ prog' = [prog EXCEPT ![p].at = "ended", ![p].exit = "killed"]
    /\ request' = [request EXCEPT ![p] = FALSE]
    /\ UNCHANGED <<signals, ctx>>

-----------------------------------------------------------------------------
(* serve and run.                                                          *)

Connect(p) ==
    /\ Command(p) \in {"serve", "run"}
    /\ \/ ctx[p] = "live" /\ Move(p, "new", "up")
       \/ Exits(p, "new", "error")
    /\ UNCHANGED <<signals, ctx, request>>

Asked(p) ==
    /\ Command(p) = "serve" /\ prog[p].at = "up" /\ ~request[p]
    /\ request' = [request EXCEPT ![p] = TRUE]
    /\ UNCHANGED <<signals, ctx, prog>>

\* Nothing bounds how long a handler, or its query, may take.
Answered(p) ==
    /\ request[p] /\ request' = [request EXCEPT ![p] = FALSE]
    /\ UNCHANGED <<signals, ctx, prog>>

\* runServe returns what its exit will be, and then closes the pool.
Returns(p, from, how) == prog[p].at = from /\ prog' = [prog EXCEPT ![p].at = "release", ![p].exit = how]

ListenFails(p) ==
    /\ Command(p) = "serve" /\ Returns(p, "up", "error")
    /\ UNCHANGED <<signals, ctx, request>>

SeeTheEnd(p) ==
    /\ ctx[p] = "canceled" /\ Move(p, "up", IF Command(p) = "serve" THEN "drain" ELSE "close")
    /\ UNCHANGED <<signals, ctx, request>>

\* Shutdown waits for requests, for as long as Shutdown.Timeout.
Drain(p) ==
    /\ \/ ~request[p] /\ Returns(p, "drain", "ok")
       \/ Returns(p, "drain", "error")
    /\ UNCHANGED <<signals, ctx, request>>

\* pgxpool waits for its connections, as long as it takes, and a handler outlives Shutdown.
Release(p) ==
    /\ ~request[p] /\ Exits(p, "release", prog[p].exit)
    /\ UNCHANGED <<signals, ctx, request>>

\* closeWithTimeout: the pool is closed, or time is up.
CloseInTime(p) ==
    /\ Exits(p, "close", "ok") \/ Exits(p, "close", "error")
    /\ UNCHANGED <<signals, ctx, request>>

ServeStep(p) == Connect(p) \/ ListenFails(p) \/ SeeTheEnd(p) \/ Drain(p) \/ Release(p) \/ CloseInTime(p)

LifecycleStep(p) == Signal(p) \/ Hear(p) \/ Insist(p) \/ Asked(p) \/ Answered(p) \/ ServeStep(p)
=============================================================================
