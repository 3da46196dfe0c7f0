----------------------------- MODULE HttpClient -----------------------------
(***************************************************************************)
(* The shared HTTP client (internal/httpclient): calls of Client.Do, each  *)
(* with its own attempts, and the context of the process that ends them.   *)
(***************************************************************************)
EXTENDS Naturals

CONSTANTS Callers,   \* goroutines, each with at most one call under way
          MaxRetries \* Config.MaxRetries: attempts after the first one

ASSUME HttpAssumption == MaxRetries \in Nat

VARIABLES
    http, \* http[c]: the call of c
    ended \* the context is cancelled or its deadline has passed

httpVars == <<http, ended>>

\* at: where Do is.  attempt: its loop variable.  retries: what the call is
\* allowed.  sent: the requests that have left (a history variable).
Done == {"good", "unauthorized", "bad", "busy", "error"}
Call == [at : {"none", "check", "flight", "wait"} \cup Done, attempt : Nat, retries : Nat,
         sent : Nat]

NoCall == [at |-> "none", attempt |-> 0, retries |-> 0, sent |-> 0]

HttpInit ==
    /\ http = [c \in Callers |-> NoCall]
    /\ ended = FALSE

Goto(c, at) == http' = [http EXCEPT ![c].at = at]

\* A client that retries whatever it is told.
AllowedAlways(noRetry) == MaxRetries

\* Do is called; WithoutRetries leaves it one attempt.
Allowed(noRetry) == IF noRetry THEN 0 ELSE MaxRetries
Started(noRetry) == [NoCall EXCEPT !.at = "check", !.retries = Allowed(noRetry)]

\* A loop that looks at the context only once, before its first attempt.
AttemptAnyway(c) ==
    /\ http[c].at = "check"
    /\ IF ended /\ http[c].attempt = 0 THEN Goto(c, "error")
       ELSE http' = [http EXCEPT ![c].at = "flight", ![c].sent = @ + 1]
    /\ UNCHANGED ended

\* The context is looked at before every attempt.
Attempt(c) ==
    /\ http[c].at = "check"
    /\ IF ended THEN Goto(c, "error")
       ELSE http' = [http EXCEPT ![c].at = "flight", ![c].sent = @ + 1]
    /\ UNCHANGED ended

\* One attempt too many.
AgainOnceMore(c, last) == Goto(c, IF http[c].attempt > http[c].retries THEN last ELSE "wait")

\* The last attempt's retryable status is the answer, its network error the error.
Again(c, last) == Goto(c, IF http[c].attempt >= http[c].retries THEN last ELSE "wait")

\* A status that is not retried, a 429 or 5xx, a network error, and what is settled:
\* a cancelled context, a timeout, too many redirects.
Answer(c) ==
    /\ http[c].at = "flight"
    /\ \/ \E at \in {"good", "unauthorized", "bad"} : Goto(c, at)
       \/ Again(c, "busy")
       \/ Again(c, "error")
       \/ Goto(c, "error")
    /\ UNCHANGED ended

\* Backoff or Retry-After has passed; select may notice that even when the context
\* has ended as well.
Retry(c) ==
    /\ http[c].at = "wait"
    /\ http' = [http EXCEPT ![c].at = "check", ![c].attempt = @ + 1]
    /\ UNCHANGED ended

Interrupted(c) ==
    /\ http[c].at = "wait" /\ ended
    /\ Goto(c, "error")
    /\ UNCHANGED ended

Step(c) == Attempt(c) \/ Answer(c) \/ Retry(c) \/ Interrupted(c)

\* A caller that uses the client for itself calls, and returns with the answer.
Ask(c) ==
    /\ http[c].at = "none"
    /\ http' = [http EXCEPT ![c] = Started(FALSE)]
    /\ UNCHANGED ended

Returned(c) ==
    /\ http[c].at \in Done
    /\ http' = [http EXCEPT ![c] = NoCall]
    /\ UNCHANGED ended

End == ~ended /\ ended' = TRUE /\ UNCHANGED http

-----------------------------------------------------------------------------
(* Properties.                                                             *)

HttpTypeOK == http \in [Callers -> Call] /\ ended \in BOOLEAN

\* "MaxRetries additional attempts", or one attempt in all WithoutRetries: no call
\* sends more, and it passes a retryable status on only when it has sent as many.
AttemptsCounted ==
    \A c \in Callers : /\ http[c].sent <= http[c].retries + 1
                       /\ http[c].at = "busy" => http[c].sent = http[c].retries + 1

\* A context that has ended, during a wait in particular, "must not produce one
\* more round trip".
NothingSentAfterEnd ==
    [][\A c \in Callers : ended => http'[c].sent <= http[c].sent]_httpVars
=============================================================================
