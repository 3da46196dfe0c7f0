---------------------------- MODULE IngestProofs ----------------------------
(***************************************************************************)
(* Proofs about Ingest, for any number of processes, targets, identities   *)
(* and contents.                                                           *)
(***************************************************************************)
EXTENDS Ingest, TLAPS

-----------------------------------------------------------------------------
(* The table's operators.                                                  *)

\* A row is told from the absence of one by its status.
LEMMA RowStatus ==
    /\ NoRow \notin Row
    /\ NoRow.status = "none"
    /\ \A r \in Row : r # NoRow /\ r.status \in {"open", "removed"}
BY DEF NoRow, Row

\* Closing open rows changes nothing but their status.
LEMMA ClosedFacts ==
    ASSUME NEW tab \in Table, NEW S \in SUBSET Ids,
           \A id \in S : tab[id].status = "open"
    PROVE  /\ Closed(tab, S) \in Table
           /\ \A id \in Ids :
                 /\ id \notin S => Closed(tab, S)[id] = tab[id]
                 /\ id \in S => /\ tab[id] \in Row
                                /\ Closed(tab, S)[id] \in Row
                                /\ Closed(tab, S)[id].status = "removed"
                                /\ Closed(tab, S)[id].target = tab[id].target
                                /\ Closed(tab, S)[id].content = tab[id].content
                                /\ Closed(tab, S)[id].age = tab[id].age
<1>1. \A id \in S : tab[id] \in Row
  BY RowStatus DEF Table
<1>2. ASSUME NEW r \in Row
      PROVE  LET c == [r EXCEPT !.status = "removed"]
             IN  /\ c \in Row /\ c.status = "removed" /\ c.target = r.target
                 /\ c.content = r.content /\ c.age = r.age
  BY DEF Row
<1>3. QED BY <1>1, <1>2 DEF Closed, Table

\* An upsert writes one row and leaves a table.
LEMMA UpsertedFacts ==
    ASSUME NEW tab \in Table, NEW t \in Targets, NEW id \in Ids, NEW c \in Contents
    PROVE  /\ Upserted(tab, t, id, c) \in Table
           /\ Upserted(tab, t, id, c)[id] \in Row
           /\ Upserted(tab, t, id, c)[id].status = "open"
           /\ Upserted(tab, t, id, c)[id].target = t
           /\ Upserted(tab, t, id, c)[id].content = c
           /\ Upserted(tab, t, id, c)[id].age = 0
           /\ \A j \in Ids \ {id} : Upserted(tab, t, id, c)[j] = tab[j]
BY StaleAfterAssumption DEF Upserted, Table, Row

\* Ageing touches nothing but the age.
LEMMA AgedFacts ==
    ASSUME NEW tab \in Table
    PROVE  /\ Aged(tab) \in Table
           /\ \A id \in Ids :
                 /\ tab[id] = NoRow <=> Aged(tab)[id] = NoRow
                 /\ tab[id] # NoRow =>
                       /\ Aged(tab)[id] \in Row
                       /\ Aged(tab)[id].status = tab[id].status
                       /\ Aged(tab)[id].target = tab[id].target
                       /\ Aged(tab)[id].content = tab[id].content
                 /\ tab[id].status = "none" <=> Aged(tab)[id].status = "none"
<1>1. ASSUME NEW r \in Row, r.age <= StaleAfter
      PROVE  LET c == [r EXCEPT !.age = @ + 1]
             IN  /\ c \in Row /\ c.status = r.status /\ c.target = r.target
                 /\ c.content = r.content
  BY <1>1, StaleAfterAssumption DEF Row
<1>2. \A id \in Ids : tab[id].status = "open" => tab[id] \in Row
  BY RowStatus DEF Table
<1>3. QED BY <1>1, <1>2, RowStatus DEF Aged, Table

\* What one row can go through when the rows of S are closed.
ClosedRow(old, new) ==
    /\ old \in Row /\ new \in Row /\ old.status = "open" /\ new.status = "removed"
    /\ new.target = old.target /\ new.content = old.content /\ new.age = old.age

\* The closing statements close exactly the open rows of their target that they
\* select, and touch no other row.
LEMMA ClosingFacts ==
    ASSUME NEW tab \in Table, NEW t \in Targets, NEW S
    PROVE  /\ MarkMissingAsRemoved(tab, t, S) \in Table
           /\ CloseBySourceID(tab, t, S) \in Table
           /\ CloseStale(tab, t) \in Table
           /\ \A id \in Ids :
                 /\ IF id \in OpenAt(tab, t) /\ id \notin S
                    THEN ClosedRow(tab[id], MarkMissingAsRemoved(tab, t, S)[id])
                    ELSE MarkMissingAsRemoved(tab, t, S)[id] = tab[id]
                 /\ IF id \in OpenAt(tab, t) /\ id \in S
                    THEN ClosedRow(tab[id], CloseBySourceID(tab, t, S)[id])
                    ELSE CloseBySourceID(tab, t, S)[id] = tab[id]
                 /\ IF id \in OpenAt(tab, t) /\ tab[id].age > StaleAfter
                    THEN ClosedRow(tab[id], CloseStale(tab, t)[id])
                    ELSE CloseStale(tab, t)[id] = tab[id]
<1>1. ASSUME NEW C \in SUBSET OpenAt(tab, t)
      PROVE  /\ Closed(tab, C) \in Table
             /\ \A id \in Ids : IF id \in C THEN ClosedRow(tab[id], Closed(tab, C)[id])
                                           ELSE Closed(tab, C)[id] = tab[id]
  BY <1>1, ClosedFacts DEF OpenAt, ClosedRow
<1>2. /\ OpenAt(tab, t) \ S \in SUBSET OpenAt(tab, t)
      /\ OpenAt(tab, t) \cap S \in SUBSET OpenAt(tab, t)
      /\ {id \in OpenAt(tab, t) : tab[id].age > StaleAfter} \in SUBSET OpenAt(tab, t)
  OBVIOUS
<1>4. /\ MarkMissingAsRemoved(tab, t, S) \in Table
      /\ \A id \in Ids :
            IF id \in OpenAt(tab, t) /\ id \notin S
            THEN ClosedRow(tab[id], MarkMissingAsRemoved(tab, t, S)[id])
            ELSE MarkMissingAsRemoved(tab, t, S)[id] = tab[id]
  BY <1>1, <1>2 DEF MarkMissingAsRemoved
<1>5. /\ CloseBySourceID(tab, t, S) \in Table
      /\ \A id \in Ids :
            IF id \in OpenAt(tab, t) /\ id \in S
            THEN ClosedRow(tab[id], CloseBySourceID(tab, t, S)[id])
            ELSE CloseBySourceID(tab, t, S)[id] = tab[id]
  BY <1>1, <1>2 DEF CloseBySourceID
<1>6. /\ CloseStale(tab, t) \in Table
      /\ \A id \in Ids :
            IF id \in OpenAt(tab, t) /\ tab[id].age > StaleAfter
            THEN ClosedRow(tab[id], CloseStale(tab, t)[id])
            ELSE CloseStale(tab, t)[id] = tab[id]
  BY <1>1, <1>2 DEF CloseStale
<1>7. QED BY <1>4, <1>5, <1>6

-----------------------------------------------------------------------------
(* Type correctness.                                                       *)

LEMMA InitTyped == Init => TypeOK
<1> SUFFICES ASSUME Init PROVE TypeOK OBVIOUS
<1>1. NotFetched \in Listing
  BY DEF NotFetched, Listing, Entries
<1>2. [id \in Ids |-> NoRow] \in Table
  BY DEF Table
<1>3. QED BY <1>1, <1>2 DEF Init, TypeOK, PCs

\* What every move of the program counter and every note of disturbance keeps.
LEMMA GotoTyped ==
    ASSUME TypeOK, NEW p \in Procs, NEW t \in Targets, NEW there \in PCs,
           Goto(p, t, there)
    PROVE  pc' \in [Procs -> [Targets -> PCs]]
BY DEF TypeOK, Goto

LEMMA DisturbTyped ==
    ASSUME TypeOK, NEW p \in Procs, NEW t \in Targets, Disturb(p, t)
    PROVE  alone' \in [Procs -> [Targets -> BOOLEAN]]
BY DEF TypeOK, Disturb

LEMMA ExitTyped ==
    ASSUME TypeOK, NEW p \in Procs, Exit(p)
    PROVE  /\ running' \in [Procs -> BOOLEAN]
           /\ pc' \in [Procs -> [Targets -> PCs]]
           /\ fetched' \in [Procs -> [Targets -> Listing]]
           /\ seen' \in [Procs -> [Targets -> SUBSET Ids]]
           /\ alone' \in [Procs -> [Targets -> BOOLEAN]]
<1>1. NotFetched \in Listing
  BY DEF NotFetched, Listing, Entries
<1>2. QED BY <1>1 DEF Exit, TypeOK, PCs

LEMMA WorkTyped ==
    ASSUME TypeOK, NEW p \in Procs, NEW t \in Targets, Work(p, t)
    PROVE  TypeOK'
<1> USE DEF PCs, InFlight
<1>1. CASE FetchBoard(p, t)
  <2>1. PICK f \in Answers(t) : fetched' = [fetched EXCEPT ![p][t] = f]
    BY <1>1 DEF FetchBoard
  <2>2. f \in Listing BY DEF Answers
  <2>3. QED BY <1>1, <2>1, <2>2, GotoTyped DEF FetchBoard, TypeOK
<1>2. CASE FetchGone(p, t)
  BY <1>2, GotoTyped DEF FetchGone, TypeOK
<1>3. ASSUME NEW id \in Ids, StoreJob(p, t, id)
      PROVE  TypeOK'
  <2>1. seen' \in [Procs -> [Targets -> SUBSET Ids]]
    BY <1>3 DEF StoreJob, TypeOK
  <2>2. jobs' \in Table /\ alone' \in [Procs -> [Targets -> BOOLEAN]]
    <3>1. CASE UNCHANGED <<jobs, alone>>
      BY <3>1 DEF TypeOK
    <3>2. CASE /\ fetched[p][t][id] # Bad
               /\ jobs' = Upserted(jobs, t, id, fetched[p][t][id])
               /\ Disturb(p, t)
      <4>1. fetched[p][t][id] \in Contents
        BY <1>3, <3>2 DEF StoreJob, TypeOK, Listing, Listed, Entries
      <4>2. QED BY <3>2, <4>1, UpsertedFacts, DisturbTyped DEF TypeOK
    <3>3. QED BY <1>3, <3>1, <3>2 DEF StoreJob
  <2>3. QED BY <1>3, <2>1, <2>2 DEF StoreJob, TypeOK
<1>4. CASE CloseEnded(p, t)
  BY <1>4, GotoTyped, DisturbTyped, ClosingFacts DEF CloseEnded, TypeOK
<1>5. CASE Sweep(p, t)
  <2>1. jobs' \in Table
    BY <1>5, ClosingFacts DEF Sweep, TypeOK
  <2>2. QED BY <1>5, <2>1, GotoTyped, DisturbTyped DEF Sweep, TypeOK
<1>6. CASE Record(p, t)
  BY <1>6, GotoTyped DEF Record, TypeOK
<1>7. CASE Deactivate(p, t)
  BY <1>7, GotoTyped DEF Deactivate, TypeOK
<1>8. CASE CloseGone(p, t)
  BY <1>8, GotoTyped, DisturbTyped, ClosingFacts DEF CloseGone, TypeOK
<1>9. QED BY <1>1, <1>2, <1>3, <1>4, <1>5, <1>6, <1>7, <1>8 DEF Work

LEMMA NextTyped == TypeOK /\ [Next]_vars => TypeOK'
<1> SUFFICES ASSUME TypeOK, [Next]_vars PROVE TypeOK' OBVIOUS
<1> USE DEF PCs, InFlight
<1>1. ASSUME NEW p \in Procs, StartRun(p) PROVE TypeOK'
  BY <1>1 DEF StartRun, TypeOK
<1>2. ASSUME NEW p \in Procs, FinishRun(p) \/ Crash(p) PROVE TypeOK'
  BY <1>2, ExitTyped DEF FinishRun, Crash, TypeOK
<1>3. ASSUME NEW p \in Procs, Interrupt(p) PROVE TypeOK'
  BY <1>3 DEF Interrupt, TypeOK
<1>4. ASSUME NEW p \in Procs, NEW t \in Targets, Dispatch(p, t) PROVE TypeOK'
  BY <1>4, GotoTyped DEF Dispatch, TypeOK
<1>5. ASSUME NEW p \in Procs, NEW t \in Targets, Work(p, t) PROVE TypeOK'
  BY <1>5, WorkTyped
<1>6. ASSUME NEW p \in Procs, NEW t \in Targets,
             FetchFails(p, t) \/ StatementFails(p, t) \/ RecordFails(p, t)
      PROVE  TypeOK'
  BY <1>6, GotoTyped DEF FetchFails, StatementFails, RecordFails, TypeOK
<1>7. ASSUME NEW t \in Targets, Rediscover(t) \/ RecheckDeactivate(t)
      PROVE  TypeOK'
  BY <1>7 DEF Rediscover, RecheckDeactivate, TypeOK, local
<1>8. ASSUME NEW t \in Targets, RecheckClose(t) PROVE TypeOK'
  BY <1>8, ClosingFacts DEF RecheckClose, TypeOK, local
<1>9. CASE RecheckFails
  BY <1>9 DEF RecheckFails, TypeOK, local
<1>10. CASE Tick
  BY <1>10, AgedFacts DEF Tick, TypeOK, local
<1>11. CASE UNCHANGED vars
  BY <1>11 DEF vars, TypeOK
<1>12. QED
  BY <1>1, <1>2, <1>3, <1>4, <1>5, <1>6, <1>7, <1>8, <1>9, <1>10, <1>11
     DEF Next, Progress, Disturbance

\* Every variable keeps its type: in particular the jobs table holds at most one
\* row per identity, owned by a registered target, and a closed row keeps what
\* it said.
THEOREM TypeCorrect == Spec => []TypeOK
BY InitTyped, NextTyped, PTL DEF Spec

-----------------------------------------------------------------------------
(* Closing needs evidence.  The guard of Sweep only speaks of seenIDs, so   *)
(* what a worker has seen must be tied to what it fetched.                  *)

RunInv ==
    \A p \in Procs, t \in Targets :
        /\ t \in todo[p] => running[p] /\ pc[p][t] = "idle"
        /\ ~running[p] => pc[p][t] = "idle"
        /\ pc[p][t] \in {"idle", "fetch"} => seen[p][t] = {}
        /\ pc[p][t] \in Persisting => /\ seen[p][t] \subseteq Listed(fetched[p][t])
                                      /\ \A id \in Ids : fetched[p][t][id] # Unknown
        /\ pc[p][t] \in {"sweep", "record"} => Listed(fetched[p][t]) \subseteq seen[p][t]

LEMMA InitRunInv == Init => RunInv
BY DEF Init, RunInv, Persisting

LEMMA NextRunInv == TypeOK /\ RunInv /\ [Next]_vars => RunInv'
<1> SUFFICES ASSUME TypeOK, RunInv, [Next]_vars PROVE RunInv' OBVIOUS
<1> USE DEF PCs, InFlight, Persisting
<1>1. ASSUME NEW p \in Procs, StartRun(p) \/ Interrupt(p) PROVE RunInv'
  <2>1. \A q \in Procs, t \in Targets : t \in todo'[q] =>
            t \in todo[q] \/ (q = p /\ ~running[p] /\ running'[p])
    BY <1>1 DEF StartRun, Interrupt, TypeOK
  <2>2. \A q \in Procs : running[q] => running'[q]
    BY <1>1 DEF StartRun, Interrupt, TypeOK
  <2>3. UNCHANGED <<pc, fetched, seen>>
    BY <1>1 DEF StartRun, Interrupt
  <2>4. QED BY <2>1, <2>2, <2>3 DEF RunInv, TypeOK
<1>2. ASSUME NEW p \in Procs, FinishRun(p) \/ Crash(p) PROVE RunInv'
  <2>1. Exit(p) /\ (todo'[p] = {}) /\ \A q \in Procs \ {p} : todo'[q] = todo[q]
    BY <1>2 DEF FinishRun, Crash, TypeOK
  <2>2. ASSUME NEW q \in Procs, NEW t \in Targets
        PROVE  RunInv!(q, t)'
    <3>1. CASE q = p
      BY <2>1, <3>1 DEF Exit, TypeOK
    <3>2. CASE q # p
      BY <2>1, <3>2 DEF Exit, TypeOK, RunInv
    <3>3. QED BY <3>1, <3>2
  <2>3. QED BY <2>2 DEF RunInv
<1>3. ASSUME NEW p \in Procs, NEW t \in Targets, Dispatch(p, t) PROVE RunInv'
  <2>1. /\ pc'[p][t] = "fetch"
        /\ \A q \in Procs, u \in Targets : <<q, u>> # <<p, t>> => pc'[q][u] = pc[q][u]
    BY <1>3 DEF Dispatch, Goto, TypeOK
  <2>2. /\ t \notin todo'[p]
        /\ \A q \in Procs : todo'[q] \subseteq todo[q]
    BY <1>3 DEF Dispatch, TypeOK
  <2>3. running[p] /\ seen[p][t] = {}
    BY <1>3 DEF Dispatch, RunInv, TypeOK
  <2>4. ASSUME NEW q \in Procs, NEW u \in Targets
        PROVE  RunInv!(q, u)'
    <3>1. CASE q = p /\ u = t
      BY <1>3, <2>1, <2>2, <2>3, <3>1 DEF Dispatch
    <3>2. CASE ~(q = p /\ u = t)
      BY <1>3, <2>1, <2>2, <3>2 DEF Dispatch, RunInv
    <3>3. QED BY <3>1, <3>2
  <2>5. QED BY <2>4 DEF RunInv
<1>4. ASSUME NEW p \in Procs, NEW t \in Targets, FetchBoard(p, t) PROVE RunInv'
  <2>1. PICK f \in Answers(t) : fetched' = [fetched EXCEPT ![p][t] = f]
    BY <1>4 DEF FetchBoard
  <2>2. \A id \in Ids : f[id] # Unknown
    BY DEF Answers
  <2>3. QED BY <1>4, <2>1, <2>2 DEF FetchBoard, Goto, RunInv, TypeOK
<1>5. ASSUME NEW p \in Procs, NEW t \in Targets, NEW id \in Ids, StoreJob(p, t, id)
      PROVE  RunInv'
  BY <1>5 DEF StoreJob, RunInv, TypeOK
<1>6. ASSUME NEW p \in Procs, NEW t \in Targets, CloseEnded(p, t) PROVE RunInv'
  BY <1>6 DEF CloseEnded, Goto, RunInv, TypeOK
<1>7. ASSUME NEW p \in Procs, NEW t \in Targets,
             NEW there \in {"record", "done", "retire", "empty", "failed"},
             Goto(p, t, there), there = "record" => pc[p][t] = "sweep",
             pc[p][t] # "idle", UNCHANGED <<todo, fetched, seen, running>>
      PROVE  RunInv'
  <2>1. /\ pc'[p][t] = there
        /\ \A q \in Procs, u \in Targets : <<q, u>> # <<p, t>> => pc'[q][u] = pc[q][u]
    BY <1>7 DEF Goto, TypeOK
  <2>2. t \notin todo[p] /\ running[p]
    BY <1>7 DEF RunInv, TypeOK
  <2>3. QED BY <1>7, <2>1, <2>2 DEF RunInv
<1>8. ASSUME NEW p \in Procs, NEW t \in Targets,
             \/ Sweep(p, t) \/ Record(p, t) \/ RecordFails(p, t) \/ Deactivate(p, t)
             \/ CloseGone(p, t) \/ FetchGone(p, t) \/ FetchFails(p, t)
             \/ StatementFails(p, t)
      PROVE  RunInv'
  BY <1>7, <1>8 DEF Sweep, Record, RecordFails, Deactivate, CloseGone, FetchGone,
                    FetchFails, StatementFails
<1>9. ASSUME NEW t \in Targets, Rediscover(t) \/ RecheckDeactivate(t) \/ RecheckClose(t)
      PROVE  RunInv'
  BY <1>9 DEF Rediscover, RecheckDeactivate, RecheckClose, RunInv, local
<1>10. CASE RecheckFails \/ Tick \/ UNCHANGED vars
  BY <1>10 DEF RecheckFails, Tick, RunInv, local, vars
<1>11. QED
  BY <1>1, <1>2, <1>3, <1>4, <1>5, <1>6, <1>8, <1>9, <1>10
     DEF Next, Progress, Disturbance, Work

\* Whoever closes an open job has evidence for it.
LEMMA ClosingNeedsEvidence ==
    ASSUME TypeOK, RunInv, [Next]_vars, NEW id \in Ids,
           jobs[id].status = "open", jobs'[id].status # "open"
    PROVE  Evidence(id)
<1> USE DEF Persisting
<1>1. jobs[id] \in Row /\ jobs[id].target \in Targets
  BY RowStatus DEF TypeOK, Table, Row
<1>2. ASSUME NEW p \in Procs, NEW t \in Targets, NEW j \in Ids, StoreJob(p, t, j)
      PROVE  FALSE
  <2>1. PICK c \in Contents : jobs' = Upserted(jobs, t, j, c)
    <3>1. jobs' # jobs OBVIOUS
    <3>2. fetched[p][t][j] # Bad => fetched[p][t][j] \in Contents
      BY <1>2 DEF StoreJob, TypeOK, Listing, Listed, Entries
    <3>3. QED BY <1>2, <3>1, <3>2 DEF StoreJob
  <2>2. IF id = j THEN jobs'[id].status = "open" ELSE jobs'[id] = jobs[id]
    BY <2>1, UpsertedFacts DEF TypeOK
  <2>3. QED BY <2>2
<1>3. ASSUME NEW p \in Procs, NEW t \in Targets, CloseEnded(p, t)
      PROVE  Evidence(id)
  <2>1. id \in OpenAt(jobs, t) \cap EndedIds(fetched[p][t])
    BY <1>3, ClosingFacts DEF CloseEnded, TypeOK
  <2>2. QED BY <1>3, <2>1 DEF CloseEnded, Evidence, OpenAt, EndedIds
<1>4. ASSUME NEW p \in Procs, NEW t \in Targets, Sweep(p, t)
      PROVE  Evidence(id)
  <2>1. CASE t \in Partial
    <3>1. id \in OpenAt(jobs, t) /\ jobs[id].age > StaleAfter
      BY <1>4, <2>1, ClosingFacts DEF Sweep, TypeOK
    <3>2. QED BY <2>1, <3>1 DEF Evidence, OpenAt
  <2>2. CASE t \notin Partial
    <3>1. id \in OpenAt(jobs, t) \ seen[p][t]
      BY <1>4, <2>2, ClosingFacts DEF Sweep, TypeOK
    <3>2. id \notin Listed(fetched[p][t])
      BY <1>4, <3>1 DEF Sweep, RunInv
    <3>3. fetched[p][t][id] # Unknown /\ pc[p][t] = "sweep"
      BY <1>4 DEF Sweep, RunInv
    <3>4. jobs[id].target = t /\ fetched[p][t][id] \in {Ended, Absent}
      BY <3>1, <3>2, <3>3 DEF Listed, OpenAt
    <3>5. QED BY <2>2, <3>3, <3>4 DEF Evidence
  <2>3. QED BY <2>1, <2>2
<1>5. ASSUME NEW p \in Procs, NEW t \in Targets, CloseGone(p, t)
      PROVE  Evidence(id)
  <2>1. id \in OpenAt(jobs, t)
    BY <1>5, ClosingFacts DEF CloseGone, TypeOK
  <2>2. QED BY <1>5, <2>1 DEF CloseGone, Evidence, OpenAt
<1>6. ASSUME NEW t \in Targets, RecheckClose(t)
      PROVE  Evidence(id)
  <2>1. id \in OpenAt(jobs, t)
    BY <1>6, ClosingFacts DEF RecheckClose, TypeOK
  <2>2. QED BY <1>6, <2>1 DEF RecheckClose, Evidence, OpenAt
<1>7. CASE Tick
  BY <1>1, <1>7, AgedFacts, RowStatus DEF Tick, TypeOK
<1>8. jobs' # jobs
  OBVIOUS
<1>9. QED
  BY <1>2, <1>3, <1>4, <1>5, <1>6, <1>7, <1>8
     DEF Next, Progress, Disturbance, Work, vars, StartRun, FinishRun, Interrupt, Crash,
         Dispatch, FetchBoard, FetchGone, FetchFails, Record, RecordFails, Deactivate,
         StatementFails, Rediscover, RecheckDeactivate, RecheckFails

\* No run, however it overlaps with others, fails or is cut short, closes a job
\* that the listing it works from still shows, or a sampled job that was seen
\* recently.
THEOREM ClosingIsJustified == Spec => ClosedOnEvidence
<1>1. Spec => [](TypeOK /\ RunInv)
  BY InitTyped, NextTyped, InitRunInv, NextRunInv, PTL DEF Spec
<1>2. TypeOK /\ RunInv /\ [Next]_vars =>
        [\A id \in Ids : (jobs[id].status = "open" /\ jobs'[id].status # "open")
                            => Evidence(id)]_vars
  BY ClosingNeedsEvidence
<1>3. QED BY <1>1, <1>2, PTL DEF Spec, ClosedOnEvidence

-----------------------------------------------------------------------------
(* Who writes what.                                                        *)

\* A step touches the rows of target u only, and rows it creates are u's.
WritesOnly(u) ==
    \A id \in Ids :
        IF jobs[id] = NoRow
        THEN jobs'[id] = NoRow \/ (jobs'[id] \in Row /\ jobs'[id].target = u)
        ELSE /\ jobs'[id] \in Row /\ jobs'[id].target = jobs[id].target
             /\ jobs[id].target # u => jobs'[id] = jobs[id]

\* Neither a foreign identity nor any other row of the table is touched when a
\* job is stored.
LEMMA StoreJobWrites ==
    ASSUME TypeOK, NEW p \in Procs, NEW t \in Targets, NEW id \in Ids, StoreJob(p, t, id)
    PROVE  \/ /\ fetched[p][t][id] = Bad \/ Mismatch(jobs, t, id)
              /\ UNCHANGED <<jobs, alone>>
           \/ /\ fetched[p][t][id] \in Contents /\ ~Mismatch(jobs, t, id)
              /\ Disturb(p, t)
              /\ jobs'[id] \in Row /\ jobs'[id].status = "open" /\ jobs'[id].target = t
              /\ jobs'[id].content = fetched[p][t][id] /\ jobs'[id].age = 0
              /\ \A j \in Ids \ {id} : jobs'[j] = jobs[j]
<1>1. CASE /\ fetched[p][t][id] # Bad /\ ~Mismatch(jobs, t, id)
           /\ jobs' = Upserted(jobs, t, id, fetched[p][t][id])
           /\ Disturb(p, t)
  <2>1. fetched[p][t][id] \in Contents
    BY <1>1 DEF StoreJob, TypeOK, Listing, Listed, Entries
  <2>2. QED BY <1>1, <2>1, UpsertedFacts DEF TypeOK
<1>2. QED BY <1>1 DEF StoreJob

\* Each closing action goes through open rows of its own target only.
ClosesAt(t) ==
    \A id \in Ids : \/ jobs'[id] = jobs[id]
                    \/ jobs[id].target = t /\ ClosedRow(jobs[id], jobs'[id])

LEMMA WorkCloses ==
    ASSUME TypeOK, NEW p \in Procs, NEW t \in Targets,
           CloseEnded(p, t) \/ Sweep(p, t) \/ CloseGone(p, t)
    PROVE  ClosesAt(t)
<1>1. jobs \in Table
  BY DEF TypeOK
<1>2. \A id \in OpenAt(jobs, t) : jobs[id].target = t
  BY DEF OpenAt
<1>3. CASE jobs' = CloseBySourceID(jobs, t, EndedIds(fetched[p][t]))
  BY <1>1, <1>2, <1>3, ClosingFacts DEF ClosesAt
<1>4. CASE jobs' = CloseStale(jobs, t)
  BY <1>1, <1>2, <1>4, ClosingFacts DEF ClosesAt
<1>5. ASSUME NEW S, jobs' = MarkMissingAsRemoved(jobs, t, S) PROVE ClosesAt(t)
  BY <1>1, <1>2, <1>5, ClosingFacts DEF ClosesAt
<1>6. QED BY <1>3, <1>4, <1>5 DEF CloseEnded, Sweep, CloseGone

LEMMA RecheckCloses ==
    ASSUME TypeOK, NEW t \in Targets, RecheckClose(t)
    PROVE  ClosesAt(t)
<1>1. \A id \in OpenAt(jobs, t) : jobs[id].target = t
  BY DEF OpenAt
<1>2. QED BY <1>1, ClosingFacts DEF RecheckClose, TypeOK, ClosesAt

LEMMA ClosesWritesOnly ==
    ASSUME TypeOK, NEW t \in Targets, ClosesAt(t)
    PROVE  WritesOnly(t)
<1> SUFFICES ASSUME NEW id \in Ids
             PROVE  IF jobs[id] = NoRow
                    THEN jobs'[id] = NoRow \/ (jobs'[id] \in Row /\ jobs'[id].target = t)
                    ELSE /\ jobs'[id] \in Row /\ jobs'[id].target = jobs[id].target
                         /\ jobs[id].target # t => jobs'[id] = jobs[id]
  BY DEF WritesOnly
<1>1. jobs[id] = NoRow \/ jobs[id] \in Row
  BY DEF TypeOK, Table
<1>2. CASE jobs'[id] = jobs[id]
  BY <1>1, <1>2
<1>3. CASE jobs[id].target = t /\ ClosedRow(jobs[id], jobs'[id])
  BY <1>3, RowStatus DEF ClosedRow
<1>4. QED BY <1>2, <1>3 DEF ClosesAt

LEMMA WorkWritesOnly ==
    ASSUME TypeOK, NEW p \in Procs, NEW t \in Targets, Work(p, t)
    PROVE  WritesOnly(t)
<1>1. \A id \in Ids : jobs[id] = NoRow \/ jobs[id] \in Row
  BY DEF TypeOK, Table
<1>2. CASE UNCHANGED jobs
  BY <1>1, <1>2 DEF WritesOnly
<1>3. ASSUME NEW id \in Ids, StoreJob(p, t, id) PROVE WritesOnly(t)
  <2>1. CASE UNCHANGED jobs BY <1>2, <2>1
  <2>2. CASE /\ ~Mismatch(jobs, t, id)
             /\ jobs'[id] \in Row /\ jobs'[id].target = t
             /\ \A j \in Ids \ {id} : jobs'[j] = jobs[j]
    BY <1>1, <2>2 DEF Mismatch, WritesOnly
  <2>3. QED BY <1>3, <2>1, <2>2, StoreJobWrites
<1>4. QED
  BY <1>2, <1>3, WorkCloses, ClosesWritesOnly
     DEF Work, FetchBoard, FetchGone, Record, Deactivate

\* Only storing a job changes what a row says.
RowKept(id) ==
    /\ jobs'[id] # NoRow
    /\ jobs'[id].target = jobs[id].target
    /\ jobs'[id].content # jobs[id].content =>
          \E p \in Procs : /\ pc[p][jobs[id].target] = "store"
                            /\ fetched[p][jobs[id].target][id] = jobs'[id].content

LEMMA StoreJobKeepsRows ==
    ASSUME TypeOK, NEW id \in Ids, jobs[id] # NoRow,
           NEW p \in Procs, NEW t \in Targets, NEW j \in Ids, StoreJob(p, t, j)
    PROVE  RowKept(id)
<1>1. CASE UNCHANGED jobs
  BY <1>1 DEF RowKept
<1>2. CASE j # id /\ \A i \in Ids \ {j} : jobs'[i] = jobs[i]
  BY <1>2 DEF RowKept
<1>3. CASE /\ j = id /\ ~Mismatch(jobs, t, j)
           /\ jobs'[j] \in Row /\ jobs'[j].target = t
           /\ jobs'[j].content = fetched[p][t][j]
  <2>1. jobs[id].target = t
    BY <1>3 DEF Mismatch
  <2>2. pc[p][t] = "store"
    BY DEF StoreJob
  <2>3. QED BY <1>3, <2>1, <2>2, RowStatus DEF RowKept
<1>4. QED BY <1>1, <1>2, <1>3, StoreJobWrites

LEMMA ClosingKeepsRows ==
    ASSUME TypeOK, NEW id \in Ids, jobs[id] # NoRow, NEW t \in Targets, ClosesAt(t)
    PROVE  RowKept(id)
<1>1. CASE jobs'[id] = jobs[id]
  BY <1>1 DEF RowKept
<1>2. CASE ClosedRow(jobs[id], jobs'[id])
  BY <1>2, RowStatus DEF ClosedRow, RowKept
<1>3. QED BY <1>1, <1>2 DEF ClosesAt

LEMMA NextKeepsRows ==
    ASSUME TypeOK, [Next]_vars, NEW id \in Ids, jobs[id] # NoRow
    PROVE  RowKept(id)
<1>1. CASE UNCHANGED jobs
  BY <1>1 DEF RowKept
<1>2. ASSUME NEW p \in Procs, NEW t \in Targets, Work(p, t) PROVE RowKept(id)
  BY <1>1, <1>2, StoreJobKeepsRows, WorkCloses, ClosingKeepsRows
     DEF Work, FetchBoard, FetchGone, Record, Deactivate
<1>3. ASSUME NEW t \in Targets, RecheckClose(t) PROVE RowKept(id)
  BY <1>3, RecheckCloses, ClosingKeepsRows
<1>4. CASE Tick
  BY <1>4, AgedFacts, RowStatus DEF Tick, TypeOK, RowKept
<1>5. QED
  BY <1>1, <1>2, <1>3, <1>4
     DEF Next, Progress, Disturbance, vars, StartRun, FinishRun, Interrupt, Crash,
         Dispatch, FetchFails, RecordFails, StatementFails, Rediscover,
         RecheckDeactivate, RecheckFails

\* Two boards that claim the same identity never take each other's rows, in any
\* interleaving of any number of workers and processes.
THEOREM OwnershipHolds == Spec => RowsKeepTheirOwner
<1>1. TypeOK /\ [Next]_vars =>
        [\A id \in Ids : (jobs[id] # NoRow) =>
          LET t == jobs[id].target IN
          /\ jobs'[id] # NoRow /\ jobs'[id].target = t
          /\ jobs'[id].content # jobs[id].content =>
                \E p \in Procs : /\ pc[p][t] = "store"
                                  /\ fetched[p][t][id] = jobs'[id].content]_vars
  BY NextKeepsRows DEF RowKept
<1>2. Spec => []TypeOK
  BY TypeCorrect
<1>3. QED BY <1>1, <1>2, PTL DEF Spec, RowsKeepTheirOwner

-----------------------------------------------------------------------------
(* A success means the table shows the board.  SuccessMeansStored speaks of *)
(* a worker about to record; the invariant says what it has achieved at     *)
(* each statement before that.                                              *)

\* A good job that was shown is stored and open, unless its row is another
\* target's; on a sampled board it is too young for CloseStale.
Shown(t, id, c) ==
    /\ jobs[id] \in Row
    /\ jobs[id].target = t => /\ jobs[id].status = "open"
                              /\ jobs[id].content = c
                              /\ t \in Partial => jobs[id].age <= StaleAfter

StoredFor(p, t) ==
    (pc[p][t] \in Persisting /\ alone[p][t]) => \A id \in Ids :
        LET e == fetched[p][t][id] IN
        /\ id \in seen[p][t] /\ e \in Contents => Shown(t, id, e)
        /\ pc[p][t] # "store" /\ e = Ended => id \notin OpenAt(jobs, t)
        /\ pc[p][t] = "record" /\ t \notin Partial /\ e = Absent
              => id \notin OpenAt(jobs, t)

StoredInv == \A p \in Procs, t \in Targets : StoredFor(p, t)

LEMMA InitStoredInv == Init => StoredInv
<1> SUFFICES ASSUME Init, NEW p \in Procs, NEW t \in Targets PROVE StoredFor(p, t)
  BY DEF StoredInv
<1>1. pc[p][t] = "idle"
  BY DEF Init
<1>2. QED BY <1>1 DEF StoredFor, Persisting

\* The rows of t are not touched, and no row is created for t.
RowsLeft(t) ==
    \A id \in Ids :
        /\ jobs[id] \in Row => /\ jobs'[id] \in Row
                               /\ jobs'[id].target = jobs[id].target
        /\ jobs[id] \in Row /\ jobs[id].target = t =>
              /\ jobs'[id].status = jobs[id].status
              /\ jobs'[id].content = jobs[id].content
              /\ t \in Partial => jobs'[id].age = jobs[id].age
        /\ jobs[id] = NoRow => jobs'[id] = NoRow \/ jobs'[id].target # t

\* A worker that stands still keeps what it achieved as long as nobody else
\* writes its target's rows, or it knows that somebody did.
LEMMA StandsStill ==
    ASSUME TypeOK, StoredInv, NEW p \in Procs, NEW t \in Targets,
           pc'[p][t] = pc[p][t], fetched'[p][t] = fetched[p][t], seen'[p][t] = seen[p][t],
           (pc[p][t] \in Persisting /\ alone'[p][t]) => alone[p][t] /\ RowsLeft(t)
    PROVE  StoredFor(p, t)'
<1> SUFFICES ASSUME pc[p][t] \in Persisting, alone'[p][t], NEW id \in Ids
             PROVE  LET e == fetched[p][t][id] IN
                    /\ id \in seen[p][t] /\ e \in Contents => Shown(t, id, e)'
                    /\ pc[p][t] # "store" /\ e = Ended => id \notin OpenAt(jobs', t)
                    /\ pc[p][t] = "record" /\ t \notin Partial /\ e = Absent
                          => id \notin OpenAt(jobs', t)
  BY DEF StoredFor, Shown, OpenAt
<1>1. alone[p][t] /\ RowsLeft(t)
  OBVIOUS
<1>2. ASSUME NEW e \in Contents, Shown(t, id, e) PROVE Shown(t, id, e)'
  BY <1>1, <1>2 DEF RowsLeft, Shown
<1>3. ASSUME id \notin OpenAt(jobs, t) PROVE id \notin OpenAt(jobs', t)
  <2>1. CASE jobs[id] = NoRow
    BY <1>1, <2>1, RowStatus DEF RowsLeft, OpenAt
  <2>2. CASE jobs[id] \in Row
    BY <1>1, <1>3, <2>2 DEF RowsLeft, OpenAt
  <2>3. QED BY <2>1, <2>2 DEF TypeOK, Table
<1>4. QED BY <1>1, <1>2, <1>3 DEF StoredInv, StoredFor

LEMMA WritesElsewhere ==
    ASSUME TypeOK, NEW t \in Targets, NEW u \in Targets \ {t}, WritesOnly(u)
    PROVE  RowsLeft(t)
<1> SUFFICES ASSUME NEW id \in Ids
             PROVE  /\ jobs[id] \in Row => /\ jobs'[id] \in Row
                                           /\ jobs'[id].target = jobs[id].target
                    /\ jobs[id] \in Row /\ jobs[id].target = t => jobs'[id] = jobs[id]
                    /\ jobs[id] = NoRow => jobs'[id] = NoRow \/ jobs'[id].target # t
  BY DEF RowsLeft
<1>1. CASE jobs[id] = NoRow
  BY <1>1, RowStatus DEF WritesOnly
<1>2. CASE jobs[id] # NoRow
  BY <1>2 DEF WritesOnly
<1>3. QED BY <1>1, <1>2

LEMMA NothingWritten ==
    ASSUME UNCHANGED jobs, NEW t \in Targets
    PROVE  RowsLeft(t)
<1>1. \A id \in Ids : jobs'[id] = jobs[id]
  OBVIOUS
<1>2. QED BY <1>1 DEF RowsLeft

\* Every other worker keeps its part of the invariant while p works on t.
LEMMA OthersKeep ==
    ASSUME TypeOK, StoredInv, NEW p \in Procs, NEW t \in Targets, Work(p, t),
           NEW q \in Procs, NEW u \in Targets, <<q, u>> # <<p, t>>
    PROVE  StoredFor(q, u)'
<1>1. /\ pc'[q][u] = pc[q][u] /\ fetched'[q][u] = fetched[q][u]
      /\ seen'[q][u] = seen[q][u]
  <2>1. ASSUME NEW id \in Ids, StoreJob(p, t, id)
        PROVE  /\ pc'[q][u] = pc[q][u] /\ fetched'[q][u] = fetched[q][u]
               /\ seen'[q][u] = seen[q][u]
    BY <2>1 DEF StoreJob, TypeOK
  <2>2. CASE FetchBoard(p, t)
    BY <2>2 DEF FetchBoard, Goto, TypeOK
  <2>3. QED
    BY <2>1, <2>2 DEF Work, FetchGone, CloseEnded, Sweep, Record, Deactivate, CloseGone,
                      Goto, TypeOK
<1>2. CASE u # t
  <2>1. RowsLeft(u)
    BY <1>2, WorkWritesOnly, WritesElsewhere
  <2>2. alone'[q][u] => alone[q][u]
    BY <1>2 DEF Work, FetchBoard, FetchGone, StoreJob, CloseEnded, Sweep, Record,
                Deactivate, CloseGone, Disturb, TypeOK
  <2>3. QED BY <1>1, <2>1, <2>2, StandsStill
<1>3. CASE u = t /\ UNCHANGED <<jobs, alone>>
  BY <1>1, <1>3, NothingWritten, StandsStill
<1>4. CASE u = t /\ q # p /\ Disturb(p, t)
  <2>1. pc[q][u] \in Persisting => ~alone'[q][u]
    BY <1>4 DEF Disturb, TypeOK
  <2>2. QED BY <1>1, <2>1, StandsStill
<1>5. QED
  BY <1>2, <1>3, <1>4 DEF Work, FetchBoard, FetchGone, StoreJob, CloseEnded, Sweep,
                          Record, Deactivate, CloseGone

\* What the worker itself achieves with each statement.
LEMMA StoreJobStores ==
    ASSUME TypeOK, RunInv, StoredInv, NEW p \in Procs, NEW t \in Targets,
           NEW id \in Ids, StoreJob(p, t, id)
    PROVE  StoredFor(p, t)'
<1>1. /\ pc'[p][t] = "store" /\ pc[p][t] = "store"
      /\ fetched'[p][t] = fetched[p][t]
      /\ seen'[p][t] = seen[p][t] \cup {id}
      /\ alone'[p][t] => alone[p][t]
  BY DEF StoreJob, TypeOK, Disturb
<1> SUFFICES ASSUME alone'[p][t], NEW j \in seen[p][t] \cup {id}, j \in Ids,
                    fetched[p][t][j] \in Contents
             PROVE  Shown(t, j, fetched[p][t][j])'
  BY <1>1 DEF StoredFor, Shown
<1>2. j \in seen[p][t] => Shown(t, j, fetched[p][t][j])
  BY <1>1 DEF StoredInv, StoredFor, Persisting
<1>3. CASE jobs' = jobs /\ (fetched[p][t][id] = Bad \/ Mismatch(jobs, t, id))
  <2>1. CASE j = id
    <3>1. jobs[j] \in Row /\ jobs[j].target # t
      BY <1>3, <2>1, IngestAssumption DEF Mismatch, TypeOK, Table
    <3>2. QED BY <1>1, <1>3, <3>1 DEF Shown
  <2>2. CASE j \in seen[p][t]
    BY <1>1, <1>2, <1>3, <2>2 DEF Shown
  <2>3. QED BY <2>1, <2>2
<1>4. CASE /\ jobs'[id] \in Row /\ jobs'[id].status = "open"
           /\ jobs'[id].content = fetched[p][t][id] /\ jobs'[id].age = 0
           /\ \A i \in Ids \ {id} : jobs'[i] = jobs[i]
  <2>1. CASE j = id
    BY <1>1, <1>4, <2>1, StaleAfterAssumption DEF Shown
  <2>2. CASE j # id
    BY <1>1, <1>2, <1>4, <2>2 DEF Shown
  <2>3. QED BY <2>1, <2>2
<1>5. QED BY <1>3, <1>4, StoreJobWrites

LEMMA CloseEndedStores ==
    ASSUME TypeOK, RunInv, StoredInv, NEW p \in Procs, NEW t \in Targets,
           CloseEnded(p, t)
    PROVE  StoredFor(p, t)'
<1>1. /\ pc'[p][t] = "sweep" /\ pc[p][t] = "store"
      /\ fetched'[p][t] = fetched[p][t] /\ seen'[p][t] = seen[p][t]
      /\ alone'[p][t] => alone[p][t]
  BY DEF CloseEnded, TypeOK, Disturb, Goto
<1> SUFFICES ASSUME alone'[p][t], NEW id \in Ids
             PROVE  /\ id \in seen[p][t] /\ fetched[p][t][id] \in Contents
                          => Shown(t, id, fetched[p][t][id])'
                    /\ fetched[p][t][id] = Ended => id \notin OpenAt(jobs', t)
  BY <1>1 DEF StoredFor, Shown, OpenAt
<1>2. IF id \in OpenAt(jobs, t) /\ fetched[p][t][id] = Ended
      THEN ClosedRow(jobs[id], jobs'[id]) ELSE jobs'[id] = jobs[id]
  <2>1. IF id \in OpenAt(jobs, t) /\ id \in EndedIds(fetched[p][t])
        THEN ClosedRow(jobs[id], jobs'[id]) ELSE jobs'[id] = jobs[id]
    BY ClosingFacts DEF CloseEnded, TypeOK
  <2>2. id \in EndedIds(fetched[p][t]) <=> fetched[p][t][id] = Ended
    BY DEF EndedIds
  <2>3. QED BY <2>1, <2>2
<1>3. id \in seen[p][t] /\ fetched[p][t][id] \in Contents
        => Shown(t, id, fetched[p][t][id])'
  BY <1>1, <1>2, IngestAssumption DEF StoredInv, StoredFor, Persisting, Shown
<1>4. fetched[p][t][id] = Ended => id \notin OpenAt(jobs', t)
  BY <1>2 DEF OpenAt, ClosedRow
<1>5. QED BY <1>3, <1>4

LEMMA SweepStores ==
    ASSUME TypeOK, RunInv, StoredInv, NEW p \in Procs, NEW t \in Targets,
           Sweep(p, t)
    PROVE  StoredFor(p, t)'
<1>1. /\ pc'[p][t] = "record" /\ pc[p][t] = "sweep"
      /\ fetched'[p][t] = fetched[p][t] /\ seen'[p][t] = seen[p][t]
      /\ alone'[p][t] => alone[p][t]
  BY DEF Sweep, TypeOK, Disturb, Goto
<1> SUFFICES ASSUME alone'[p][t], NEW id \in Ids
             PROVE  /\ id \in seen[p][t] /\ fetched[p][t][id] \in Contents
                          => Shown(t, id, fetched[p][t][id])'
                    /\ fetched[p][t][id] = Ended => id \notin OpenAt(jobs', t)
                    /\ t \notin Partial /\ fetched[p][t][id] = Absent
                          => id \notin OpenAt(jobs', t)
  BY <1>1 DEF StoredFor, Shown, OpenAt
<1>2. /\ id \in seen[p][t] /\ fetched[p][t][id] \in Contents
            => Shown(t, id, fetched[p][t][id])
      /\ fetched[p][t][id] = Ended => id \notin OpenAt(jobs, t)
      /\ fetched[p][t][id] = Absent => id \notin seen[p][t]
  BY <1>1, IngestAssumption DEF StoredInv, StoredFor, RunInv, Persisting, Listed
<1>3. IF id \in OpenAt(jobs, t) /\ (IF t \in Partial THEN jobs[id].age > StaleAfter
                                                     ELSE id \notin seen[p][t])
      THEN ClosedRow(jobs[id], jobs'[id]) ELSE jobs'[id] = jobs[id]
  <2>1. CASE t \in Partial
    <3>1. jobs' = CloseStale(jobs, t) /\ jobs \in Table
      BY <2>1 DEF Sweep, TypeOK
    <3>2. IF id \in OpenAt(jobs, t) /\ jobs[id].age > StaleAfter
          THEN ClosedRow(jobs[id], jobs'[id]) ELSE jobs'[id] = jobs[id]
      BY <3>1, ClosingFacts
    <3>3. QED BY <2>1, <3>2
  <2>2. CASE t \notin Partial
    BY <2>2, ClosingFacts DEF Sweep, TypeOK
  <2>3. QED BY <2>1, <2>2
<1>4. id \in OpenAt(jobs', t) => id \in OpenAt(jobs, t) /\ jobs'[id] = jobs[id]
  BY <1>3 DEF OpenAt, ClosedRow
<1>5. id \in seen[p][t] /\ fetched[p][t][id] \in Contents
        => Shown(t, id, fetched[p][t][id])'
  <2> SUFFICES ASSUME id \in seen[p][t], fetched[p][t][id] \in Contents
               PROVE  Shown(t, id, fetched[p][t][id])'
    OBVIOUS
  <2>1. CASE jobs'[id] = jobs[id]
    BY <1>1, <1>2, <2>1 DEF Shown
  <2>2. CASE id \in OpenAt(jobs, t) /\ t \in Partial /\ jobs[id].age > StaleAfter
    <3>1. jobs[id].age \in Nat /\ jobs[id].age <= StaleAfter
      BY <1>2, <2>2, StaleAfterAssumption DEF Shown, OpenAt, Row
    <3>2. QED BY <2>2, <3>1, StaleAfterAssumption
  <2>3. QED BY <1>3, <2>1, <2>2
<1>6. QED BY <1>2, <1>3, <1>4, <1>5 DEF ClosedRow, OpenAt

LEMMA WorkStores ==
    ASSUME TypeOK, RunInv, StoredInv, NEW p \in Procs, NEW t \in Targets, Work(p, t)
    PROVE  StoredFor(p, t)'
<1>1. CASE FetchBoard(p, t)
  <2>1. pc'[p][t] = "store" /\ seen'[p][t] = {}
    BY <1>1 DEF FetchBoard, Goto, RunInv, TypeOK
  <2>2. QED BY <2>1 DEF StoredFor
<1>2. CASE FetchGone(p, t) \/ Record(p, t) \/ Deactivate(p, t) \/ CloseGone(p, t)
  <2>1. pc'[p][t] \in {"retire", "done", "empty", "failed"}
    BY <1>2 DEF FetchGone, Record, Deactivate, CloseGone, Goto, TypeOK
  <2>2. QED BY <2>1 DEF StoredFor, Persisting
<1>3. QED
  BY <1>1, <1>2, StoreJobStores, CloseEndedStores, SweepStores DEF Work

LEMMA NextStoredInv ==
    TypeOK /\ RunInv /\ StoredInv /\ [Next]_vars => StoredInv'
<1> SUFFICES ASSUME TypeOK, RunInv, StoredInv, [Next]_vars,
                    NEW q \in Procs, NEW u \in Targets
             PROVE  StoredFor(q, u)'
  BY DEF StoredInv
<1>1. ASSUME NEW p \in Procs, NEW t \in Targets, Work(p, t) PROVE StoredFor(q, u)'
  BY <1>1, WorkStores, OthersKeep
<1>2. ASSUME UNCHANGED <<jobs, fetched, seen, alone>>,
             pc'[q][u] = pc[q][u] \/ pc'[q][u] \notin Persisting
      PROVE  StoredFor(q, u)'
  <2>1. CASE pc'[q][u] = pc[q][u]
    BY <1>2, <2>1, NothingWritten, StandsStill
  <2>2. CASE pc'[q][u] \notin Persisting
    BY <2>2 DEF StoredFor, Persisting
  <2>3. QED BY <1>2, <2>1, <2>2
<1>3. ASSUME NEW p \in Procs,
             StartRun(p) \/ Interrupt(p) \/ \E t \in Targets :
                Dispatch(p, t) \/ FetchFails(p, t) \/ StatementFails(p, t)
                \/ RecordFails(p, t)
      PROVE  StoredFor(q, u)'
  <2>1. UNCHANGED pc \/ \E t \in Targets, there \in {"fetch", "failed", "done"} :
                            Goto(p, t, there)
    BY <1>3 DEF StartRun, Interrupt, Dispatch, FetchFails, StatementFails, RecordFails
  <2>2. pc'[q][u] = pc[q][u] \/ pc'[q][u] \notin Persisting
    <3>1. CASE UNCHANGED pc
      BY <3>1
    <3>2. ASSUME NEW t \in Targets, NEW there \in {"fetch", "failed", "done"},
                 Goto(p, t, there)
          PROVE  pc'[q][u] \in {pc[q][u], "fetch", "failed", "done"}
      BY <3>2 DEF Goto, TypeOK
    <3>3. QED BY <2>1, <3>1, <3>2 DEF Persisting
  <2>3. QED
    BY <1>2, <1>3, <2>2 DEF StartRun, Interrupt, Dispatch, FetchFails, StatementFails,
                            RecordFails
<1>4. ASSUME NEW p \in Procs, FinishRun(p) \/ Crash(p) PROVE StoredFor(q, u)'
  <2>1. Exit(p) /\ UNCHANGED jobs
    BY <1>4 DEF FinishRun, Crash
  <2>2. CASE q = p
    BY <2>1, <2>2 DEF Exit, TypeOK, StoredFor, Persisting
  <2>3. CASE q # p
    <3>1. /\ pc'[q][u] = pc[q][u] /\ fetched'[q][u] = fetched[q][u]
          /\ seen'[q][u] = seen[q][u] /\ alone'[q][u] = alone[q][u]
      BY <2>1, <2>3 DEF Exit, TypeOK
    <3>2. QED BY <2>1, <3>1, NothingWritten, StandsStill
  <2>4. QED BY <2>2, <2>3
<1>5. ASSUME NEW t \in Targets, RecheckClose(t) PROVE StoredFor(q, u)'
  <2>1. UNCHANGED <<pc, fetched, seen>>
    BY <1>5 DEF RecheckClose, local
  <2>2. CASE u = t
    <3>1. pc[q][u] \in Persisting => ~alone'[q][u]
      BY <1>5, <2>2 DEF RecheckClose, TypeOK
    <3>2. QED BY <2>1, <3>1, StandsStill
  <2>3. CASE u # t
    <3>1. alone'[q][u] = alone[q][u]
      BY <1>5, <2>3 DEF RecheckClose, TypeOK
    <3>2. RowsLeft(u)
      BY <1>5, <2>3, RecheckCloses, ClosesWritesOnly, WritesElsewhere
    <3>3. QED BY <2>1, <3>1, <3>2, StandsStill
  <2>4. QED BY <2>2, <2>3
<1>6. CASE Tick
  <2>1. UNCHANGED <<pc, fetched, seen, alone>> /\ (pc[q][u] \in Persisting => u \notin Partial)
    BY <1>6 DEF Tick, local
  <2>2. u \notin Partial => RowsLeft(u)
    BY <1>6, AgedFacts, RowStatus DEF Tick, TypeOK, RowsLeft
  <2>3. QED BY <2>1, <2>2, StandsStill
<1>7. ASSUME NEW t \in Targets, Rediscover(t) \/ RecheckDeactivate(t)
      PROVE  StoredFor(q, u)'
  BY <1>2, <1>7 DEF Rediscover, RecheckDeactivate, local
<1>8. CASE RecheckFails \/ UNCHANGED vars
  BY <1>2, <1>8 DEF RecheckFails, local, vars
<1>9. QED
  BY <1>1, <1>3, <1>4, <1>5, <1>6, <1>7, <1>8 DEF Next, Progress, Disturbance

\* A run that reports success, and was not overtaken on its target, leaves the
\* table showing what the board showed.
THEOREM SuccessIsStored == Spec => []SuccessMeansStored
<1>1. TypeOK /\ RunInv /\ StoredInv => SuccessMeansStored
  <2> SUFFICES ASSUME TypeOK, RunInv, StoredInv, NEW p \in Procs, NEW t \in Targets,
                      pc[p][t] = "record", alone[p][t], NEW id \in Ids
               PROVE  StoredAs(t, id, fetched[p][t][id])
    BY DEF SuccessMeansStored
  <2>1. fetched[p][t][id] \in Contents \cup {Bad, Ended, Absent}
    BY DEF TypeOK, RunInv, Persisting, Listing, Entries
  <2>2. StoredFor(p, t)
    BY DEF StoredInv
  <2>3. CASE fetched[p][t][id] \in Contents
    <3>1. id \in seen[p][t]
      BY <2>3, IngestAssumption DEF RunInv, Listed
    <3>2. Shown(t, id, fetched[p][t][id])
      BY <2>2, <2>3, <3>1 DEF StoredFor, Persisting
    <3>3. QED BY <2>3, <3>2, RowStatus, IngestAssumption DEF Shown, StoredAs
  <2>4. CASE fetched[p][t][id] = Bad
    BY <2>4, IngestAssumption DEF StoredAs
  <2>5. CASE fetched[p][t][id] = Ended
    BY <2>2, <2>5, IngestAssumption DEF StoredAs, StoredFor, Persisting
  <2>6. CASE fetched[p][t][id] = Absent
    BY <2>2, <2>6, IngestAssumption DEF StoredAs, StoredFor, Persisting
  <2>7. QED BY <2>1, <2>3, <2>4, <2>5, <2>6
<1>2. QED
  BY <1>1, InitTyped, NextTyped, InitRunInv, NextRunInv, InitStoredInv, NextStoredInv,
     PTL DEF Spec

-----------------------------------------------------------------------------
(* Boards that are gone, when nothing overlaps.                            *)

\* One process at a time, no re-check beside it, and nothing fails.
NothingOverlaps == ~Faults /\ ~Rechecks /\ \A p, q \in Procs : p = q

\* A process works on active targets only, but for one it has just deactivated; an
\* inactive target has nothing open unless its process is about to close it.
RetireInv ==
    /\ recheck = {}
    /\ \A p \in Procs, t \in Targets : t \in todo[p] \/ pc[p][t] \in InFlight \ {"empty"} => active[t]
    /\ \A t \in Targets :
          ~active[t] /\ (\A p \in Procs : pc[p][t] # "empty") => OpenAt(jobs, t) = {}

LEMMA InitRetire == Init => RetireInv
BY DEF Init, RetireInv, InFlight, OpenAt, NoRow

\* Who writes rows of one target opens and closes nothing of another.
LEMMA OpenElsewhere ==
    ASSUME TypeOK, NEW u \in Targets, WritesOnly(u), NEW t \in Targets \ {u}
    PROVE  OpenAt(jobs', t) = OpenAt(jobs, t)
<1>1. ASSUME NEW id \in Ids PROVE id \in OpenAt(jobs', t) <=> id \in OpenAt(jobs, t)
  <2>1. CASE jobs[id] = NoRow
    BY <2>1, RowStatus DEF WritesOnly, OpenAt
  <2>2. CASE jobs[id] # NoRow
    BY <2>2 DEF WritesOnly, OpenAt
  <2>3. QED BY <2>1, <2>2
<1>2. QED BY <1>1 DEF OpenAt

\* What the targets of which a step says nothing have in common.
Beside(t) ==
    /\ active'[t] = active[t] /\ OpenAt(jobs', t) = OpenAt(jobs, t)
    /\ \A p \in Procs : (pc'[p][t] = pc[p][t]) /\ (t \in todo'[p] => t \in todo[p])

\* It is enough to look at the target that a step is about.
LEMMA OnlyTarget ==
    ASSUME RetireInv, UNCHANGED recheck, NEW t \in Targets, \A u \in Targets \ {t} : Beside(u),
           \A p \in Procs : t \in todo'[p] \/ pc'[p][t] \in InFlight \ {"empty"} => active'[t],
           ~active'[t] /\ (\A p \in Procs : pc'[p][t] # "empty") => OpenAt(jobs', t) = {}
    PROVE  RetireInv'
<1>1. ASSUME NEW u \in Targets \ {t}
      PROVE  /\ \A p \in Procs : u \in todo'[p] \/ pc'[p][u] \in InFlight \ {"empty"} => active'[u]
             /\ ~active'[u] /\ (\A p \in Procs : pc'[p][u] # "empty") => OpenAt(jobs', u) = {}
  BY DEF Beside, RetireInv
<1>2. QED BY <1>1 DEF RetireInv, OpenAt

LEMMA WorkRetires ==
    ASSUME NothingOverlaps, TypeOK, RunInv, RetireInv, NEW p \in Procs, NEW t \in Targets, Work(p, t)
    PROVE  RetireInv'
<1>1. /\ todo' = todo /\ recheck' = recheck /\ \A u \in Targets \ {t} : active'[u] = active[u]
      /\ \A u \in Targets \ {t} : pc'[p][u] = pc[p][u]
      /\ pc[p][t] \in InFlight
  BY DEF Work, FetchBoard, FetchGone, StoreJob, CloseEnded, Sweep, Record, Deactivate, CloseGone,
         Goto, TypeOK, InFlight
<1>2. \A q \in Procs : q = p
  BY DEF NothingOverlaps
<1>3. \A u \in Targets \ {t} : Beside(u)
  BY <1>1, <1>2, WorkWritesOnly, OpenElsewhere DEF Beside
<1>4. t \notin todo[p]
  BY <1>1 DEF RunInv, InFlight
<1>5. CASE pc[p][t] # "empty" /\ ~Deactivate(p, t)
  <2>1. active' = active
    BY <1>5 DEF Work, FetchBoard, FetchGone, StoreJob, CloseEnded, Sweep, Record, CloseGone
  <2>2. active[t]
    BY <1>1, <1>5 DEF RetireInv
  <2>3. QED BY <1>1, <1>3, <2>1, <2>2, OnlyTarget
<1>6. CASE Deactivate(p, t)
  <2>1. pc'[p][t] = "empty"
    BY <1>6 DEF Deactivate, Goto, TypeOK
  <2>2. QED BY <1>1, <1>2, <1>3, <1>4, <2>1, OnlyTarget
<1>7. CASE pc[p][t] = "empty"
  <2>1. pc'[p][t] = "failed" /\ jobs' = MarkMissingAsRemoved(jobs, t, {})
    BY <1>7 DEF Work, FetchBoard, FetchGone, StoreJob, CloseEnded, Sweep, Record, Deactivate, CloseGone,
                Goto, TypeOK
  <2>2. OpenAt(jobs', t) = {}
    <3>1. ASSUME NEW id \in Ids PROVE id \notin OpenAt(jobs', t)
      <4>1. IF id \in OpenAt(jobs, t) THEN ClosedRow(jobs[id], jobs'[id]) ELSE jobs'[id] = jobs[id]
        BY <2>1, ClosingFacts DEF TypeOK
      <4>2. QED BY <4>1 DEF ClosedRow, OpenAt
    <3>2. QED BY <3>1 DEF OpenAt
  <2>3. \A q \in Procs : t \notin todo'[q] /\ pc'[q][t] \notin InFlight
    BY <1>1, <1>2, <1>4, <2>1 DEF InFlight
  <2>4. QED BY <1>1, <1>3, <2>2, <2>3, OnlyTarget
<1>8. QED BY <1>5, <1>6, <1>7

LEMMA NextRetire == ASSUME NothingOverlaps PROVE TypeOK /\ RunInv /\ RetireInv /\ [Next]_vars => RetireInv'
<1> SUFFICES ASSUME TypeOK, RunInv, RetireInv, [Next]_vars PROVE RetireInv' OBVIOUS
<1>1. ASSUME NEW p \in Procs, StartRun(p) PROVE RetireInv'
  <2>1. UNCHANGED <<active, jobs, pc, recheck>> /\ \A q \in Procs, t \in Targets : t \in todo'[q] => active[t]
    BY <1>1 DEF StartRun, TypeOK, RetireInv
  <2>2. QED BY <2>1 DEF RetireInv
<1>2. ASSUME NEW p \in Procs, FinishRun(p) PROVE RetireInv'
  <2>1. /\ UNCHANGED <<active, jobs, todo, recheck>>
        /\ \A t \in Targets : pc[p][t] \notin InFlight /\ pc'[p][t] = "idle"
    BY <1>2 DEF FinishRun, Exit, TypeOK
  <2>2. \A q \in Procs : q = p
    BY DEF NothingOverlaps
  <2>3. QED BY <2>1, <2>2 DEF RetireInv, InFlight
<1>3. ASSUME NEW p \in Procs, NEW t \in Targets, Dispatch(p, t) PROVE RetireInv'
  <2>1. /\ UNCHANGED <<active, jobs, recheck>> /\ active[t] /\ todo'[p] \subseteq todo[p]
        /\ \A u \in Targets \ {t} : pc'[p][u] = pc[p][u]
    BY <1>3 DEF Dispatch, Goto, TypeOK, RetireInv
  <2>2. \A q \in Procs : q = p
    BY DEF NothingOverlaps
  <2>3. \A u \in Targets \ {t} : Beside(u)
    BY <2>1, <2>2 DEF Beside
  <2>4. QED BY <2>1, <2>3, OnlyTarget
<1>4. ASSUME NEW p \in Procs, NEW t \in Targets, Work(p, t) PROVE RetireInv'
  BY <1>4, WorkRetires
<1>5. ASSUME NEW p \in Procs, NEW t \in Targets, FetchFails(p, t) PROVE RetireInv'
  <2>1. /\ UNCHANGED <<active, jobs, todo, recheck>> /\ active[t]
        /\ \A u \in Targets \ {t} : pc'[p][u] = pc[p][u]
    BY <1>5 DEF FetchFails, Goto, TypeOK, RetireInv, InFlight
  <2>2. \A q \in Procs : q = p
    BY DEF NothingOverlaps
  <2>3. \A u \in Targets \ {t} : Beside(u)
    BY <2>1, <2>2 DEF Beside
  <2>4. QED BY <2>1, <2>3, OnlyTarget
<1>6. ASSUME NEW t \in Targets, Rediscover(t) PROVE RetireInv'
  <2>1. UNCHANGED <<jobs, todo, pc, recheck>> /\ active'[t] /\ \A u \in Targets \ {t} : active'[u] = active[u]
    BY <1>6 DEF Rediscover, local, TypeOK
  <2>2. \A u \in Targets \ {t} : Beside(u)
    BY <2>1 DEF Beside
  <2>3. QED BY <2>1, <2>2, OnlyTarget
<1>7. CASE Tick
  <2>1. UNCHANGED <<active, todo, pc, recheck>> /\ jobs' = Aged(jobs)
    BY <1>7 DEF Tick, local
  <2>2. ASSUME NEW id \in Ids, NEW t \in Targets PROVE id \in OpenAt(jobs', t) <=> id \in OpenAt(jobs, t)
    BY <2>1, AgedFacts, RowStatus DEF OpenAt, TypeOK
  <2>3. \A t \in Targets : OpenAt(jobs', t) = OpenAt(jobs, t)
    BY <2>2 DEF OpenAt
  <2>4. \A t \in Targets : OpenAt(jobs, t)' = OpenAt(jobs', t)
    BY DEF OpenAt
  <2>5. QED BY <2>1, <2>3, <2>4 DEF RetireInv
<1>8. CASE UNCHANGED vars
  BY <1>8 DEF vars, RetireInv, OpenAt
<1>9. QED
  <2>1. /\ \A p \in Procs : ~Interrupt(p) /\ ~Crash(p)
        /\ \A p \in Procs, t \in Targets : ~StatementFails(p, t) /\ ~RecordFails(p, t)
        /\ \A t \in Targets : ~RecheckClose(t) /\ ~RecheckDeactivate(t)
        /\ ~RecheckFails
    BY DEF NothingOverlaps, RetireInv, Interrupt, Crash, StatementFails, RecordFails, RecheckClose,
           RecheckDeactivate, RecheckFails
  <2>2. QED BY <1>1, <1>2, <1>3, <1>4, <1>5, <1>6, <1>7, <1>8, <2>1 DEF Next, Progress, Disturbance

\* Of a board that is gone no job stays open, as processTarget's comment has it, as long
\* as processes run one after the other and nothing fails: whatever the boards answer,
\* in whichever order a run's workers go through them, and whatever discovery finds again
\* (Ingest.RetiredHasNoOpenJobs).
THEOREM SequentialRunsRetire == ASSUME NothingOverlaps PROVE Spec => []RetiredHasNoOpenJobs
<1>1. RetireInv => RetiredHasNoOpenJobs
  BY DEF RetireInv, RetiredHasNoOpenJobs, InFlight
<1>2. QED
  BY <1>1, InitTyped, NextTyped, InitRunInv, NextRunInv, InitRetire, NextRetire, PTL DEF Spec
=============================================================================
