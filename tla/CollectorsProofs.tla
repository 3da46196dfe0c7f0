-------------------------- MODULE CollectorsProofs --------------------------
(***************************************************************************)
(* Proofs about Collectors, for any number of processes, sources,          *)
(* employers, identities and contents, and with every fault.               *)
(***************************************************************************)
EXTENDS Collectors, TLAPS

-----------------------------------------------------------------------------
(* The jobs table.                                                         *)

LEMMA RowIs ==
    /\ NoRow \notin Row /\ NoRow.status = "none"
    /\ \A r \in Row : r.status \in {"open", "removed"}
BY DEF NoRow, Row

\* What the table holds is of a registered target, and of the source of its identity.
Filed ==
    /\ jobs \in Table
    /\ \A id \in Ids : jobs[id] # NoRow => /\ jobs[id].target \in registered
                                          /\ jobs[id].target[1] = SourceOf[id]

\* Rows that one statement may close.
LEMMA ClosedIs ==
    ASSUME Filed, NEW S \in SUBSET Ids, \A id \in S : jobs[id].status = "open",
           jobs' = Closed(jobs, S), registered \subseteq registered'
    PROVE  /\ Filed'
           /\ \A id \in Ids : jobs[id] # NoRow <=> jobs'[id] # NoRow
           /\ \A id \in Ids \ S : jobs'[id].status = jobs[id].status
<1>1. \A id \in S : jobs[id] \in Row
  BY RowIs DEF Filed, Table
<1>2. ASSUME NEW r \in Row
      PROVE  LET c == [r EXCEPT !.status = "removed"] IN c \in Row /\ c.target = r.target
  BY DEF Row
<1>3. /\ \A id \in Ids \ S : jobs'[id] = jobs[id]
      /\ \A id \in S : jobs'[id] \in Row /\ jobs'[id].target = jobs[id].target
      /\ jobs' \in Table
  BY <1>1, <1>2 DEF Closed, Filed, Table
<1>4. QED BY <1>1, <1>3, RowIs DEF Filed

LEMMA StaleCloses ==
    ASSUME Filed, NEW t, jobs' = CloseStale(jobs, t), registered \subseteq registered'
    PROVE  /\ Filed'
           /\ \A id \in Ids : jobs[id] # NoRow <=> jobs'[id] # NoRow
           /\ \A id \in Ids : jobs[id].status = "open" /\ jobs'[id].status # "open"
                                 => jobs[id].age > StaleAfter
<1> DEFINE S == {id \in OpenAt(jobs, t) : jobs[id].age > StaleAfter}
<1>1. S \in SUBSET Ids /\ \A id \in S : jobs[id].status = "open"
  BY DEF OpenAt
<1>2. jobs' = Closed(jobs, S)
  BY DEF CloseStale
<1>3. \A id \in S : jobs[id].age > StaleAfter
  OBVIOUS
<1> HIDE DEF S
<1>4. QED BY <1>1, <1>2, <1>3, ClosedIs

LEMMA EndedCloses ==
    ASSUME Filed, NEW t, NEW E, jobs' = CloseBySourceID(jobs, t, E), registered \subseteq registered'
    PROVE  /\ Filed'
           /\ \A id \in Ids : jobs[id] # NoRow <=> jobs'[id] # NoRow
           /\ \A id \in Ids : jobs[id].status = "open" /\ jobs'[id].status # "open" => id \in E
<1> DEFINE S == OpenAt(jobs, t) \cap E
<1>1. S \in SUBSET Ids /\ \A id \in S : jobs[id].status = "open"
  BY DEF OpenAt
<1>2. jobs' = Closed(jobs, S)
  BY DEF CloseBySourceID
<1>3. \A id \in S : id \in E
  OBVIOUS
<1> HIDE DEF S
<1>4. QED BY <1>1, <1>2, <1>3, ClosedIs

\* A row is written for a target of its source.
LEMMA UpsertedIs ==
    ASSUME Filed, NEW t \in Targets, NEW id \in Ids, NEW c \in Contents,
           jobs' = Upserted(jobs, t, id, c), registered \subseteq registered',
           t \in registered, t[1] = SourceOf[id]
    PROVE  /\ Filed'
           /\ \A i \in Ids : jobs[i] # NoRow => jobs'[i] # NoRow
           /\ \A i \in Ids : jobs[i].status = "open" => jobs'[i].status = "open"
<1> DEFINE r == [status |-> "open", target |-> t, content |-> c, age |-> 0]
<1>1. r \in Row /\ r.status = "open" /\ r.target = t
  BY CollectorsAssumption DEF Row
<1>2. jobs' = [jobs EXCEPT ![id] = r]
  BY DEF Upserted
<1> HIDE DEF r
<1>3. QED BY <1>1, <1>2, RowIs DEF Filed, Table

LEMMA MovedIs ==
    ASSUME Filed, NEW t \in Targets, NEW id \in Ids, jobs' = [jobs EXCEPT ![id].target = t],
           registered \subseteq registered', jobs[id] # NoRow, t \in registered, t[1] = SourceOf[id]
    PROVE  /\ Filed'
           /\ \A i \in Ids : jobs[i] # NoRow => jobs'[i] # NoRow
           /\ \A i \in Ids : jobs[i].status = "open" => jobs'[i].status = "open"
<1> DEFINE r == [jobs[id] EXCEPT !.target = t]
<1>1. jobs[id] \in Row
  BY DEF Filed, Table
<1>2. r \in Row /\ r.status = jobs[id].status /\ r.target = t
  BY <1>1 DEF Row
<1>3. jobs' = [jobs EXCEPT ![id] = r]
  OBVIOUS
<1> HIDE DEF r
<1>4. QED BY <1>1, <1>2, <1>3, RowIs DEF Filed, Table

LEMMA AgedIs ==
    ASSUME Filed, jobs' = Aged(jobs), registered \subseteq registered'
    PROVE  /\ Filed'
           /\ \A i \in Ids : jobs[i] # NoRow => jobs'[i] # NoRow
           /\ \A i \in Ids : jobs[i].status = "open" => jobs'[i].status = "open"
<1>1. ASSUME NEW r \in Row, r.age <= StaleAfter
      PROVE  LET c == [r EXCEPT !.age = @ + 1]
             IN  c \in Row /\ c.status = r.status /\ c.target = r.target
  BY <1>1, CollectorsAssumption DEF Row
<1>2. \A id \in Ids : jobs[id].status = "open" => jobs[id] \in Row
  BY RowIs DEF Filed, Table
<1>3. \A id \in Ids :
         \/ jobs'[id] = jobs[id]
         \/ /\ jobs[id] \in Row /\ jobs'[id] \in Row
            /\ jobs'[id].status = jobs[id].status /\ jobs'[id].target = jobs[id].target
  BY <1>1, <1>2 DEF Aged
<1>4. jobs' \in Table
  BY <1>3 DEF Aged, Filed, Table
<1>5. QED BY <1>3, <1>4, RowIs DEF Filed

-----------------------------------------------------------------------------
(* What a run holds.                                                       *)

\* A job is closed only on its board's word or when it went unseen for long.
Justified ==
    \A id \in Ids : (jobs[id].status = "open" /\ jobs'[id].status # "open") =>
          \/ jobs[id].age > StaleAfter
          \/ \E p \in Procs : run[p].at = "store" /\ id \in EndedIds(p)

Listings == (UNION {Samples(s) : s \in Sources}) \cup {<< >>}

RunState ==
    [at : Places, todo : SUBSET Sources, source : Sources, found : Listings,
     groups : SUBSET Employers, touched : SUBSET Targets, absent : SUBSET Targets,
     employer : Employers, fresh : SUBSET Ids, left : SUBSET Ids, wrote : SUBSET Ids,
     moving : Ids, stored : SUBSET (Employers \X Contents)]

Of(r) == <<r.source, r.employer>>

\* What is found is of the source; a group is worked off bit by bit, for a target that
\* is registered, and a job on the move has a row and is not yet dealt with.
Work(r) ==
    /\ r.found \in Samples(r.source) \cup {<< >>}
    /\ r.touched \subseteq registered /\ r.absent \subseteq registered \ r.touched
    /\ r.fresh \subseteq DOMAIN r.found
    /\ \A id \in r.fresh : r.found[id].employer = r.employer /\ r.found[id].says # Ended
    /\ r.left \subseteq r.fresh /\ r.wrote \subseteq r.fresh \ r.left
    /\ \A id \in r.wrote : r.found[id].says \in Contents
    /\ r.at # "absent" => r.absent = {}
    /\ \A t \in r.absent : t[1] = r.source
    /\ r.at = "idle" => r.stored = {}
    /\ r.at \in {"idle", "next", "group", "absent"} => r.fresh = {}
    /\ r.at = "check" => r.left = {} /\ r.wrote = {}
    /\ r.at = "stale" => r.left = {}
    /\ r.at \in {"check", "store", "move", "again", "stale"} =>
          Of(r) \in registered /\ r.employer \in r.groups
    /\ r.at \in {"move", "again"} => /\ r.moving \in r.left /\ jobs[r.moving] # NoRow
                                     /\ r.found[r.moving].says \in Contents

CollectInv ==
    /\ registered \subseteq Targets /\ Filed
    /\ run \in [Procs -> RunState]
    /\ \A p \in Procs : Work(run[p])

LEMMA FoundIs ==
    ASSUME NEW s, NEW f \in Samples(s) \cup {<< >>}, NEW id \in DOMAIN f
    PROVE  id \in Ids /\ SourceOf[id] = s /\ f[id] \in Posting
<1>1. CASE f = << >>
  BY <1>1
<1>2. CASE f \in Samples(s)
  <2>1. PICK S \in SUBSET {i \in Ids : SourceOf[i] = s} : f \in [S -> Posting]
    BY <1>2 DEF Samples
  <2>2. QED BY <2>1
<1>3. QED BY <1>1, <1>2

\* One run goes on; the table and the registry lose nothing.
LEMMA OneRun ==
    ASSUME CollectInv, NEW p \in Procs, NEW r \in RunState, run' = [run EXCEPT ![p] = r],
           registered \subseteq registered', registered' \subseteq Targets, Filed',
           \A id \in Ids : jobs[id] # NoRow => jobs'[id] # NoRow
    PROVE  Work(r)' => CollectInv'
<1> SUFFICES ASSUME Work(r)' PROVE CollectInv' OBVIOUS
<1>1. /\ run' \in [Procs -> RunState] /\ run'[p] = r
      /\ \A q \in Procs \ {p} : run'[q] = run[q]
  BY DEF CollectInv
<1>2. ASSUME NEW q \in Procs \ {p} PROVE Work(run[q])'
  <2>1. Work(run[q]) /\ run'[q] = run[q] /\ run[q].moving \in Ids
    BY <1>1 DEF CollectInv, RunState
  <2>2. QED BY <2>1 DEF Work, Of
<1>3. QED BY <1>1, <1>2 DEF CollectInv

\* The rest of the world stands still.
LEMMA OnlyRun ==
    ASSUME CollectInv, NEW p \in Procs, NEW r \in RunState, run' = [run EXCEPT ![p] = r],
           UNCHANGED <<registered, jobs>>
    PROVE  Work(r) => CollectInv'
<1>1. Filed'
  BY DEF CollectInv, Filed
<1>2. registered' \subseteq Targets
  BY DEF CollectInv
<1>3. Work(r) => Work(r)'
  BY DEF Work, Of
<1>4. QED BY <1>1, <1>2, <1>3, OneRun

LEMMA NotRunningIs == NotRunning \in RunState /\ NotRunning.at = "idle" /\ Work(NotRunning)
<1>1. /\ (CHOOSE s \in Sources : TRUE) \in Sources /\ (CHOOSE e \in Employers : TRUE) \in Employers
      /\ (CHOOSE id \in Ids : TRUE) \in Ids
  BY CollectorsAssumption
<1>2. << >> \in Listings
  BY DEF Listings
<1>3. NotRunning \in RunState
  BY <1>1, <1>2 DEF NotRunning, RunState, Places
<1>4. Work(NotRunning)
  BY DEF NotRunning, Work
<1>5. QED BY <1>3, <1>4 DEF NotRunning

LEMMA RunIs ==
    ASSUME CollectInv, NEW p \in Procs
    PROVE  run[p] \in RunState /\ Work(run[p]) /\ Target(p) = Of(run[p])
BY DEF CollectInv, Target, Of

-----------------------------------------------------------------------------
(* One collector after another.                                            *)

LEMMA StartKeeps == ASSUME CollectInv, NEW p \in Procs, StartRun(p) PROVE CollectInv'
<1>1. PICK S \in SUBSET Sources : run' = [run EXCEPT ![p] = [NotRunning EXCEPT !.at = "next", !.todo = S]]
  BY DEF StartRun
<1> DEFINE r == [NotRunning EXCEPT !.at = "next", !.todo = S]
<1>2. run' = [run EXCEPT ![p] = r]
  BY <1>1
<1>3. r \in RunState
  BY NotRunningIs DEF RunState, Places
<1>4. Work(r)
  BY DEF Work, NotRunning
<1> HIDE DEF r
<1>5. QED BY <1>2, <1>3, <1>4, OnlyRun DEF StartRun

LEMMA OverKeeps == ASSUME CollectInv, NEW p \in Procs, FinishRun(p) \/ Crash(p) PROVE CollectInv'
BY NotRunningIs, OnlyRun DEF FinishRun, Crash

LEMMA CollectKeeps == ASSUME CollectInv, NEW p \in Procs, NEW s \in Sources, Collect(p, s) PROVE CollectInv'
<1>1. PICK f \in Samples(s) :
          run' = [run EXCEPT ![p].at = "group", ![p].todo = @ \ {s}, ![p].source = s,
                             ![p].found = f, ![p].touched = {},
                             ![p].groups = {f[id].employer : id \in DOMAIN f}]
  BY DEF Collect
<1> DEFINE r == [run[p] EXCEPT !.at = "group", !.todo = @ \ {s}, !.source = s, !.found = f, !.touched = {},
                               !.groups = {f[id].employer : id \in DOMAIN f}]
<1>2. run' = [run EXCEPT ![p] = r]
  BY <1>1
<1>3. run[p] \in RunState /\ Work(run[p]) /\ run[p].at = "next"
  BY RunIs DEF Collect
<1>4. r \in RunState
  <2>1. f \in Listings
    BY DEF Listings
  <2>2. {f[id].employer : id \in DOMAIN f} \subseteq Employers
    BY FoundIs DEF Posting
  <2>3. QED BY <1>3, <2>1, <2>2 DEF RunState, Places
<1>5. Work(r)
  BY <1>3 DEF Work, RunState
<1> HIDE DEF r
<1>6. QED BY <1>2, <1>4, <1>5, OnlyRun DEF Collect

LEMMA CollectFailsKeeps ==
    ASSUME CollectInv, NEW p \in Procs, NEW s \in Sources, CollectFails(p, s) PROVE CollectInv'
<1> DEFINE r == [run[p] EXCEPT !.todo = @ \ {s}]
<1>1. run' = [run EXCEPT ![p] = r]
  BY DEF CollectFails
<1>2. run[p] \in RunState /\ Work(run[p])
  BY RunIs
<1>3. r \in RunState /\ Work(r)
  BY <1>2 DEF RunState, Work, Of
<1> HIDE DEF r
<1>4. QED BY <1>1, <1>3, OnlyRun DEF CollectFails

-----------------------------------------------------------------------------
(* One employer's group.                                                   *)

\* What of a sample is e's is found.
LEMMA FreshIs ==
    ASSUME CollectInv, NEW p \in Procs, NEW e
    PROVE  /\ FreshOf(p, e) \subseteq DOMAIN run[p].found /\ FreshOf(p, e) \subseteq Ids
           /\ \A id \in FreshOf(p, e) : run[p].found[id].employer = e /\ run[p].found[id].says # Ended
<1>1. DOMAIN run[p].found \subseteq Ids
  BY RunIs, FoundIs DEF Work
<1>2. QED BY <1>1 DEF FreshOf, EndedIds

LEMMA GroupKeeps == ASSUME CollectInv, NEW p \in Procs, NEW e \in Employers, Group(p, e) PROVE CollectInv'
<1> DEFINE t == <<run[p].source, e>>
           go == t \in registered \/ FreshOf(p, e) # {}
<1>1. PICK r : r = [run[p] EXCEPT !.at = IF go THEN "check" ELSE "group", !.employer = e,
                                  !.groups = IF go THEN @ ELSE @ \ {e},
                                  !.touched = IF go THEN @ \cup {t} ELSE @,
                                  !.fresh = IF go THEN FreshOf(p, e) ELSE {}, !.wrote = {}]
  OBVIOUS
<1>2. /\ run' = [run EXCEPT ![p] = r] /\ UNCHANGED jobs
      /\ registered' = IF go THEN registered \cup {t} ELSE registered
      /\ run[p].at = "group" /\ e \in run[p].groups
  BY <1>1 DEF Group
<1>3. /\ run[p] \in RunState /\ Work(run[p]) /\ registered \subseteq Targets
      /\ run[p].fresh = {} /\ run[p].left = {} /\ run[p].absent = {}
  BY <1>2, RunIs DEF CollectInv, Work
<1>4. t \in Targets
  BY <1>3 DEF RunState, Targets
<1>5. r \in RunState
  <2>1. /\ run[p].groups \ {e} \in SUBSET Employers /\ FreshOf(p, e) \in SUBSET Ids
        /\ run[p].touched \cup {t} \in SUBSET Targets /\ run[p].groups \in SUBSET Employers
        /\ run[p].touched \in SUBSET Targets
    BY <1>3, <1>4, FreshIs DEF RunState
  <2> HIDE DEF go, t
  <2>2. PICK at \in {"check", "group"}, touched \in SUBSET Targets, groups \in SUBSET Employers,
             fresh \in SUBSET Ids :
          r = [run[p] EXCEPT !.at = at, !.employer = e, !.groups = groups, !.touched = touched,
                             !.fresh = fresh, !.wrote = {}]
    BY <1>1, <1>3, <2>1
  <2>3. QED BY <1>3, <2>2 DEF RunState, Places
<1>6. /\ registered \subseteq registered' /\ registered' \subseteq Targets
      /\ go => t \in registered'
  BY <1>2, <1>3, <1>4
<1>7. /\ r.source = run[p].source /\ r.found = run[p].found /\ r.absent = {} /\ r.left = {} /\ r.wrote = {}
      /\ r.employer = e
      /\ go => r.at = "check" /\ r.touched = run[p].touched \cup {t} /\ r.fresh = FreshOf(p, e)
               /\ r.groups = run[p].groups
      /\ ~go => r.at = "group" /\ r.touched = run[p].touched /\ r.fresh = {}
  BY <1>1, <1>3 DEF RunState
<1>8. Of(r) = t
  BY <1>7 DEF Of
<1> HIDE DEF go, t
<1>9. Work(r)'
  <2>1. CASE go
    BY <1>2, <1>3, <1>6, <1>7, <1>8, <2>1, FreshIs DEF Work
  <2>2. CASE ~go
    BY <1>3, <1>6, <1>7, <2>2 DEF Work
  <2>3. QED BY <2>1, <2>2
<1>10. Filed'
  BY <1>2, <1>6 DEF CollectInv, Filed
<1>11. QED BY <1>2, <1>5, <1>6, <1>9, <1>10, OneRun

LEMMA GroupFailsKeeps ==
    ASSUME CollectInv, NEW p \in Procs, NEW e \in Employers, GroupFails(p, e) PROVE CollectInv'
<1> DEFINE r == [run[p] EXCEPT !.groups = @ \ {e}]
<1>1. run' = [run EXCEPT ![p] = r] /\ run[p].at = "group"
  BY DEF GroupFails
<1>2. run[p] \in RunState /\ Work(run[p])
  BY RunIs
<1>3. r \in RunState /\ Work(r)
  BY <1>1, <1>2 DEF RunState, Work, Of
<1> HIDE DEF r
<1>4. QED BY <1>1, <1>3, OnlyRun DEF GroupFails

\* Some of what is fresh is left to be stored.
LEMMA CheckKeeps == ASSUME CollectInv, NEW p \in Procs, Check(p) \/ CheckFails(p) PROVE CollectInv'
<1>1. PICK F \in SUBSET run[p].fresh : run' = [run EXCEPT ![p].at = "store", ![p].fresh = F, ![p].left = F]
  <2>1. CASE Check(p)
    BY <2>1 DEF Check, DropOpenings
  <2>2. CASE CheckFails(p)
    <3>1. run' = [run EXCEPT ![p].at = "store", ![p].left = run[p].fresh]
      BY <2>2 DEF CheckFails, CheckNothing
    <3>2. run \in [Procs -> RunState]
      BY DEF CollectInv
    <3>3. run' = [run EXCEPT ![p].at = "store", ![p].fresh = run[p].fresh, ![p].left = run[p].fresh]
      BY <3>1, <3>2 DEF RunState
    <3>4. QED BY <3>3
  <2>3. QED BY <2>1, <2>2
<1> DEFINE r == [run[p] EXCEPT !.at = "store", !.fresh = F, !.left = F]
<1>2. run' = [run EXCEPT ![p] = r] /\ run[p].at = "check"
  BY <1>1 DEF Check, CheckFails, CheckNothing
<1>3. run[p] \in RunState /\ Work(run[p])
  BY RunIs
<1>4. r \in RunState
  BY <1>3 DEF RunState, Places
<1>5. Work(r)
  BY <1>2, <1>3 DEF RunState, Work, Of
<1> HIDE DEF r
<1>6. QED BY <1>2, <1>4, <1>5, OnlyRun DEF Check, CheckFails, CheckNothing

-----------------------------------------------------------------------------
(* persist.                                                                *)

\* What is left to be stored is of the source, and its target is registered.
LEMMA StoringIs ==
    ASSUME CollectInv, NEW p \in Procs, run[p].at \in {"store", "move", "again", "stale"}
    PROVE  /\ run[p] \in RunState /\ Work(run[p])
           /\ Target(p) \in registered /\ Target(p) \in Targets /\ Target(p) = Of(run[p])
           /\ \A id \in run[p].left : id \in Ids /\ SourceOf[id] = run[p].source /\ Target(p)[1] = SourceOf[id]
<1>1. run[p] \in RunState /\ Work(run[p]) /\ Target(p) = Of(run[p]) /\ registered \subseteq Targets
  BY RunIs DEF CollectInv
<1>2. Of(run[p]) \in registered /\ run[p].left \subseteq DOMAIN run[p].found
  BY <1>1 DEF Work
<1>3. QED BY <1>1, <1>2, FoundIs DEF Work, Of

\* A posting that is left out, or written: either way it is dealt with.
LEMMA DealtWith ==
    ASSUME CollectInv, NEW p \in Procs, run[p].at \in {"store", "move", "again"},
           NEW id \in run[p].left, NEW W \in SUBSET {id}, W # {} => run[p].found[id].says \in Contents,
           run' = [run EXCEPT ![p].at = "store", ![p].left = @ \ {id}, ![p].wrote = @ \cup W],
           UNCHANGED registered, Filed', \A i \in Ids : jobs[i] # NoRow => jobs'[i] # NoRow
    PROVE  CollectInv'
<1>1. PICK r : r = [run[p] EXCEPT !.at = "store", !.left = @ \ {id}, !.wrote = @ \cup W]
  OBVIOUS
<1>2. run' = [run EXCEPT ![p] = r]
  BY <1>1
<1>3. run[p] \in RunState /\ Work(run[p]) /\ Of(run[p]) \in registered /\ registered \subseteq Targets
  BY StoringIs DEF CollectInv
<1>4. r \in RunState
  <2>1. run[p].left \ {id} \in SUBSET Ids /\ run[p].wrote \cup W \in SUBSET Ids
    BY <1>3, StoringIs DEF RunState
  <2>2. QED BY <1>1, <1>3, <2>1 DEF RunState, Places
<1>5. /\ r.at = "store" /\ r.left = run[p].left \ {id} /\ r.wrote = run[p].wrote \cup W
      /\ r.source = run[p].source /\ r.found = run[p].found /\ r.employer = run[p].employer
      /\ r.touched = run[p].touched /\ r.absent = run[p].absent /\ r.fresh = run[p].fresh
      /\ r.groups = run[p].groups
  BY <1>1, <1>3 DEF RunState
<1>6. Work(r)'
  BY <1>3, <1>5 DEF Work, Of
<1>7. registered' \subseteq Targets /\ registered \subseteq registered'
  BY <1>3
<1>8. QED BY <1>2, <1>4, <1>6, <1>7, OneRun

LEMMA SkipKeeps ==
    ASSUME CollectInv, NEW p \in Procs, run[p].at \in {"store", "move", "again"},
           NEW id \in run[p].left, Skip(p, id), UNCHANGED registered
    PROVE  CollectInv' /\ Justified
<1>1. run \in [Procs -> RunState] /\ UNCHANGED jobs /\ Filed
  BY DEF CollectInv, Skip
<1>2. run' = [run EXCEPT ![p].at = "store", ![p].left = @ \ {id}, ![p].wrote = @ \cup {}]
  BY <1>1 DEF Skip, RunState
<1>3. Filed'
  BY <1>1 DEF Filed
<1>4. QED BY <1>1, <1>2, <1>3, DealtWith DEF Justified

LEMMA WriteKeeps ==
    ASSUME CollectInv, NEW p \in Procs, run[p].at \in {"store", "move", "again"},
           NEW id \in run[p].left, Write(p, id), run[p].found[id].says \in Contents, UNCHANGED registered
    PROVE  CollectInv' /\ Justified
<1>1. /\ Target(p) \in registered /\ Target(p) \in Targets /\ id \in Ids /\ Target(p)[1] = SourceOf[id]
      /\ Filed
  BY StoringIs DEF CollectInv
<1>2. /\ Filed' /\ \A i \in Ids : jobs[i] # NoRow => jobs'[i] # NoRow
      /\ \A i \in Ids : jobs[i].status = "open" => jobs'[i].status = "open"
  BY <1>1, UpsertedIs DEF Write
<1>3. run' = [run EXCEPT ![p].at = "store", ![p].left = @ \ {id}, ![p].wrote = @ \cup {id}]
  BY DEF Write
<1>4. QED BY <1>2, <1>3, DealtWith DEF Justified

LEMMA StoreKeeps ==
    ASSUME CollectInv, NEW p \in Procs, NEW id \in Ids, Store(p, id) PROVE CollectInv' /\ Justified
<1>1. run[p].at = "store" /\ id \in run[p].left /\ UNCHANGED registered
  BY DEF Store
<1>2. CASE Skip(p, id)
  BY <1>1, <1>2, SkipKeeps
<1>3. CASE id \in Good(p) /\ Write(p, id)
  BY <1>1, <1>3, WriteKeeps DEF Good
<1>4. CASE id \in Good(p) /\ Mismatch(jobs, Target(p), id) /\ UNCHANGED jobs
           /\ run' = [run EXCEPT ![p].at = "move", ![p].moving = id]
  <2>1. PICK r : r = [run[p] EXCEPT !.at = "move", !.moving = id]
    OBVIOUS
  <2>2. run' = [run EXCEPT ![p] = r]
    BY <1>4, <2>1
  <2>3. run[p] \in RunState /\ Work(run[p])
    BY RunIs
  <2>4. r \in RunState
    BY <2>1, <2>3 DEF RunState, Places
  <2>5. jobs[id] # NoRow /\ run[p].found[id].says \in Contents
    BY <1>4 DEF Mismatch, Good
  <2>6. Work(r)
    BY <1>1, <2>1, <2>3, <2>5 DEF RunState, Work, Of
  <2>7. QED BY <1>1, <1>4, <2>2, <2>4, <2>6, OnlyRun DEF Justified
<1>5. QED BY <1>2, <1>3, <1>4 DEF Store

LEMMA MoveKeeps == ASSUME CollectInv, NEW p \in Procs, MoveJob(p) PROVE CollectInv' /\ Justified
<1>1. /\ run[p].at = "move" /\ UNCHANGED registered
      /\ run' = [run EXCEPT ![p].at = "again"]
      /\ jobs' = [jobs EXCEPT ![run[p].moving].target = Target(p)]
  BY DEF MoveJob, Goto
<1>2. /\ run[p] \in RunState /\ Work(run[p]) /\ Target(p) = Of(run[p])
      /\ Target(p) \in registered /\ Target(p) \in Targets
      /\ \A id \in run[p].left : id \in Ids /\ Target(p)[1] = SourceOf[id]
  BY <1>1, StoringIs
<1>3. run[p].moving \in run[p].left /\ jobs[run[p].moving] # NoRow
  BY <1>1, <1>2 DEF Work
<1>4. /\ Filed' /\ \A i \in Ids : jobs[i] # NoRow => jobs'[i] # NoRow
      /\ \A i \in Ids : jobs[i].status = "open" => jobs'[i].status = "open"
  BY <1>1, <1>2, <1>3, MovedIs DEF CollectInv
<1>5. PICK r : r = [run[p] EXCEPT !.at = "again"]
  OBVIOUS
<1>6. run' = [run EXCEPT ![p] = r]
  BY <1>1, <1>5
<1>7. r \in RunState
  BY <1>2, <1>5 DEF RunState, Places
<1>8. Work(r)'
  <2>1. r.moving \in Ids /\ r.moving = run[p].moving
    BY <1>2, <1>5 DEF RunState
  <2>2. jobs'[r.moving] # NoRow
    BY <1>3, <1>4, <2>1
  <2>3. QED BY <1>1, <1>2, <1>3, <1>5, <2>2 DEF RunState, Work, Of
<1>9. QED BY <1>1, <1>4, <1>6, <1>7, <1>8, OneRun DEF Justified, CollectInv

LEMMA MoveFailsKeeps == ASSUME CollectInv, NEW p \in Procs, MoveFails(p) PROVE CollectInv' /\ Justified
<1>1. run[p].at = "move" /\ Skip(p, run[p].moving) /\ UNCHANGED registered
  BY DEF MoveFails, MoveForgotten
<1>2. run[p].moving \in run[p].left
  BY <1>1, RunIs DEF Work
<1>3. QED BY <1>1, <1>2, SkipKeeps

LEMMA AgainKeeps == ASSUME CollectInv, NEW p \in Procs, StoreAgain(p) PROVE CollectInv' /\ Justified
<1>1. /\ run[p].at = "again" /\ UNCHANGED registered
      /\ Skip(p, run[p].moving) \/ Write(p, run[p].moving)
  BY DEF StoreAgain
<1>2. run[p].moving \in run[p].left /\ run[p].found[run[p].moving].says \in Contents
  BY <1>1, RunIs DEF Work
<1>3. QED BY <1>1, <1>2, SkipKeeps, WriteKeeps

LEMMA CloseEndedKeeps == ASSUME CollectInv, NEW p \in Procs, CloseEnded(p) PROVE CollectInv' /\ Justified
<1> DEFINE E == {id \in EndedIds(p) : run[p].found[id].employer = run[p].employer}
<1>1. /\ run[p].at = "store" /\ run[p].left = {} /\ UNCHANGED registered
      /\ run' = [run EXCEPT ![p].at = "stale"] /\ jobs' = CloseBySourceID(jobs, Target(p), E)
  BY DEF CloseEnded, Goto
<1>2. \A id \in E : id \in EndedIds(p)
  OBVIOUS
<1> HIDE DEF E
<1>3. /\ Filed' /\ \A i \in Ids : jobs[i] # NoRow => jobs'[i] # NoRow
      /\ \A i \in Ids : jobs[i].status = "open" /\ jobs'[i].status # "open" => i \in E
  BY <1>1, EndedCloses DEF CollectInv
<1>4. PICK r : r = [run[p] EXCEPT !.at = "stale"]
  OBVIOUS
<1>5. run' = [run EXCEPT ![p] = r]
  BY <1>1, <1>4
<1>6. run[p] \in RunState /\ Work(run[p])
  BY RunIs
<1>7. r \in RunState
  BY <1>4, <1>6 DEF RunState, Places
<1>8. Work(r)'
  BY <1>1, <1>4, <1>6 DEF RunState, Work, Of
<1>9. QED BY <1>1, <1>2, <1>3, <1>5, <1>7, <1>8, OneRun DEF Justified, CollectInv

\* On to the next employer.
LEMMA EndGroupKeeps ==
    ASSUME CollectInv, NEW p \in Procs, run[p].at \in {"store", "again", "stale"},
           NEW O \in SUBSET (Employers \X Contents), EndGroup(p, O), UNCHANGED registered,
           Filed', \A i \in Ids : jobs[i] # NoRow => jobs'[i] # NoRow
    PROVE  CollectInv'
<1>1. PICK r : r = [run[p] EXCEPT !.at = "group", !.groups = @ \ {run[p].employer}, !.fresh = {},
                                  !.left = {}, !.wrote = {}, !.stored = @ \cup O]
  OBVIOUS
<1>2. run' = [run EXCEPT ![p] = r]
  BY <1>1 DEF EndGroup
<1>3. run[p] \in RunState /\ Work(run[p]) /\ registered \subseteq Targets
  BY RunIs DEF CollectInv
<1>4. r \in RunState
  <2>1. /\ run[p].groups \ {run[p].employer} \in SUBSET Employers
        /\ run[p].stored \cup O \in SUBSET (Employers \X Contents)
    BY <1>3 DEF RunState
  <2>2. QED BY <1>1, <1>3, <2>1 DEF RunState, Places
<1>5. Work(r)'
  BY <1>1, <1>3 DEF RunState, Work, Of
<1>6. QED BY <1>2, <1>3, <1>4, <1>5, OneRun

LEMMA AgeOutKeeps == ASSUME CollectInv, NEW p \in Procs, AgeOut(p) PROVE CollectInv' /\ Justified
<1> DEFINE O == {<<run[p].employer, run[p].found[id].says>> : id \in run[p].wrote}
<1>1. /\ run[p].at = "stale" /\ UNCHANGED registered /\ EndGroup(p, O)
      /\ jobs' = CloseStale(jobs, Target(p))
  BY DEF AgeOut
<1>2. O \in SUBSET (Employers \X Contents)
  BY RunIs DEF RunState, Work
<1>3. /\ Filed' /\ \A i \in Ids : jobs[i] # NoRow => jobs'[i] # NoRow
      /\ \A i \in Ids : jobs[i].status = "open" /\ jobs'[i].status # "open" => jobs[i].age > StaleAfter
  BY <1>1, StaleCloses DEF CollectInv
<1> HIDE DEF O
<1>4. QED BY <1>1, <1>2, <1>3, EndGroupKeeps DEF Justified

LEMMA PersistFailsKeeps == ASSUME CollectInv, NEW p \in Procs, PersistFails(p) PROVE CollectInv'
<1>1. Filed'
  BY DEF PersistFails, CollectInv, Filed
<1>2. QED BY <1>1, EndGroupKeeps DEF PersistFails

-----------------------------------------------------------------------------
(* The employers that were absent.                                         *)

LEMMA ListTargetsKeeps ==
    ASSUME CollectInv, NEW p \in Procs, ListTargets(p) \/ ListTargetsFails(p) \/ EndCollector(p)
    PROVE  CollectInv'
<1>1. run[p] \in RunState /\ Work(run[p]) /\ registered \subseteq Targets
  BY RunIs DEF CollectInv
<1>2. UNCHANGED <<registered, jobs>>
  BY DEF ListTargets, ListTargetsFails, EndCollector
<1>3. CASE ListTargets(p)
  <2> DEFINE A == {t \in registered : t[1] = run[p].source} \ run[p].touched
  <2>1. PICK r : r = [run[p] EXCEPT !.at = "absent", !.absent = A]
    OBVIOUS
  <2>2. run' = [run EXCEPT ![p] = r] /\ run[p].at = "group"
    BY <1>3, <2>1 DEF ListTargets
  <2>3. /\ A \in SUBSET Targets /\ A \subseteq registered \ run[p].touched
        /\ \A t \in A : t[1] = run[p].source
    BY <1>1
  <2> HIDE DEF A
  <2>4. r \in RunState
    BY <1>1, <2>1, <2>3 DEF RunState, Places
  <2>5. Work(r)
    BY <1>1, <2>1, <2>2, <2>3 DEF RunState, Work, Of
  <2>6. QED BY <1>2, <2>2, <2>4, <2>5, OnlyRun
<1>4. CASE ListTargetsFails(p)
  <2>1. PICK r : r = [run[p] EXCEPT !.at = "next"]
    OBVIOUS
  <2>2. run' = [run EXCEPT ![p] = r] /\ run[p].at = "group"
    BY <1>4, <2>1 DEF ListTargetsFails, Goto
  <2>3. r \in RunState
    BY <1>1, <2>1 DEF RunState, Places
  <2>4. Work(r)
    BY <1>1, <2>1, <2>2 DEF RunState, Work, Of
  <2>5. QED BY <1>2, <2>2, <2>3, <2>4, OnlyRun
<1>5. CASE EndCollector(p)
  <2>1. PICK r : r = [run[p] EXCEPT !.at = "next", !.found = << >>, !.touched = {}]
    OBVIOUS
  <2>2. run' = [run EXCEPT ![p] = r] /\ run[p].at = "absent" /\ run[p].absent = {}
    BY <1>5, <2>1 DEF EndCollector
  <2>3. << >> \in Listings /\ {} \in SUBSET Targets
    BY DEF Listings
  <2>4. r \in RunState
    BY <1>1, <2>1, <2>3 DEF RunState, Places
  <2>5. Work(r)
    BY <1>1, <2>1, <2>2 DEF RunState, Work, Of
  <2>6. QED BY <1>2, <2>2, <2>4, <2>5, OnlyRun
<1>6. QED BY <1>3, <1>4, <1>5

\* One absent target less.
LEMMA AbsentKeeps ==
    ASSUME CollectInv, NEW p \in Procs, NEW t \in Targets, AgeOutAbsent(p, t) \/ AgeOutAbsentFails(p, t)
    PROVE  CollectInv' /\ Justified
<1>1. PICK r : r = [run[p] EXCEPT !.absent = @ \ {t}]
  OBVIOUS
<1>2. run' = [run EXCEPT ![p] = r] /\ run[p].at = "absent" /\ UNCHANGED registered
  BY <1>1 DEF AgeOutAbsent, AgeOutAbsentFails
<1>3. run[p] \in RunState /\ Work(run[p]) /\ registered \subseteq Targets
  BY RunIs DEF CollectInv
<1>4. r \in RunState
  BY <1>1, <1>3 DEF RunState
<1>5. /\ Filed' /\ \A i \in Ids : jobs[i] # NoRow => jobs'[i] # NoRow
      /\ \A i \in Ids : jobs[i].status = "open" /\ jobs'[i].status # "open" => jobs[i].age > StaleAfter
  <2>1. CASE AgeOutAbsent(p, t)
    BY <2>1, <1>2, StaleCloses DEF AgeOutAbsent, CollectInv
  <2>2. CASE AgeOutAbsentFails(p, t)
    BY <2>2 DEF AgeOutAbsentFails, CollectInv, Filed
  <2>3. QED BY <2>1, <2>2
<1>6. Work(r)'
  BY <1>1, <1>2, <1>3 DEF RunState, Work, Of
<1>7. QED BY <1>2, <1>3, <1>4, <1>5, <1>6, OneRun DEF Justified

LEMMA TickKeeps == ASSUME CollectInv, Tick PROVE CollectInv' /\ Justified
<1>1. /\ Filed' /\ \A i \in Ids : jobs[i] # NoRow => jobs'[i] # NoRow
      /\ \A i \in Ids : jobs[i].status = "open" => jobs'[i].status = "open"
  BY AgedIs DEF CollectInv, Tick
<1>2. \A p \in Procs : run[p].moving \in Ids
  BY RunIs DEF RunState
<1>3. QED BY <1>1, <1>2 DEF CollectInv, Work, Of, Tick, Justified

-----------------------------------------------------------------------------
(* Every step.                                                             *)

LEMMA InitHolds == Init => CollectInv
<1> SUFFICES ASSUME Init PROVE CollectInv OBVIOUS
<1>1. Filed
  BY DEF Init, Filed, Table
<1>2. run \in [Procs -> RunState]
  BY NotRunningIs DEF Init
<1>3. \A p \in Procs : Work(run[p])
  BY NotRunningIs DEF Init
<1>4. QED BY <1>1, <1>2, <1>3 DEF CollectInv, Init

\* Whoever leaves the table alone closes nothing.
LEMMA NothingClosed == UNCHANGED jobs => Justified
BY DEF Justified

LEMMA StepKeeps == CollectInv /\ [Next]_vars => CollectInv' /\ Justified
<1> SUFFICES ASSUME CollectInv, [Next]_vars PROVE CollectInv' /\ Justified OBVIOUS
<1>1. CASE UNCHANGED vars
  <2>1. jobs' = jobs /\ run' = run /\ registered' = registered
    BY <1>1 DEF vars
  <2>2. Filed'
    BY <2>1 DEF CollectInv, Filed
  <2>3. ASSUME NEW p \in Procs PROVE Work(run[p])'
    <3>1. Work(run[p])
      BY DEF CollectInv
    <3>2. QED BY <2>1, <3>1 DEF Work, Of
  <2>4. QED BY <2>1, <2>2, <2>3, NothingClosed DEF CollectInv
<1>2. ASSUME NEW p \in Procs, StartRun(p) \/ FinishRun(p) \/ Crash(p) PROVE CollectInv' /\ Justified
  <2>1. UNCHANGED jobs
    BY <1>2 DEF StartRun, FinishRun, Crash
  <2>2. CollectInv'
    BY <1>2, StartKeeps, OverKeeps
  <2>3. QED BY <2>1, <2>2, NothingClosed
<1>3. ASSUME NEW p \in Procs, NEW s \in Sources, Collect(p, s) \/ CollectFails(p, s)
      PROVE  CollectInv' /\ Justified
  <2>1. UNCHANGED jobs
    BY <1>3 DEF Collect, CollectFails
  <2>2. CollectInv'
    BY <1>3, CollectKeeps, CollectFailsKeeps
  <2>3. QED BY <2>1, <2>2, NothingClosed
<1>4. ASSUME NEW p \in Procs, NEW e \in Employers, Group(p, e) \/ GroupFails(p, e)
      PROVE  CollectInv' /\ Justified
  <2>1. UNCHANGED jobs
    BY <1>4 DEF Group, GroupFails
  <2>2. CollectInv'
    BY <1>4, GroupKeeps, GroupFailsKeeps
  <2>3. QED BY <2>1, <2>2, NothingClosed
<1>5. ASSUME NEW p \in Procs, Check(p) \/ CheckFails(p) PROVE CollectInv' /\ Justified
  <2>1. UNCHANGED jobs
    BY <1>5 DEF Check, CheckFails, CheckNothing
  <2>2. CollectInv'
    BY <1>5, CheckKeeps
  <2>3. QED BY <2>1, <2>2, NothingClosed
<1>6. ASSUME NEW p \in Procs, MoveJob(p) \/ MoveFails(p) \/ StoreAgain(p) \/ CloseEnded(p) \/ AgeOut(p)
      PROVE  CollectInv' /\ Justified
  BY <1>6, MoveKeeps, MoveFailsKeeps, AgainKeeps, CloseEndedKeeps, AgeOutKeeps
<1>7. ASSUME NEW p \in Procs, PersistFails(p) PROVE CollectInv' /\ Justified
  <2>1. UNCHANGED jobs
    BY <1>7 DEF PersistFails
  <2>2. CollectInv'
    BY <1>7, PersistFailsKeeps
  <2>3. QED BY <2>1, <2>2, NothingClosed
<1>8. ASSUME NEW p \in Procs, ListTargets(p) \/ ListTargetsFails(p) \/ EndCollector(p)
      PROVE  CollectInv' /\ Justified
  <2>1. UNCHANGED jobs
    BY <1>8 DEF ListTargets, ListTargetsFails, EndCollector
  <2>2. CollectInv'
    BY <1>8, ListTargetsKeeps
  <2>3. QED BY <2>1, <2>2, NothingClosed
<1>9. QED
  BY <1>1, <1>2, <1>3, <1>4, <1>5, <1>6, <1>7, <1>8, StoreKeeps, AbsentKeeps, TickKeeps DEF Next

LEMMA Always == Spec => []CollectInv
BY InitHolds, StepKeeps, PTL DEF Spec

-----------------------------------------------------------------------------
(* Invocations that neither overlap nor fail.                              *)

Undisturbed == ~Faults /\ ~Unchecked /\ \A p, q \in Procs : p = q

Storing == {"store", "move", "again", "stale"}
Grouping == {"check"} \cup Storing
Collecting == {"group", "absent"} \cup Grouping

\* Row j is open, shows e's opening c, and was written in this run.
Shows(j, e, c) ==
    /\ jobs[j].status = "open" /\ jobs[j].target[2] = e /\ jobs[j].content = c /\ jobs[j].age = 0

\* The posting is stored as it was found; or another source shows its opening.
Kept(r, id) == jobs[id].status # "none" /\ jobs[id].target[1] = r.source
               /\ Shows(id, r.found[id].employer, r.found[id].says)
Elsewhere(r, id) ==
    \E j \in Ids : /\ SourceOf[j] # r.source /\ jobs[j].status = "open"
                   /\ jobs[j].target[2] = r.found[id].employer
                   /\ <<jobs[j].content, r.found[id].says>> \in Same

GoodIn(r) == {id \in DOMAIN r.found : r.found[id].says \in Contents}

\* Of the employers that are done with, every opening found is visible; of the one under
\* way, those that are not fresh, and those fresh that are not left; and nothing that is
\* fresh is visible elsewhere.
Visible(r) ==
    /\ r.at \in Collecting => /\ r.source \notin r.todo
          /\ \A id \in GoodIn(r) : r.found[id].employer \notin r.groups => Kept(r, id) \/ Elsewhere(r, id)
    /\ r.at \in Grouping =>
          \A id \in GoodIn(r) : r.found[id].employer = r.employer => id \in r.fresh \/ Elsewhere(r, id)
    /\ r.at \in Storing =>
          \A id \in r.fresh \cap GoodIn(r) : /\ id \in r.left \/ (id \in r.wrote /\ Kept(r, id))
                                             /\ ~Elsewhere(r, id)
    /\ r.at = "again" => jobs[r.moving].target = Of(r)

\* Openings that count as stored are shown, by another source than the one that asks.
StoredShown(r) ==
    \A o \in r.stored : \E j \in Ids :
        /\ Shows(j, o[1], o[2]) /\ SourceOf[j] \notin r.todo
        /\ r.at \in Collecting /\ SourceOf[j] = r.source =>
              j \in GoodIn(r) /\ r.found[j].employer = o[1] /\ o[1] \notin r.groups

\* No opening is open under two sources, but for a row that has moved and is not yet
\* written again.
Moving(i) == \E p \in Procs : run[p].at = "again" /\ run[p].moving = i
NoneTwice ==
    \A i, j \in Ids :
        (/\ SourceOf[i] # SourceOf[j] /\ ~Moving(i) /\ ~Moving(j)
         /\ jobs[i].status = "open" /\ jobs[j].status = "open"
         /\ jobs[i].target[2] = jobs[j].target[2])
        => <<jobs[i].content, jobs[j].content>> \notin Same

AloneInv == NoneTwice /\ \A p \in Procs : Visible(run[p]) /\ StoredShown(run[p])

\* What a run sees of the table depends on what it has found only.
LEMMA SameView ==
    ASSUME NEW q, NEW r, r.source = q.source, r.found = q.found
    PROVE  /\ GoodIn(r) = GoodIn(q)
           /\ \A i : Kept(r, i) <=> Kept(q, i)
           /\ \A i : Elsewhere(r, i) <=> Elsewhere(q, i)
BY DEF GoodIn, Kept, Elsewhere

\* There is one process.
LEMMA Alone == ASSUME Undisturbed, NEW p \in Procs PROVE \A q \in Procs : q = p
BY DEF Undisturbed

LEMMA Conclude ==
    ASSUME Undisturbed, NEW p \in Procs, NEW r, run'[p] = r, NoneTwice', Visible(r)', StoredShown(r)'
    PROVE  AloneInv'
BY Alone DEF AloneInv

\* Nothing changes in the table.
LEMMA SameTable ==
    ASSUME Undisturbed, CollectInv, AloneInv, NEW p \in Procs, run[p].at # "again", UNCHANGED jobs,
           NEW r, run' = [run EXCEPT ![p] = r], Visible(r), StoredShown(r)
    PROVE  AloneInv'
<1>1. \A i \in Ids : ~Moving(i)
  BY Alone DEF Moving
<1>2. NoneTwice'
  BY <1>1 DEF AloneInv, NoneTwice
<1>3. Visible(r)' /\ StoredShown(r)'
  BY DEF Visible, StoredShown, Kept, Elsewhere, Shows, GoodIn, Of
<1>4. run'[p] = r
  BY DEF CollectInv
<1>5. QED BY <1>2, <1>3, <1>4, Conclude

\* What a run holds, in one place.
LEMMA HasIs ==
    ASSUME CollectInv, AloneInv, NEW p \in Procs
    PROVE  /\ run[p] \in RunState /\ Work(run[p]) /\ Visible(run[p]) /\ StoredShown(run[p])
           /\ Target(p) = Of(run[p]) /\ Good(p) = GoodIn(run[p])
           /\ \A id \in DOMAIN run[p].found : id \in Ids /\ SourceOf[id] = run[p].source
BY RunIs, FoundIs DEF AloneInv, Good, GoodIn, Work

LEMMA StartAlone ==
    ASSUME Undisturbed, CollectInv, AloneInv, NEW p \in Procs, StartRun(p) \/ FinishRun(p) PROVE AloneInv'
<1>1. CASE StartRun(p)
  <2>1. PICK S : run' = [run EXCEPT ![p] = [NotRunning EXCEPT !.at = "next", !.todo = S]]
    BY <1>1 DEF StartRun
  <2>2. PICK r : r = [NotRunning EXCEPT !.at = "next", !.todo = S]
    OBVIOUS
  <2>3. Visible(r) /\ StoredShown(r)
    BY <2>2 DEF Visible, StoredShown, NotRunning, Collecting, Grouping, Storing
  <2>4. QED BY <1>1, <2>1, <2>2, <2>3, SameTable DEF StartRun, Idle
<1>2. CASE FinishRun(p)
  <2>1. Visible(NotRunning) /\ StoredShown(NotRunning)
    BY DEF Visible, StoredShown, NotRunning, Collecting, Grouping, Storing
  <2>2. QED BY <1>2, <2>1, SameTable DEF FinishRun
<1>3. QED BY <1>1, <1>2

LEMMA CollectAlone ==
    ASSUME Undisturbed, CollectInv, AloneInv, NEW p \in Procs, NEW s \in Sources, Collect(p, s) \/ CollectFails(p, s)
    PROVE  AloneInv'
<1>1. /\ run[p].at = "next" /\ s \in run[p].todo /\ UNCHANGED jobs
      /\ run[p] \in RunState /\ StoredShown(run[p])
  BY HasIs DEF Collect, CollectFails
<1>2. CASE Collect(p, s)
  <2>1. PICK f : run' = [run EXCEPT ![p].at = "group", ![p].todo = @ \ {s}, ![p].source = s,
                             ![p].found = f, ![p].touched = {},
                             ![p].groups = {f[id].employer : id \in DOMAIN f}]
    BY <1>2 DEF Collect
  <2>2. PICK r : r = [run[p] EXCEPT !.at = "group", !.todo = @ \ {s}, !.source = s, !.found = f, !.touched = {},
                               !.groups = {f[id].employer : id \in DOMAIN f}]
    OBVIOUS
  <2>3. run' = [run EXCEPT ![p] = r]
    BY <2>1, <2>2
  <2>4. /\ r.at = "group" /\ r.todo = run[p].todo \ {s} /\ r.source = s /\ r.found = f
        /\ r.groups = {f[id].employer : id \in DOMAIN f} /\ r.stored = run[p].stored
    BY <1>1, <2>2 DEF RunState
  <2>5. Visible(r)
    BY <2>4 DEF Visible, GoodIn, Grouping, Storing
  <2>6. StoredShown(r)
    BY <1>1, <2>4 DEF StoredShown
  <2>7. QED BY <1>1, <2>3, <2>5, <2>6, SameTable
<1>3. CASE CollectFails(p, s)
  <2>1. PICK r : r = [run[p] EXCEPT !.todo = @ \ {s}]
    OBVIOUS
  <2>2. run' = [run EXCEPT ![p] = r]
    BY <1>3, <2>1 DEF CollectFails
  <2>3. r.at = "next" /\ r.todo = run[p].todo \ {s} /\ r.stored = run[p].stored
    BY <1>1, <2>1 DEF RunState
  <2>4. Visible(r) /\ StoredShown(r)
    BY <1>1, <2>3 DEF Visible, StoredShown, Collecting, Grouping, Storing
  <2>5. QED BY <1>1, <2>2, <2>4, SameTable
<1>4. QED BY <1>2, <1>3

\* An opening that counts as stored is visible through another source.
LEMMA StoredElsewhere ==
    ASSUME CollectInv, AloneInv, NEW p \in Procs, run[p].at = "group",
           NEW id \in GoodIn(run[p]), run[p].found[id].employer \in run[p].groups,
           OpeningStored(p, run[p].found[id].employer, run[p].found[id].says)
    PROVE  Elsewhere(run[p], id)
<1>1. PICK o \in run[p].stored : o[1] = run[p].found[id].employer /\ <<o[2], run[p].found[id].says>> \in Same
  BY DEF OpeningStored
<1>2. PICK j \in Ids : Shows(j, o[1], o[2]) /\ SourceOf[j] # run[p].source
  BY <1>1, HasIs DEF StoredShown, Collecting
<1>3. QED BY <1>1, <1>2 DEF Elsewhere, Shows

LEMMA GroupAlone ==
    ASSUME Undisturbed, CollectInv, AloneInv, NEW p \in Procs, NEW e \in Employers, Group(p, e) PROVE AloneInv'
<1> DEFINE t == <<run[p].source, e>>
           go == t \in registered \/ FreshOf(p, e) # {}
<1>1. PICK r : r = [run[p] EXCEPT !.at = IF go THEN "check" ELSE "group", !.employer = e,
                                  !.groups = IF go THEN @ ELSE @ \ {e},
                                  !.touched = IF go THEN @ \cup {t} ELSE @,
                                  !.fresh = IF go THEN FreshOf(p, e) ELSE {}, !.wrote = {}]
  OBVIOUS
<1>2. run' = [run EXCEPT ![p] = r] /\ UNCHANGED jobs /\ run[p].at = "group" /\ e \in run[p].groups
  BY <1>1 DEF Group
<1>3. /\ run[p] \in RunState /\ Visible(run[p]) /\ StoredShown(run[p]) /\ Good(p) = GoodIn(run[p])
  BY HasIs
<1>4. /\ r.source = run[p].source /\ r.found = run[p].found /\ r.todo = run[p].todo
      /\ r.employer = e /\ r.stored = run[p].stored
      /\ go => r.at = "check" /\ r.fresh = FreshOf(p, e) /\ r.groups = run[p].groups
      /\ ~go => r.at = "group" /\ r.groups = run[p].groups \ {e}
  BY <1>1, <1>3 DEF RunState
<1>5. ASSUME NEW id \in GoodIn(run[p]), run[p].found[id].employer = e, id \notin FreshOf(p, e)
      PROVE  Elsewhere(run[p], id)
  <2>1. id \notin EndedIds(p) /\ id \in DOMAIN run[p].found
    BY CollectorsAssumption DEF GoodIn, EndedIds
  <2>2. OpeningStored(p, e, run[p].found[id].says)
    BY <1>3, <1>5, <2>1 DEF FreshOf
  <2>3. QED BY <1>2, <1>5, <2>2, StoredElsewhere
<1>6. ~go => FreshOf(p, e) = {}
  OBVIOUS
<1> HIDE DEF go, t
<1>7. Visible(r)
  <2>1. /\ GoodIn(r) = GoodIn(run[p])
        /\ \A i : Kept(r, i) <=> Kept(run[p], i)
        /\ \A i : Elsewhere(r, i) <=> Elsewhere(run[p], i)
    BY <1>4, SameView
  <2>2. /\ run[p].at \in Collecting /\ r.at \in Collecting /\ r.at \notin Storing /\ r.at # "again"
        /\ r.at \in Grouping => go
    BY <1>2, <1>4 DEF Collecting, Grouping, Storing
  <2>3. r.source \notin r.todo
    BY <1>3, <1>4, <2>2 DEF Visible
  <2>4. ASSUME NEW i \in GoodIn(r), r.found[i].employer \notin r.groups PROVE Kept(r, i) \/ Elsewhere(r, i)
    <3>1. CASE r.found[i].employer \notin run[p].groups
      BY <1>3, <1>4, <2>1, <2>2, <3>1 DEF Visible
    <3>2. CASE ~go /\ r.found[i].employer = e
      BY <1>4, <1>5, <1>6, <2>1, <3>2
    <3>3. QED BY <1>4, <2>4, <3>1, <3>2
  <2>5. ASSUME go, NEW i \in GoodIn(r), r.found[i].employer = r.employer PROVE i \in r.fresh \/ Elsewhere(r, i)
    BY <1>4, <1>5, <2>1, <2>5
  <2>6. QED BY <2>2, <2>3, <2>4, <2>5 DEF Visible
<1>8. StoredShown(r)
  BY <1>2, <1>3, <1>4 DEF StoredShown, GoodIn, Collecting, Grouping, Storing
<1>9. QED BY <1>2, <1>7, <1>8, SameTable

LEMMA CheckAlone ==
    ASSUME Undisturbed, CollectInv, AloneInv, NEW p \in Procs, Check(p) PROVE AloneInv'
<1> DEFINE F == DropOpenings(p, OpenOpenings(run[p].employer, run[p].source))
<1>1. PICK r : r = [run[p] EXCEPT !.at = "store", !.fresh = F, !.left = F]
  OBVIOUS
<1>2. run' = [run EXCEPT ![p] = r] /\ UNCHANGED jobs /\ run[p].at = "check"
  BY <1>1 DEF Check
<1>3. /\ run[p] \in RunState /\ Work(run[p]) /\ Visible(run[p]) /\ StoredShown(run[p])
      /\ Good(p) = GoodIn(run[p])
  BY HasIs
<1>4. /\ r.source = run[p].source /\ r.found = run[p].found /\ r.todo = run[p].todo
      /\ r.employer = run[p].employer /\ r.stored = run[p].stored /\ r.groups = run[p].groups
      /\ r.at = "store" /\ r.fresh = F /\ r.left = F
  BY <1>1, <1>3 DEF RunState
<1>5. ASSUME NEW id \in run[p].fresh \cap GoodIn(run[p])
      PROVE  id \notin F <=> Elsewhere(run[p], id)
  <2>1. run[p].found[id].employer = run[p].employer
    BY <1>3 DEF Work
  <2>2. id \notin F <=> \E c \in OpenOpenings(run[p].employer, run[p].source) : <<c, run[p].found[id].says>> \in Same
    BY <1>3 DEF DropOpenings
  <2>3. QED BY <2>1, <2>2 DEF OpenOpenings, Elsewhere
<1>6. F \subseteq run[p].fresh
  BY DEF DropOpenings
<1> HIDE DEF F
<1>7. Visible(r)
  <2>1. /\ GoodIn(r) = GoodIn(run[p])
        /\ \A i : Kept(r, i) <=> Kept(run[p], i)
        /\ \A i : Elsewhere(r, i) <=> Elsewhere(run[p], i)
    BY <1>4, SameView
  <2>2. /\ run[p].at \in Collecting /\ run[p].at \in Grouping
        /\ r.at \in Collecting /\ r.at \in Grouping /\ r.at # "again"
    BY <1>2, <1>4 DEF Collecting, Grouping, Storing
  <2>3. /\ r.source \notin r.todo
        /\ \A i \in GoodIn(r) : r.found[i].employer \notin r.groups => Kept(r, i) \/ Elsewhere(r, i)
    BY <1>3, <1>4, <2>1, <2>2 DEF Visible
  <2>4. ASSUME NEW i \in GoodIn(r), r.found[i].employer = r.employer PROVE i \in r.fresh \/ Elsewhere(r, i)
    <3>1. i \in run[p].fresh \/ Elsewhere(run[p], i)
      BY <1>3, <1>4, <2>1, <2>2, <2>4 DEF Visible
    <3>2. QED BY <1>4, <1>5, <2>1, <3>1
  <2>5. ASSUME NEW i \in r.fresh \cap GoodIn(r) PROVE i \in r.left /\ ~Elsewhere(r, i)
    BY <1>4, <1>5, <1>6, <2>1
  <2>6. QED BY <2>2, <2>3, <2>4, <2>5 DEF Visible
<1>8. StoredShown(r)
  BY <1>2, <1>3, <1>4 DEF StoredShown, GoodIn, Collecting, Grouping, Storing
<1>9. QED BY <1>2, <1>7, <1>8, SameTable

LEMMA SameIs == ASSUME NEW c, NEW d, <<c, d>> \in Same PROVE <<d, c>> \in Same
<1>1. c \in Contents /\ d \in Contents
  BY CollectorsAssumption
<1>2. QED BY <1>1, CollectorsAssumption

\* A row that is written shows what was found, and nobody else's does.
LEMMA WriteAlone ==
    ASSUME Undisturbed, CollectInv, AloneInv, NEW p \in Procs, run[p].at \in {"store", "again"},
           NEW id \in run[p].left, id \in Good(p), Write(p, id), run[p].at = "again" => id = run[p].moving
    PROVE  AloneInv'
<1>1. PICK r : r = [run[p] EXCEPT !.at = "store", !.left = @ \ {id}, !.wrote = @ \cup {id}]
  OBVIOUS
<1>2. /\ run' = [run EXCEPT ![p] = r]
      /\ jobs' = Upserted(jobs, Target(p), id, run[p].found[id].says)
  BY <1>1 DEF Write
<1>3. /\ run[p] \in RunState /\ Work(run[p]) /\ Visible(run[p]) /\ StoredShown(run[p])
      /\ Target(p) = Of(run[p]) /\ id \in GoodIn(run[p]) /\ Filed
      /\ id \in Ids /\ SourceOf[id] = run[p].source /\ run'[p] = r
  BY <1>2, HasIs DEF CollectInv, Work
<1>4. /\ r.source = run[p].source /\ r.found = run[p].found /\ r.todo = run[p].todo
      /\ r.employer = run[p].employer /\ r.stored = run[p].stored /\ r.groups = run[p].groups
      /\ r.fresh = run[p].fresh /\ r.at = "store" /\ r.left = run[p].left \ {id}
      /\ r.wrote = run[p].wrote \cup {id}
  BY <1>1, <1>3 DEF RunState
<1>5. /\ \A j \in Ids \ {id} : jobs'[j] = jobs[j]
      /\ jobs'[id] = [status |-> "open", target |-> Of(run[p]), content |-> run[p].found[id].says, age |-> 0]
  BY <1>2, <1>3 DEF Upserted, Filed, Table
<1>6. /\ id \in run[p].fresh /\ run[p].found[id].employer = run[p].employer
      /\ run[p].employer \in run[p].groups /\ ~Elsewhere(run[p], id)
  BY <1>3 DEF Work, Visible, Storing
<1>7. \A i \in DOMAIN run[p].found : i \in Ids
  BY HasIs
<1>8. Visible(r)'
  <2>1. \A i \in GoodIn(r) : Elsewhere(r, i)' <=> Elsewhere(run[p], i)
    <3>1. \A j \in Ids : SourceOf[j] # run[p].source => jobs'[j] = jobs[j]
      BY <1>3, <1>5
    <3>2. QED BY <1>4, <3>1 DEF Elsewhere
  <2>2. \A i \in GoodIn(r) \ {id} : Kept(r, i)' <=> Kept(run[p], i)
    <3>1. ASSUME NEW i \in GoodIn(r) \ {id} PROVE jobs'[i] = jobs[i]
      BY <1>4, <1>5, <1>7 DEF GoodIn
    <3>2. QED BY <1>4, <3>1 DEF Kept, Shows
  <2>3. Kept(r, id)'
    BY <1>3, <1>4, <1>5, <1>6 DEF Kept, Shows, Of
  <2>4. GoodIn(r)' = GoodIn(r) /\ GoodIn(r) = GoodIn(run[p]) /\ run[p].at \in Storing
    BY <1>4 DEF GoodIn, Storing
  <2>5. \A i \in GoodIn(r) : r.found[i].employer \notin r.groups => Kept(r, i)' \/ Elsewhere(r, i)'
    BY <1>3, <1>4, <1>6, <2>1, <2>2, <2>4 DEF Visible, Collecting, Grouping
  <2>6. \A i \in GoodIn(r) : r.found[i].employer = r.employer => i \in r.fresh \/ Elsewhere(r, i)'
    BY <1>3, <1>4, <2>1, <2>4 DEF Visible, Grouping
  <2>7. \A i \in r.fresh \cap GoodIn(r) :
            (i \in r.left \/ (i \in r.wrote /\ Kept(r, i)')) /\ ~Elsewhere(r, i)'
    BY <1>3, <1>4, <2>1, <2>2, <2>3, <2>4 DEF Visible
  <2>8. r.source \notin r.todo
    BY <1>3, <1>4, <2>4 DEF Visible, Collecting, Grouping
  <2>9. QED BY <1>4, <2>4, <2>5, <2>6, <2>7, <2>8 DEF Visible
<1>9. StoredShown(r)'
  <2>1. run[p].at \in Collecting /\ GoodIn(r)' = GoodIn(run[p])
    BY <1>4 DEF Collecting, Grouping, Storing, GoodIn
  <2>2. ASSUME NEW o \in r.stored
        PROVE  \E j \in Ids : /\ Shows(j, o[1], o[2])' /\ SourceOf[j] \notin r.todo
                              /\ SourceOf[j] = r.source =>
                                    j \in GoodIn(run[p]) /\ r.found[j].employer = o[1] /\ o[1] \notin r.groups
    <3>1. PICK j \in Ids : /\ Shows(j, o[1], o[2]) /\ SourceOf[j] \notin r.todo
                           /\ SourceOf[j] = r.source =>
                                 j \in GoodIn(run[p]) /\ r.found[j].employer = o[1] /\ o[1] \notin r.groups
      BY <1>3, <1>4, <2>1 DEF StoredShown
    <3>2. j # id
      BY <1>3, <1>4, <1>6, <3>1
    <3>3. QED BY <1>5, <3>1, <3>2 DEF Shows
  <2>3. QED BY <1>4, <2>1, <2>2 DEF StoredShown
<1>10. NoneTwice'
  <2>1. \A i \in Ids \ {id} : ~Moving(i)
    BY Alone DEF Moving
  <2>2. ASSUME NEW j \in Ids, SourceOf[j] # SourceOf[id], jobs'[j].status = "open",
               jobs'[j].target[2] = jobs'[id].target[2]
        PROVE  /\ <<jobs'[j].content, jobs'[id].content>> \notin Same
               /\ <<jobs'[id].content, jobs'[j].content>> \notin Same
    <3>1. jobs'[j] = jobs[j] /\ jobs[j].target[2] = run[p].found[id].employer
      BY <1>5, <1>6, <2>2 DEF Of
    <3>2. <<jobs[j].content, run[p].found[id].says>> \notin Same
      BY <1>3, <1>6, <2>2, <3>1 DEF Elsewhere
    <3>3. QED BY <1>5, <3>1, <3>2, SameIs
  <2>3. ASSUME NEW i \in Ids, NEW j \in Ids, SourceOf[i] # SourceOf[j],
               jobs'[i].status = "open", jobs'[j].status = "open",
               jobs'[i].target[2] = jobs'[j].target[2]
        PROVE  <<jobs'[i].content, jobs'[j].content>> \notin Same
    <3>1. CASE i = id \/ j = id
      BY <2>2, <2>3, <3>1
    <3>2. CASE i # id /\ j # id
      BY <1>5, <2>1, <2>3, <3>2 DEF AloneInv, NoneTwice
    <3>3. QED BY <3>1, <3>2
  <2>4. QED BY <2>3 DEF NoneTwice
<1>11. QED BY <1>3, <1>8, <1>9, <1>10, Conclude

LEMMA StoreAlone ==
    ASSUME Undisturbed, CollectInv, AloneInv, NEW p \in Procs, NEW id \in Ids, Store(p, id) PROVE AloneInv'
<1>1. run[p].at = "store" /\ id \in run[p].left
  BY DEF Store
<1>2. /\ run[p] \in RunState /\ Visible(run[p]) /\ StoredShown(run[p]) /\ Good(p) = GoodIn(run[p])
  BY HasIs
<1>3. CASE id \notin Good(p) /\ Skip(p, id)
  <2>1. PICK r : r = [run[p] EXCEPT !.at = "store", !.left = @ \ {id}]
    OBVIOUS
  <2>2. run' = [run EXCEPT ![p] = r] /\ UNCHANGED jobs
    BY <1>3, <2>1 DEF Skip
  <2>3. /\ r.source = run[p].source /\ r.found = run[p].found /\ r.todo = run[p].todo
        /\ r.employer = run[p].employer /\ r.stored = run[p].stored /\ r.groups = run[p].groups
        /\ r.fresh = run[p].fresh /\ r.wrote = run[p].wrote /\ r.at = "store" /\ r.left = run[p].left \ {id}
    BY <1>2, <2>1 DEF RunState
  <2>4. Visible(r)
    <3>1. /\ run[p].at \in Storing /\ run[p].at \in Grouping /\ run[p].at \in Collecting
          /\ r.at \in Storing /\ r.at # "again"
      BY <1>1, <2>3 DEF Collecting, Grouping, Storing
    <3>2. GoodIn(r) = GoodIn(run[p]) /\ id \notin GoodIn(r)
      BY <1>2, <1>3, <2>3 DEF GoodIn
    <3>3. \A i \in GoodIn(r) : (Kept(r, i) <=> Kept(run[p], i)) /\ (Elsewhere(r, i) <=> Elsewhere(run[p], i))
      BY <2>3, SameView
    <3>4. r.source \notin r.todo
      BY <1>2, <2>3, <3>1 DEF Visible
    <3>5. \A i \in GoodIn(r) : r.found[i].employer \notin r.groups => Kept(r, i) \/ Elsewhere(r, i)
      BY <1>2, <2>3, <3>1, <3>2, <3>3 DEF Visible
    <3>6. \A i \in GoodIn(r) : r.found[i].employer = r.employer => i \in r.fresh \/ Elsewhere(r, i)
      BY <1>2, <2>3, <3>1, <3>2, <3>3 DEF Visible
    <3>7. \A i \in r.fresh \cap GoodIn(r) : (i \in r.left \/ (i \in r.wrote /\ Kept(r, i))) /\ ~Elsewhere(r, i)
      BY <1>2, <2>3, <3>1, <3>2, <3>3 DEF Visible
    <3>8. QED BY <3>1, <3>4, <3>5, <3>6, <3>7 DEF Visible
  <2>5. StoredShown(r)
    BY <1>1, <1>2, <2>3 DEF StoredShown, GoodIn, Collecting, Grouping, Storing
  <2>6. QED BY <1>1, <2>2, <2>4, <2>5, SameTable
<1>4. CASE id \in Good(p) /\ Write(p, id)
  BY <1>1, <1>4, WriteAlone
<1>5. CASE UNCHANGED jobs /\ run' = [run EXCEPT ![p].at = "move", ![p].moving = id]
  <2>1. PICK r : r = [run[p] EXCEPT !.at = "move", !.moving = id]
    OBVIOUS
  <2>2. run' = [run EXCEPT ![p] = r]
    BY <1>5, <2>1
  <2>3. /\ r.source = run[p].source /\ r.found = run[p].found /\ r.todo = run[p].todo
        /\ r.employer = run[p].employer /\ r.stored = run[p].stored /\ r.groups = run[p].groups
        /\ r.fresh = run[p].fresh /\ r.wrote = run[p].wrote /\ r.at = "move" /\ r.left = run[p].left
    BY <1>2, <2>1 DEF RunState
  <2>4. Visible(r)
    <3>1. /\ GoodIn(r) = GoodIn(run[p])
          /\ \A i : Kept(r, i) <=> Kept(run[p], i)
          /\ \A i : Elsewhere(r, i) <=> Elsewhere(run[p], i)
      BY <2>3, SameView
    <3>2. /\ run[p].at \in Storing /\ run[p].at \in Grouping /\ run[p].at \in Collecting
          /\ r.at \in Storing /\ r.at # "again"
      BY <1>1, <2>3 DEF Collecting, Grouping, Storing
    <3>3. QED BY <1>2, <2>3, <3>1, <3>2 DEF Visible
  <2>5. StoredShown(r)
    BY <1>1, <1>2, <2>3 DEF StoredShown, GoodIn, Collecting, Grouping, Storing
  <2>6. QED BY <1>1, <1>5, <2>2, <2>4, <2>5, SameTable
<1>6. QED BY <1>3, <1>4, <1>5 DEF Store

\* A row that changes hands is not looked at until it is written again.
LEMMA MoveAlone == ASSUME Undisturbed, CollectInv, AloneInv, NEW p \in Procs, MoveJob(p) PROVE AloneInv'
<1> DEFINE m == run[p].moving
<1>1. PICK r : r = [run[p] EXCEPT !.at = "again"]
  OBVIOUS
<1>2. /\ run' = [run EXCEPT ![p] = r] /\ run[p].at = "move"
      /\ jobs' = [jobs EXCEPT ![m].target = Target(p)]
  BY <1>1 DEF MoveJob, Goto
<1>3. /\ run[p] \in RunState /\ Work(run[p]) /\ Visible(run[p]) /\ StoredShown(run[p])
      /\ Target(p) = Of(run[p]) /\ Filed /\ m \in run[p].left /\ jobs[m] # NoRow /\ run'[p] = r
  BY <1>2, HasIs DEF CollectInv, Work
<1>4. /\ r.source = run[p].source /\ r.found = run[p].found /\ r.todo = run[p].todo
      /\ r.employer = run[p].employer /\ r.stored = run[p].stored /\ r.groups = run[p].groups
      /\ r.fresh = run[p].fresh /\ r.at = "again" /\ r.left = run[p].left /\ r.moving = m
      /\ r.wrote = run[p].wrote
  BY <1>1, <1>3 DEF RunState
<1>5. m \in Ids /\ SourceOf[m] = run[p].source /\ m \in DOMAIN run[p].found /\ jobs[m] \in Row
  BY <1>3, HasIs DEF Work, Filed, Table
<1>6. /\ \A j \in Ids \ {m} : jobs'[j] = jobs[j]
      /\ jobs'[m].target = Of(run[p])
  BY <1>2, <1>3, <1>5 DEF Filed, Table, Row
<1>7. /\ m \in run[p].fresh /\ run[p].found[m].employer = run[p].employer
      /\ run[p].employer \in run[p].groups /\ m \notin run[p].wrote
  BY <1>2, <1>3 DEF Work
<1>8. \A i \in DOMAIN run[p].found : i \in Ids
  BY HasIs
<1> HIDE DEF m
<1>9. /\ \A i \in GoodIn(r) : Elsewhere(r, i)' <=> Elsewhere(run[p], i)
      /\ \A i \in GoodIn(r) \ {m} : Kept(r, i)' <=> Kept(run[p], i)
      /\ GoodIn(r)' = GoodIn(r) /\ GoodIn(r) = GoodIn(run[p])
      /\ run[p].at \in Storing
  <2>1. ASSUME NEW i \in GoodIn(r) PROVE Elsewhere(r, i)' <=> Elsewhere(run[p], i)
    <3>1. \A j \in Ids : SourceOf[j] # run[p].source => jobs'[j] = jobs[j]
      BY <1>5, <1>6
    <3>2. QED BY <1>4, <3>1 DEF Elsewhere
  <2>2. ASSUME NEW i \in GoodIn(r) \ {m} PROVE Kept(r, i)' <=> Kept(run[p], i)
    <3>1. jobs'[i] = jobs[i]
      BY <1>4, <1>6, <1>8 DEF GoodIn
    <3>2. QED BY <1>4, <3>1 DEF Kept, Shows
  <2>3. GoodIn(r)' = GoodIn(r) /\ GoodIn(r) = GoodIn(run[p])
    BY <1>4 DEF GoodIn
  <2>4. run[p].at \in Storing
    BY <1>2 DEF Storing
  <2>5. QED BY <2>1, <2>2, <2>3, <2>4
<1>10. Visible(r)'
  <2>1. \A i \in GoodIn(r) : r.found[i].employer \notin r.groups => Kept(r, i)' \/ Elsewhere(r, i)'
    BY <1>3, <1>4, <1>7, <1>9 DEF Visible, Collecting, Grouping
  <2>2. \A i \in GoodIn(r) : r.found[i].employer = r.employer => i \in r.fresh \/ Elsewhere(r, i)'
    BY <1>3, <1>4, <1>9 DEF Visible, Grouping
  <2>3. \A i \in r.fresh \cap GoodIn(r) :
            (i \in r.left \/ (i \in r.wrote /\ Kept(r, i)')) /\ ~Elsewhere(r, i)'
    BY <1>3, <1>4, <1>7, <1>9 DEF Visible
  <2>4. jobs'[r.moving].target = Of(r) /\ r.source \notin r.todo
    BY <1>3, <1>4, <1>6, <1>9 DEF Of, Visible, Collecting, Grouping
  <2>5. QED BY <1>4, <1>9, <2>1, <2>2, <2>3, <2>4 DEF Visible, Of
<1>11. StoredShown(r)'
  <2>1. run[p].at \in Collecting
    BY <1>2 DEF Collecting, Grouping, Storing
  <2>2. ASSUME NEW o \in r.stored
        PROVE  \E j \in Ids : /\ Shows(j, o[1], o[2])' /\ SourceOf[j] \notin r.todo
                              /\ SourceOf[j] = r.source =>
                                    j \in GoodIn(r) /\ r.found[j].employer = o[1] /\ o[1] \notin r.groups
    <3>1. PICK j \in Ids : /\ Shows(j, o[1], o[2]) /\ SourceOf[j] \notin r.todo
                           /\ SourceOf[j] = r.source =>
                                 j \in GoodIn(r) /\ r.found[j].employer = o[1] /\ o[1] \notin r.groups
      BY <1>3, <1>4, <1>9, <2>1 DEF StoredShown
    <3>2. j # m
      BY <1>4, <1>5, <1>7, <3>1
    <3>3. QED BY <1>6, <3>1, <3>2 DEF Shows
  <2>3. QED BY <1>4, <1>9, <2>2 DEF StoredShown
<1>12. NoneTwice'
  <2>1. \A i \in Ids : i = m => Moving(i)'
    BY <1>3, <1>4 DEF Moving
  <2>2. \A i \in Ids : ~Moving(i)
    BY <1>2, Alone DEF Moving
  <2>3. QED BY <1>6, <2>1, <2>2 DEF AloneInv, NoneTwice
<1>13. QED BY <1>3, <1>10, <1>11, <1>12, Conclude

LEMMA AgainAlone == ASSUME Undisturbed, CollectInv, AloneInv, NEW p \in Procs, StoreAgain(p) PROVE AloneInv'
<1>1. /\ run[p].at = "again" /\ run[p].moving \in run[p].left /\ run[p].moving \in Good(p)
      /\ jobs[run[p].moving].target = Target(p)
  BY HasIs DEF StoreAgain, Work, Visible, GoodIn
<1>2. Write(p, run[p].moving)
  BY <1>1 DEF StoreAgain, Mismatch
<1>3. QED BY <1>1, <1>2, WriteAlone

-----------------------------------------------------------------------------
(* Rows that are closed.                                                   *)

\* What a statement that closes rows may do to them.
Closes(S) ==
    \A j \in Ids : jobs'[j] = jobs[j] \/ (j \in S /\ jobs[j].status = "open" /\ jobs'[j].status = "removed")

LEMMA ClosesIs == ASSUME NEW S, jobs \in Table, jobs' = Closed(jobs, S), \A j \in S : jobs[j].status = "open" PROVE Closes(S)
<1>1. ASSUME NEW j \in S, j \in Ids PROVE jobs'[j].status = "removed"
  <2>1. jobs[j] \in Row
    BY <1>1, RowIs DEF Table
  <2>2. QED BY <1>1, <2>1 DEF Closed, Row
<1>2. QED BY <1>1 DEF Closed, Closes

\* A job that a run has kept is young, and is no ended one.
Aging(t) == {j \in OpenAt(jobs, t) : jobs[j].age > StaleAfter}

LEMMA StaleIs ==
    ASSUME CollectInv, NEW t, jobs' = CloseStale(jobs, t)
    PROVE  /\ Closes(Aging(t))
           /\ \A j \in Aging(t) : j \in Ids /\ jobs[j].age # 0 /\ jobs[j].target = t /\ t[1] = SourceOf[j]
<1>1. \A j \in Aging(t) : j \in Ids /\ jobs[j].status = "open" /\ jobs[j].target = t /\ jobs[j].age > StaleAfter
  BY DEF Aging, OpenAt
<1>2. \A j \in Aging(t) : t[1] = SourceOf[j]
  BY <1>1, RowIs DEF CollectInv, Filed
<1>3. Closes(Aging(t))
  BY <1>1, ClosesIs DEF CloseStale, Aging, CollectInv, Filed
<1>4. QED BY <1>1, <1>2, <1>3, CollectorsAssumption

\* Closing rows of the run's source that no run has kept leaves visible what was.
LEMMA ClosesAlone ==
    ASSUME Undisturbed, CollectInv, AloneInv, NEW p \in Procs, run[p].at \in Collecting, run[p].at # "again",
           NEW S, Closes(S), \A j \in S : SourceOf[j] = run[p].source,
           \A j \in S \cap GoodIn(run[p]) : jobs[j].age # 0
    PROVE  /\ NoneTwice'
           /\ \A i \in GoodIn(run[p]) :
                 /\ Elsewhere(run[p], i) <=> \E j \in Ids :
                        /\ SourceOf[j] # run[p].source /\ jobs'[j].status = "open"
                        /\ jobs'[j].target[2] = run[p].found[i].employer
                        /\ <<jobs'[j].content, run[p].found[i].says>> \in Same
                 /\ Kept(run[p], i) => i \in Ids /\ jobs'[i] = jobs[i]
           /\ \A o \in run[p].stored : \E j \in Ids :
                 /\ Shows(j, o[1], o[2]) /\ jobs'[j] = jobs[j] /\ SourceOf[j] \notin run[p].todo
                 /\ SourceOf[j] = run[p].source =>
                       j \in GoodIn(run[p]) /\ run[p].found[j].employer = o[1] /\ o[1] \notin run[p].groups
<1>1. \A j \in Ids : SourceOf[j] # run[p].source \/ j \notin S => jobs'[j] = jobs[j]
  BY DEF Closes
<1>2. \A j \in GoodIn(run[p]) : j \in Ids
  BY HasIs DEF GoodIn
<1>3. \A j \in Ids : ~Moving(j)
  BY Alone DEF Moving
<1>4. \A j \in Ids : jobs'[j].status = "open" => jobs'[j] = jobs[j]
  BY DEF Closes
<1>5. NoneTwice'
  BY <1>3, <1>4 DEF AloneInv, NoneTwice
<1>6. ASSUME NEW i \in GoodIn(run[p])
      PROVE  /\ Elsewhere(run[p], i) <=> \E j \in Ids :
                    /\ SourceOf[j] # run[p].source /\ jobs'[j].status = "open"
                    /\ jobs'[j].target[2] = run[p].found[i].employer
                    /\ <<jobs'[j].content, run[p].found[i].says>> \in Same
             /\ Kept(run[p], i) => i \in Ids /\ jobs'[i] = jobs[i]
  BY <1>1, <1>2 DEF Elsewhere, Kept, Shows
<1>7. ASSUME NEW o \in run[p].stored
      PROVE  \E j \in Ids :
                 /\ Shows(j, o[1], o[2]) /\ jobs'[j] = jobs[j] /\ SourceOf[j] \notin run[p].todo
                 /\ SourceOf[j] = run[p].source =>
                       j \in GoodIn(run[p]) /\ run[p].found[j].employer = o[1] /\ o[1] \notin run[p].groups
  <2>1. PICK j \in Ids : /\ Shows(j, o[1], o[2]) /\ SourceOf[j] \notin run[p].todo
                         /\ SourceOf[j] = run[p].source =>
                               j \in GoodIn(run[p]) /\ run[p].found[j].employer = o[1] /\ o[1] \notin run[p].groups
    BY HasIs DEF StoredShown
  <2>2. jobs'[j] = jobs[j]
    BY <1>1, <2>1 DEF Shows
  <2>3. QED BY <2>1, <2>2
<1>8. QED BY <1>5, <1>6, <1>7

LEMMA CloseEndedAlone ==
    ASSUME Undisturbed, CollectInv, AloneInv, NEW p \in Procs, CloseEnded(p) PROVE AloneInv'
<1> DEFINE E == {id \in EndedIds(p) : run[p].found[id].employer = run[p].employer}
           S == OpenAt(jobs, Target(p)) \cap E
<1>1. PICK r : r = [run[p] EXCEPT !.at = "stale"]
  OBVIOUS
<1>2. /\ run' = [run EXCEPT ![p] = r] /\ run[p].at = "store" /\ run[p].left = {}
      /\ jobs' = Closed(jobs, S)
  BY <1>1 DEF CloseEnded, Goto, CloseBySourceID
<1>3. /\ run[p] \in RunState /\ Work(run[p]) /\ Visible(run[p]) /\ StoredShown(run[p])
      /\ Target(p) = Of(run[p]) /\ Filed /\ run'[p] = r
  BY <1>2, HasIs DEF CollectInv
<1>4. /\ r.source = run[p].source /\ r.found = run[p].found /\ r.todo = run[p].todo
      /\ r.employer = run[p].employer /\ r.stored = run[p].stored /\ r.groups = run[p].groups
      /\ r.fresh = run[p].fresh /\ r.at = "stale" /\ r.left = run[p].left /\ r.wrote = run[p].wrote
  BY <1>1, <1>3 DEF RunState
<1>5. \A j \in S : /\ jobs[j].status = "open" /\ SourceOf[j] = run[p].source
                   /\ j \notin GoodIn(run[p])
  <2>1. \A j \in S : j \in Ids /\ jobs[j].status = "open" /\ jobs[j].target = Target(p) /\ j \in EndedIds(p)
    BY DEF OpenAt
  <2>2. \A j \in EndedIds(p) : j \notin GoodIn(run[p])
    BY CollectorsAssumption DEF EndedIds, GoodIn
  <2>3. QED BY <1>3, <2>1, <2>2, RowIs DEF Filed, Of
<1> HIDE DEF S
<1>6. Closes(S)
  BY <1>2, <1>3, <1>5, ClosesIs DEF Filed
<1>7. run[p].at \in Collecting /\ run[p].at # "again" /\ run[p].at \in Storing
  BY <1>2 DEF Collecting, Grouping, Storing
<1>8. /\ NoneTwice'
      /\ \A i \in GoodIn(run[p]) :
            /\ Elsewhere(run[p], i) <=> Elsewhere(r, i)'
            /\ Kept(run[p], i) => Kept(r, i)'
      /\ StoredShown(r)'
      /\ GoodIn(r)' = GoodIn(run[p])
  <2>1. GoodIn(r)' = GoodIn(run[p])
    BY <1>4 DEF GoodIn
  <2>2. /\ NoneTwice'
        /\ \A i \in GoodIn(run[p]) :
              /\ Elsewhere(run[p], i) <=> \E j \in Ids :
                    /\ SourceOf[j] # run[p].source /\ jobs'[j].status = "open"
                    /\ jobs'[j].target[2] = run[p].found[i].employer
                    /\ <<jobs'[j].content, run[p].found[i].says>> \in Same
              /\ Kept(run[p], i) => i \in Ids /\ jobs'[i] = jobs[i]
        /\ \A o \in run[p].stored : \E j \in Ids :
              /\ Shows(j, o[1], o[2]) /\ jobs'[j] = jobs[j] /\ SourceOf[j] \notin run[p].todo
              /\ SourceOf[j] = run[p].source =>
                    j \in GoodIn(run[p]) /\ run[p].found[j].employer = o[1] /\ o[1] \notin run[p].groups
    BY <1>5, <1>6, <1>7, ClosesAlone
  <2>3. \A i \in GoodIn(run[p]) : (Elsewhere(run[p], i) <=> Elsewhere(r, i)') /\ (Kept(run[p], i) => Kept(r, i)')
    BY <1>4, <2>2 DEF Elsewhere, Kept, Shows
  <2>4. StoredShown(r)'
    BY <1>4, <2>1, <2>2 DEF StoredShown, Shows
  <2>5. QED BY <2>1, <2>2, <2>3, <2>4
<1>9. Visible(r)'
  BY <1>3, <1>4, <1>7, <1>8 DEF Visible, Collecting, Grouping
<1>10. QED BY <1>3, <1>8, <1>9, Conclude

LEMMA AgeOutAlone ==
    ASSUME Undisturbed, CollectInv, AloneInv, NEW p \in Procs, AgeOut(p) PROVE AloneInv'
<1> DEFINE O == {<<run[p].employer, run[p].found[id].says>> : id \in run[p].wrote}
           S == Aging(Target(p))
<1>1. PICK r : r = [run[p] EXCEPT !.at = "group", !.groups = @ \ {run[p].employer}, !.fresh = {},
                                  !.left = {}, !.wrote = {}, !.stored = @ \cup O]
  OBVIOUS
<1>2. /\ run' = [run EXCEPT ![p] = r] /\ run[p].at = "stale" /\ jobs' = CloseStale(jobs, Target(p))
  BY <1>1 DEF AgeOut, EndGroup
<1>3. /\ run[p] \in RunState /\ Work(run[p]) /\ Visible(run[p]) /\ StoredShown(run[p])
      /\ Target(p) = Of(run[p]) /\ run'[p] = r
      /\ \A id \in DOMAIN run[p].found : id \in Ids /\ SourceOf[id] = run[p].source
  BY <1>2, HasIs DEF CollectInv
<1>4. /\ r.source = run[p].source /\ r.found = run[p].found /\ r.todo = run[p].todo
      /\ r.stored = run[p].stored \cup O /\ r.groups = run[p].groups \ {run[p].employer}
      /\ r.at = "group"
  BY <1>1, <1>3 DEF RunState
<1>5. Closes(S) /\ \A j \in S : SourceOf[j] = run[p].source /\ jobs[j].age # 0
  BY <1>2, <1>3, StaleIs DEF Of
<1>6. /\ run[p].at \in Collecting /\ run[p].at # "again" /\ run[p].at \in Storing /\ run[p].at \in Grouping
      /\ r.at \in Collecting /\ r.at \notin Storing /\ r.at \notin Grouping /\ r.at # "again"
  BY <1>2, <1>4 DEF Collecting, Grouping, Storing
<1>7. \A id \in run[p].wrote : id \in run[p].fresh /\ id \in GoodIn(run[p]) /\ id \notin run[p].left
                               /\ run[p].found[id].employer = run[p].employer
  BY <1>3 DEF Work, GoodIn
<1>8. \A o \in O : \E id \in run[p].wrote : o[1] = run[p].employer /\ o[2] = run[p].found[id].says
  OBVIOUS
<1> HIDE DEF S, O
<1>9. /\ NoneTwice'
      /\ \A i \in GoodIn(run[p]) :
            /\ Elsewhere(run[p], i) <=> Elsewhere(r, i)'
            /\ Kept(run[p], i) => Kept(r, i)' /\ i \in Ids /\ Shows(i, r.found[i].employer, r.found[i].says)'
      /\ GoodIn(r)' = GoodIn(run[p])
  <2>1. GoodIn(r)' = GoodIn(run[p])
    BY <1>4 DEF GoodIn
  <2>2. QED BY <1>4, <1>5, <1>6, <2>1, ClosesAlone DEF Elsewhere, Kept, Shows
<1>10. Visible(r)'
  <2>1. ASSUME NEW i \in GoodIn(run[p]), run[p].found[i].employer \notin r.groups
        PROVE  Kept(run[p], i) \/ Elsewhere(run[p], i)
    <3>1. CASE run[p].found[i].employer = run[p].employer
      <4>1. run[p].left = {}
        BY <1>2, <1>3 DEF Work
      <4>2. QED BY <1>3, <1>6, <3>1, <4>1 DEF Visible
    <3>2. CASE run[p].found[i].employer # run[p].employer
      BY <1>3, <1>4, <1>6, <2>1, <3>2 DEF Visible
    <3>3. QED BY <3>1, <3>2
  <2>2. r.source \notin r.todo
    BY <1>3, <1>4, <1>6 DEF Visible
  <2>3. QED BY <1>4, <1>6, <1>9, <2>1, <2>2 DEF Visible
<1>11. StoredShown(r)'
  <2>1. ASSUME NEW o \in r.stored
        PROVE  \E j \in Ids : /\ Shows(j, o[1], o[2])' /\ SourceOf[j] \notin r.todo
                              /\ SourceOf[j] = r.source =>
                                    j \in GoodIn(run[p]) /\ r.found[j].employer = o[1] /\ o[1] \notin r.groups
    <3>1. CASE o \in run[p].stored
      <4>1. PICK j \in Ids : /\ Shows(j, o[1], o[2]) /\ jobs'[j] = jobs[j] /\ SourceOf[j] \notin run[p].todo
                             /\ SourceOf[j] = run[p].source =>
                                   j \in GoodIn(run[p]) /\ run[p].found[j].employer = o[1] /\ o[1] \notin run[p].groups
        BY <1>5, <1>6, <3>1, ClosesAlone
      <4>2. QED BY <1>4, <4>1 DEF Shows
    <3>2. CASE o \in O
      <4>1. PICK id \in run[p].wrote : o[1] = run[p].employer /\ o[2] = run[p].found[id].says
        BY <1>8, <3>2
      <4>2. Kept(run[p], id)
        BY <1>3, <1>6, <1>7, <4>1 DEF Visible
      <4>3. /\ id \in Ids /\ Shows(id, o[1], o[2])' /\ id \in GoodIn(run[p])
            /\ run[p].found[id].employer = run[p].employer
        BY <1>4, <1>7, <1>9, <4>1, <4>2
      <4>4. SourceOf[id] \notin r.todo
        BY <1>3, <1>4, <1>6, <4>3 DEF Visible, GoodIn
      <4>5. QED BY <1>4, <4>1, <4>3, <4>4
    <3>3. QED BY <1>4, <2>1, <3>1, <3>2
  <2>2. QED BY <1>9, <2>1 DEF StoredShown
<1>12. QED BY <1>3, <1>9, <1>10, <1>11, Conclude

LEMMA AbsentAlone ==
    ASSUME Undisturbed, CollectInv, AloneInv, NEW p \in Procs, NEW t \in Targets, AgeOutAbsent(p, t)
    PROVE  AloneInv'
<1>1. PICK r : r = [run[p] EXCEPT !.absent = @ \ {t}]
  OBVIOUS
<1>2. /\ run' = [run EXCEPT ![p] = r] /\ run[p].at = "absent" /\ t \in run[p].absent
      /\ jobs' = CloseStale(jobs, t)
  BY <1>1 DEF AgeOutAbsent
<1>3. /\ run[p] \in RunState /\ Work(run[p]) /\ Visible(run[p]) /\ StoredShown(run[p]) /\ run'[p] = r
  BY <1>2, HasIs DEF CollectInv
<1>4. /\ r.source = run[p].source /\ r.found = run[p].found /\ r.todo = run[p].todo
      /\ r.stored = run[p].stored /\ r.groups = run[p].groups /\ r.at = "absent"
  BY <1>1, <1>2, <1>3 DEF RunState
<1>5. Closes(Aging(t)) /\ \A j \in Aging(t) : SourceOf[j] = run[p].source /\ jobs[j].age # 0
  BY <1>2, <1>3, StaleIs DEF Work
<1>6. /\ run[p].at \in Collecting /\ run[p].at # "again"
      /\ r.at \in Collecting /\ r.at \notin Storing /\ r.at \notin Grouping /\ r.at # "again"
  BY <1>2, <1>4 DEF Collecting, Grouping, Storing
<1>7. /\ NoneTwice'
      /\ \A i \in GoodIn(run[p]) :
            /\ Elsewhere(run[p], i) <=> Elsewhere(r, i)'
            /\ Kept(run[p], i) => Kept(r, i)'
      /\ StoredShown(r)'
      /\ GoodIn(r)' = GoodIn(run[p])
  <2>1. GoodIn(r)' = GoodIn(run[p])
    BY <1>4 DEF GoodIn
  <2>2. /\ NoneTwice'
        /\ \A i \in GoodIn(run[p]) :
              /\ Elsewhere(run[p], i) <=> \E j \in Ids :
                    /\ SourceOf[j] # run[p].source /\ jobs'[j].status = "open"
                    /\ jobs'[j].target[2] = run[p].found[i].employer
                    /\ <<jobs'[j].content, run[p].found[i].says>> \in Same
              /\ Kept(run[p], i) => i \in Ids /\ jobs'[i] = jobs[i]
        /\ \A o \in run[p].stored : \E j \in Ids :
              /\ Shows(j, o[1], o[2]) /\ jobs'[j] = jobs[j] /\ SourceOf[j] \notin run[p].todo
              /\ SourceOf[j] = run[p].source =>
                    j \in GoodIn(run[p]) /\ run[p].found[j].employer = o[1] /\ o[1] \notin run[p].groups
    BY <1>5, <1>6, ClosesAlone
  <2>3. \A i \in GoodIn(run[p]) : (Elsewhere(run[p], i) <=> Elsewhere(r, i)') /\ (Kept(run[p], i) => Kept(r, i)')
    BY <1>4, <2>2 DEF Elsewhere, Kept, Shows
  <2>4. StoredShown(r)'
    BY <1>4, <2>1, <2>2 DEF StoredShown, Shows
  <2>5. QED BY <2>1, <2>2, <2>3, <2>4
<1>8. Visible(r)'
  BY <1>3, <1>4, <1>6, <1>7 DEF Visible
<1>9. QED BY <1>3, <1>7, <1>8, Conclude

LEMMA ListTargetsAlone ==
    ASSUME Undisturbed, CollectInv, AloneInv, NEW p \in Procs, ListTargets(p) \/ EndCollector(p)
    PROVE  AloneInv'
<1>1. /\ run[p] \in RunState /\ Visible(run[p]) /\ StoredShown(run[p])
  BY HasIs
<1>2. CASE ListTargets(p)
  <2>1. PICK r : r = [run[p] EXCEPT !.at = "absent", !.absent = {t \in registered : t[1] = run[p].source}
                                                                    \ run[p].touched]
    OBVIOUS
  <2>2. run' = [run EXCEPT ![p] = r] /\ UNCHANGED jobs /\ run[p].at = "group"
    BY <1>2, <2>1 DEF ListTargets
  <2>3. /\ r.source = run[p].source /\ r.found = run[p].found /\ r.todo = run[p].todo
        /\ r.stored = run[p].stored /\ r.groups = run[p].groups /\ r.at = "absent"
    BY <1>1, <2>1 DEF RunState
  <2>4. Visible(r) /\ StoredShown(r)
    BY <1>1, <2>2, <2>3 DEF Visible, StoredShown, Kept, Elsewhere, GoodIn, Collecting, Grouping, Storing
  <2>5. QED BY <2>2, <2>4, SameTable
<1>3. CASE EndCollector(p)
  <2>1. PICK r : r = [run[p] EXCEPT !.at = "next", !.found = << >>, !.touched = {}]
    OBVIOUS
  <2>2. run' = [run EXCEPT ![p] = r] /\ UNCHANGED jobs /\ run[p].at = "absent"
    BY <1>3, <2>1 DEF EndCollector
  <2>3. r.todo = run[p].todo /\ r.stored = run[p].stored /\ r.at = "next"
    BY <1>1, <2>1 DEF RunState
  <2>4. Visible(r) /\ StoredShown(r)
    BY <1>1, <2>3 DEF Visible, StoredShown, Collecting, Grouping, Storing
  <2>5. QED BY <2>2, <2>4, SameTable
<1>4. QED BY <1>2, <1>3

\* Rows grow old while nothing runs.
LEMMA TickAlone == ASSUME CollectInv, AloneInv, Tick PROVE AloneInv'
<1>1. \A p \in Procs : run'[p] = run[p] /\ run[p].at = "idle" /\ run[p].stored = {}
  BY RunIs DEF Tick, Idle, Work
<1>2. \A p \in Procs : Visible(run[p])' /\ StoredShown(run[p])'
  BY <1>1 DEF Visible, StoredShown, Collecting, Grouping, Storing
<1>3. \A i \in Ids : jobs'[i].status = "open" =>
         /\ jobs[i].status = "open" /\ jobs'[i].target = jobs[i].target
         /\ jobs'[i].content = jobs[i].content
  <2>1. ASSUME NEW i \in Ids, jobs[i].status = "open" PROVE jobs[i] \in Row
    BY <2>1, RowIs DEF CollectInv, Filed, Table
  <2>2. ASSUME NEW i \in Ids PROVE jobs'[i] = jobs[i] \/ (jobs[i].status = "open" /\ jobs'[i] = [jobs[i] EXCEPT !.age = @ + 1])
    BY DEF Tick, Aged
  <2>3. QED BY <2>1, <2>2 DEF Row
<1>4. \A i \in Ids : ~Moving(i)
  BY <1>1 DEF Moving
<1>5. NoneTwice'
  BY <1>3, <1>4 DEF AloneInv, NoneTwice
<1>6. QED BY <1>2, <1>5 DEF AloneInv

LEMMA InitAlone == Init => AloneInv
<1> SUFFICES ASSUME Init PROVE AloneInv OBVIOUS
<1>1. \A i \in Ids : jobs[i].status = "none"
  BY RowIs DEF Init
<1>2. \A p \in Procs : run[p] = NotRunning
  BY DEF Init
<1>3. Visible(NotRunning) /\ StoredShown(NotRunning)
  BY DEF Visible, StoredShown, NotRunning, Collecting, Grouping, Storing
<1>4. QED BY <1>1, <1>2, <1>3 DEF AloneInv, NoneTwice

LEMMA StepAlone == ASSUME Undisturbed PROVE CollectInv /\ AloneInv /\ [Next]_vars => AloneInv'
<1> SUFFICES ASSUME CollectInv, AloneInv, [Next]_vars PROVE AloneInv' OBVIOUS
<1>1. CASE UNCHANGED vars
  <2>1. UNCHANGED <<jobs, run>>
    BY <1>1 DEF vars
  <2>2. NoneTwice'
    BY <2>1 DEF AloneInv, NoneTwice, Moving
  <2>3. ASSUME NEW p \in Procs PROVE Visible(run[p])' /\ StoredShown(run[p])'
    <3>1. Visible(run[p])'
      <4>1. /\ GoodIn(run[p])' = GoodIn(run[p]) /\ run'[p] = run[p] /\ jobs' = jobs
            /\ \A i : Kept(run[p], i)' <=> Kept(run[p], i)
            /\ \A i : Elsewhere(run[p], i)' <=> Elsewhere(run[p], i)
        BY <2>1 DEF Kept, Elsewhere, Shows, GoodIn
      <4>2. Visible(run[p])
        BY DEF AloneInv
      <4>3. QED BY <4>1, <4>2 DEF Visible, Of
    <3>2. StoredShown(run[p])'
      BY <2>1 DEF AloneInv, StoredShown, Shows, GoodIn
    <3>3. QED BY <3>1, <3>2
  <2>4. QED BY <2>2, <2>3 DEF AloneInv
<1>2. ASSUME NEW p \in Procs, Crash(p) \/ CheckFails(p) \/ MoveFails(p) \/ PersistFails(p)
                               \/ ListTargetsFails(p) \/ (\E e \in Employers : GroupFails(p, e))
                               \/ (\E t \in Targets : AgeOutAbsentFails(p, t))
      PROVE  FALSE
  BY <1>2 DEF Undisturbed, Crash, CheckFails, MoveFails, PersistFails, ListTargetsFails, GroupFails,
              AgeOutAbsentFails
<1>3. CASE Tick
  BY <1>3, TickAlone
<1>4. QED
  BY <1>1, <1>2, <1>3, StartAlone, CollectAlone, GroupAlone, CheckAlone, StoreAlone, MoveAlone, AgainAlone,
     CloseEndedAlone, AgeOutAlone, ListTargetsAlone, AbsentAlone DEF Next

\* What a closing of rows leaves visible of a listing.
StaysVisible ==
    \A p \in Procs : \A id \in Good(p) :
          (/\ run'[p] # run[p] /\ run[p].at \in {"stale", "absent"}
           /\ run[p].found[id].employer \notin run'[p].groups
           /\ jobs[id].status = "open" /\ jobs'[id].status # "open")
          => \E j \in Ids : /\ jobs'[j].status = "open"
                            /\ jobs'[j].target[2] = run[p].found[id].employer
                            /\ <<jobs'[j].content, run[p].found[id].says>> \in Same

LEMMA StepShows == ASSUME Undisturbed PROVE CollectInv /\ AloneInv /\ [Next]_vars => [StaysVisible]_vars
<1> SUFFICES ASSUME CollectInv, AloneInv, Next, NEW p \in Procs, NEW id \in Good(p),
                    run'[p] # run[p], run[p].at \in {"stale", "absent"},
                    run[p].found[id].employer \notin run'[p].groups,
                    jobs[id].status = "open", jobs'[id].status # "open"
             PROVE  \E j \in Ids : /\ jobs'[j].status = "open"
                                   /\ jobs'[j].target[2] = run[p].found[id].employer
                                   /\ <<jobs'[j].content, run[p].found[id].says>> \in Same
  BY DEF StaysVisible
<1>1. AgeOut(p) \/ \E t \in Targets : AgeOutAbsent(p, t)
  <2>1. jobs' # jobs /\ ~Tick
    BY DEF Tick
  <2>2. PICK q \in Procs :
            \/ \E i \in Ids : Store(q, i)
            \/ MoveJob(q) \/ MoveFails(q) \/ StoreAgain(q) \/ CloseEnded(q) \/ AgeOut(q)
            \/ \E t \in Targets : AgeOutAbsent(q, t)
    <3>1. ASSUME NEW q \in Procs,
                 \/ StartRun(q) \/ FinishRun(q) \/ Crash(q) \/ Check(q) \/ CheckFails(q) \/ PersistFails(q)
                 \/ ListTargets(q) \/ ListTargetsFails(q) \/ EndCollector(q)
                 \/ \E s \in Sources : Collect(q, s) \/ CollectFails(q, s)
                 \/ \E e \in Employers : Group(q, e) \/ GroupFails(q, e)
                 \/ \E t \in Targets : AgeOutAbsentFails(q, t)
          PROVE  jobs' = jobs
      BY <3>1 DEF StartRun, FinishRun, Crash, Collect, CollectFails, Group, GroupFails, Check, CheckFails,
                  CheckNothing, PersistFails, ListTargets, ListTargetsFails, AgeOutAbsentFails, EndCollector
    <3>2. QED BY <2>1, <3>1 DEF Next
  <2>3. q = p
    BY Alone
  <2>4. QED BY <2>2, <2>3 DEF Store, MoveJob, MoveFails, MoveForgotten, StoreAgain, CloseEnded
<1>2. /\ run[p] \in RunState /\ Work(run[p]) /\ Visible(run[p]) /\ Target(p) = Of(run[p])
      /\ id \in GoodIn(run[p]) /\ run \in [Procs -> RunState]
  BY HasIs DEF CollectInv
<1>3. PICK t : jobs' = CloseStale(jobs, t) /\ t[1] = run[p].source
  BY <1>1, <1>2 DEF AgeOut, AgeOutAbsent, Work, Of
<1>4. Closes(Aging(t)) /\ \A j \in Aging(t) : SourceOf[j] = run[p].source /\ jobs[j].age # 0
  BY <1>3, StaleIs
<1>5. run[p].at \in Collecting /\ run[p].at # "again"
  BY DEF Collecting, Grouping, Storing
<1>6. ~Kept(run[p], id)
  BY <1>2, <1>4, <1>5, ClosesAlone
<1>7. Elsewhere(run[p], id)
  <2>1. CASE run[p].found[id].employer \notin run[p].groups
    BY <1>2, <1>5, <1>6, <2>1 DEF Visible
  <2>2. CASE run[p].found[id].employer \in run[p].groups
    <3>1. CASE AgeOut(p)
      <4>1. /\ run'[p].groups = run[p].groups \ {run[p].employer} /\ run[p].at = "stale"
        BY <1>2, <3>1 DEF AgeOut, EndGroup, RunState
      <4>2. run[p].found[id].employer = run[p].employer /\ run[p].left = {}
        BY <1>2, <2>2, <4>1 DEF Work
      <4>3. QED BY <1>2, <1>6, <4>1, <4>2 DEF Visible, Grouping, Storing
    <3>2. CASE \E u \in Targets : AgeOutAbsent(p, u)
      BY <1>2, <2>2, <3>2 DEF AgeOutAbsent, RunState
    <3>3. QED BY <1>1, <3>1, <3>2
  <2>3. QED BY <2>1, <2>2
<1>8. QED BY <1>2, <1>4, <1>5, <1>7, ClosesAlone

LEMMA AlwaysAlone == ASSUME Undisturbed PROVE Spec => [](CollectInv /\ AloneInv)
BY InitHolds, StepKeeps, InitAlone, StepAlone, PTL DEF Spec

-----------------------------------------------------------------------------
(* Theorems.                                                               *)

\* The table, the registry and every run hold what they may: rows are of registered
\* targets of their own source, and no target is both seen and absent (Collectors.TypeOK).
THEOREM TypeCorrect == Spec => []TypeOK
<1>1. CollectInv => TypeOK
  <2> SUFFICES ASSUME CollectInv PROVE TypeOK OBVIOUS
  <2>1. \A p \in Procs : RunOK(run[p])
    BY RunIs DEF RunState, Work, RunOK
  <2>2. QED BY <2>1 DEF CollectInv, Filed, TypeOK
<1>2. QED BY <1>1, Always, PTL

\* Whoever overlaps and whatever fails, a job is closed only when its own board reports
\* it as ended or it went unseen for too long (Collectors.ClosedAgedOrEnded).
THEOREM AbsenceClosesNothing == Spec => ClosedAgedOrEnded
<1>1. CollectInv /\ [Next]_vars => [Justified]_vars
  BY StepKeeps
<1>2. QED BY <1>1, Always, PTL DEF Spec, ClosedAgedOrEnded, Justified

\* Where one invocation follows another and no statement fails, no opening of a company is
\* left open under two sources, whatever places count as the same (Collectors.ShownOnce).
THEOREM ShownFromOneSource == ASSUME Undisturbed PROVE Spec => []ShownOnce
<1>1. AloneInv => ShownOnce
  BY DEF AloneInv, NoneTwice, Moving, ShownOnce, Idle
<1>2. QED BY <1>1, AlwaysAlone, PTL

\* There, whatever a collector has kept of an employer's is open, says what was read and
\* is filed under that employer, whoever had it before (Collectors.KeptAreFiled).
THEOREM KeptIsFiled == ASSUME Undisturbed PROVE Spec => []KeptAreFiled
<1>1. CollectInv /\ AloneInv => KeptAreFiled
  <2> SUFFICES ASSUME CollectInv, AloneInv, NEW p \in Procs, run[p].at = "stale",
                      NEW id \in run[p].fresh \cap Good(p)
               PROVE  /\ jobs[id].status = "open" /\ jobs[id].target = Target(p)
                      /\ jobs[id].content = run[p].found[id].says
    BY DEF KeptAreFiled
  <2>1. /\ Work(run[p]) /\ Visible(run[p]) /\ Target(p) = Of(run[p]) /\ id \in GoodIn(run[p])
        /\ id \in Ids /\ Filed
    BY HasIs DEF CollectInv, Work
  <2>2. Kept(run[p], id) /\ run[p].found[id].employer = run[p].employer
    BY <2>1 DEF Work, Visible, Storing
  <2>3. jobs[id] \in Row
    BY <2>1, <2>2, RowIs DEF Filed, Table, Kept
  <2>4. jobs[id].target = <<jobs[id].target[1], jobs[id].target[2]>>
    BY <2>3 DEF Row, Targets
  <2>5. QED BY <2>2, <2>4 DEF Kept, Shows, Target
<1>2. QED BY <1>1, AlwaysAlone, PTL

\* There, a listing that was dropped as a duplicate may age out, but its opening stays
\* visible through another job (Collectors.ListedStaysVisible).
THEOREM ListedIsVisible == ASSUME Undisturbed PROVE Spec => ListedStaysVisible
<1>1. CollectInv /\ AloneInv /\ [Next]_vars => [StaysVisible]_vars
  BY StepShows
<1>2. QED BY <1>1, AlwaysAlone, PTL DEF Spec, ListedStaysVisible, StaysVisible
=============================================================================
