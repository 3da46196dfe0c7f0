-------------------------- MODULE EligibilityProofs --------------------------
(* Proofs about Eligibility, for any runs, jobs, batch size and versions.  *)
EXTENDS Eligibility, TLAPS

USE EligibilityAssumption

(* What the pieces of an action are. *)
LEMMA HeldTyped ==
    ASSUME TypeOK, NEW r \in Runs, run[r].at # "idle"
    PROVE  /\ run[r] \in Started
           /\ RowsOf(r) \in SUBSET Jobs
           /\ \A id \in RowsOf(r) : run[r].rows[id] \in Judged /\ Judgement(r, id) \in Verdict
<1>1. run[r] \in Started
  BY DEF TypeOK, Idle
<1>2. PICK B \in SUBSET Jobs : run[r].rows \in [B -> Judged]
  BY <1>1 DEF Started
<1>3. RowsOf(r) = B
  BY <1>2 DEF RowsOf
<1>4. \A id \in B : run[r].rows[id] \in Judged
  BY <1>2
<1>5. run[r].version \in Versions
  BY <1>1 DEF Started
<1>6. \A id \in B : Judgement(r, id) \in Verdict
  BY <1>4, <1>5 DEF Judgement, Judged, Verdict
<1>7. QED BY <1>1, <1>3, <1>4, <1>6

LEMMA NoRowsTyped == NoRows \in UNION {[B -> Judged] : B \in SUBSET Jobs}
<1>1. NoRows \in [{} -> Judged]
  BY DEF NoRows
<1>2. QED BY <1>1

LEMMA RowTyped ==
    ASSUME TypeOK, NEW id \in Jobs, jobs[id] # None
    PROVE  jobs[id] \in Row /\ HashOf(jobs[id]) \in Hash /\ InputOf(jobs[id]) \in Input
<1>1. jobs[id] \in Row
  BY DEF TypeOK
<1>2. QED BY <1>1 DEF Row, HashOf, InputOf, Hash, Input

LEMMA UpsertedTyped ==
    ASSUME TypeOK, NEW id \in Jobs, NEW text \in Texts, NEW said \in Said \cup {Unsaid},
           Upsert(id, text, said)
    PROVE  jobs' = [jobs EXCEPT ![id] = jobs'[id]] /\ jobs'[id] \in Row
<1> DEFINE remote == IF said # Unsaid THEN said
                     ELSE IF jobs[id] = None THEN Unknown ELSE jobs[id].remote
           new == [open |-> TRUE, text |-> text, said |-> said, remote |-> remote]
<1>1. remote \in Said \cup {Unknown}
  BY RowTyped DEF Row
<1>2. new \in Row
  BY <1>1 DEF Row
<1>3. jobs' = [jobs EXCEPT ![id] = new]
  BY DEF Upsert
<1> HIDE DEF new
<1>4. jobs'[id] = new
  BY <1>3 DEF TypeOK
<1>5. QED BY <1>2, <1>3, <1>4

LEMMA TypeKept == TypeOK /\ [Next]_vars => TypeOK'
<1> SUFFICES ASSUME TypeOK, [Next]_vars PROVE TypeOK' OBVIOUS
<1>1. ASSUME NEW id \in Jobs, NEW text \in Texts, NEW said \in Said \cup {Unsaid},
             Upsert(id, text, said)
      PROVE  TypeOK'
  <2>1. jobs' = [jobs EXCEPT ![id] = jobs'[id]] /\ jobs'[id] \in Row
    BY <1>1, UpsertedTyped
  <2>2. owed' \in [Runs -> SUBSET Jobs]
    BY <1>1 DEF Upsert, Disown, TypeOK
  <2>3. QED BY <1>1, <2>1, <2>2 DEF Upsert, TypeOK
<1>2. ASSUME NEW id \in Jobs, Close(id) PROVE TypeOK'
  <2>1. jobs[id] \in Row
    BY <1>2, RowTyped DEF Close, Open
  <2>2. [jobs[id] EXCEPT !.open = FALSE] \in Row
    BY <2>1 DEF Row
  <2>3. QED BY <1>2, <2>2 DEF Close, Disown, TypeOK
<1>3. ASSUME NEW r \in Runs, NEW version \in Versions, NEW force \in BOOLEAN,
             StartRun(r, version, force)
      PROVE  TypeOK'
  <2> DEFINE new == [at |-> "read", version |-> version, force |-> force,
                     after |-> 0, rows |-> NoRows]
  <2>1. new \in Started
    BY NoRowsTyped DEF Started
  <2>2. run' = [run EXCEPT ![r] = new] /\ UNCHANGED <<jobs, verdict>>
    BY <1>3 DEF StartRun
  <2>3. owed' \in [Runs -> SUBSET Jobs]
    BY <1>3 DEF StartRun, TypeOK
  <2> HIDE DEF new
  <2>4. QED BY <2>1, <2>2, <2>3 DEF TypeOK
<1>4. ASSUME NEW r \in Runs, Read(r) PROVE TypeOK'
  <2>1. PICK B \in FirstOf(Pending(r)) :
          run' = [run EXCEPT ![r].at = "save",
                     ![r].rows = [id \in B |-> [of |-> InputOf(jobs[id]),
                                                hash |-> HashOf(jobs[id])]]]
    BY <1>4 DEF Read
  <2> DEFINE rows == [id \in B |-> [of |-> InputOf(jobs[id]), hash |-> HashOf(jobs[id])]]
  <2>2. B \in SUBSET Jobs /\ \A id \in B : jobs[id] # None
    BY <2>1 DEF FirstOf, Pending, Open
  <2>3. rows \in [B -> Judged]
    BY <2>2, RowTyped DEF Judged
  <2>4. run[r] \in Started
    BY <1>4, HeldTyped DEF Read
  <2>5. rows \in UNION {[D -> Judged] : D \in SUBSET Jobs}
    BY <2>2, <2>3
  <2> HIDE DEF rows
  <2>6. [run[r] EXCEPT !.at = "save", !.rows = rows] \in Started
    BY <2>4, <2>5 DEF Started
  <2>7. run' = [run EXCEPT ![r] = [run[r] EXCEPT !.at = "save", !.rows = rows]]
    BY <2>1 DEF TypeOK, rows
  <2>8. QED BY <1>4, <2>6, <2>7 DEF Read, TypeOK
<1>5. ASSUME NEW r \in Runs, Save(r) PROVE TypeOK'
  <2>1. /\ run[r] \in Started /\ RowsOf(r) \in SUBSET Jobs
        /\ \A id \in RowsOf(r) : Judgement(r, id) \in Verdict
    BY <1>5, HeldTyped DEF Save
  <2>2. PICK last \in RowsOf(r) :
          run' = [run EXCEPT ![r].at = "read", ![r].after = last, ![r].rows = NoRows]
    BY <1>5 DEF Save
  <2>3. last \in Nat
    BY <2>1
  <2>4. [run[r] EXCEPT !.at = "read", !.after = last, !.rows = NoRows] \in Started
    BY <2>1, <2>3, NoRowsTyped DEF Started
  <2>5. run' \in [Runs -> Started \cup {Idle}]
    BY <2>2, <2>4 DEF TypeOK
  <2>6. verdict' \in [Jobs -> Verdict \cup {None}]
    BY <1>5, <2>1 DEF Save, TypeOK
  <2>7. owed' \in [Runs -> SUBSET Jobs]
    BY <1>5 DEF Save, TypeOK
  <2>8. QED BY <1>5, <2>5, <2>6, <2>7 DEF Save, TypeOK
<1>6. ASSUME NEW r \in Runs, Finish(r) \/ Stop(r) PROVE TypeOK'
  BY <1>6 DEF Finish, Stop, TypeOK
<1>7. CASE UNCHANGED vars
  BY <1>7 DEF vars, TypeOK
<1>8. QED BY <1>1, <1>2, <1>3, <1>4, <1>5, <1>6, <1>7 DEF Next, Ingestion, Work

LEMMA InitTyped == Init => TypeOK
BY DEF Init, TypeOK

\* Every variable of every reachable state has its type: the tables hold rows of
\* their schema and a run holds verdicts for jobs only.
THEOREM TypeCorrect == Spec => []TypeOK
BY InitTyped, TypeKept, PTL DEF Spec

-----------------------------------------------------------------------------
(* Verdicts and what they were made from.                                  *)

\* A judgement was made from what its hash stands for.
Agrees(j) == j.of.text = j.hash[1] /\ (j.hash[2] # Unsaid => j.of.remote = j.hash[2])

\* The inductive invariant behind JudgedAsPosted: rows keep what their source
\* states, and judgements agree, those in memory as well as those stored.
JudgedInv ==
    /\ \A id \in Jobs : jobs[id] # None /\ jobs[id].said # Unsaid
                        => jobs[id].remote = jobs[id].said
    /\ \A id \in Jobs : verdict[id] # None => Agrees(verdict[id])
    /\ \A r \in Runs : run[r].at # "idle" => \A id \in RowsOf(r) : Agrees(run[r].rows[id])

LEMMA JudgedKept == TypeOK /\ JudgedInv /\ [Next]_vars => JudgedInv'
<1> SUFFICES ASSUME TypeOK, JudgedInv, [Next]_vars PROVE JudgedInv' OBVIOUS
<1> USE DEF JudgedInv
<1>1. ASSUME NEW id \in Jobs, NEW text \in Texts, NEW said \in Said \cup {Unsaid},
             Upsert(id, text, said)
      PROVE  JudgedInv'
  BY <1>1 DEF Upsert, TypeOK, RowsOf
<1>2. ASSUME NEW id \in Jobs, Close(id) PROVE JudgedInv'
  <2>1. jobs[id] \in Row
    BY <1>2, RowTyped DEF Close, Open
  <2>2. jobs'[id].said = jobs[id].said /\ jobs'[id].remote = jobs[id].remote
    BY <1>2, <2>1 DEF Close, TypeOK, Row
  <2>3. QED BY <1>2, <2>2 DEF Close, Open, TypeOK, RowsOf
<1>3. ASSUME NEW r \in Runs, NEW version \in Versions, NEW force \in BOOLEAN,
             StartRun(r, version, force)
      PROVE  JudgedInv'
  BY <1>3 DEF StartRun, NoRows, TypeOK, RowsOf
<1>4. ASSUME NEW r \in Runs, Read(r) PROVE JudgedInv'
  <2>1. PICK B \in FirstOf(Pending(r)) :
          run' = [run EXCEPT ![r].at = "save",
                     ![r].rows = [id \in B |-> [of |-> InputOf(jobs[id]),
                                                hash |-> HashOf(jobs[id])]]]
    BY <1>4 DEF Read
  <2>2. \A id \in B : id \in Jobs /\ jobs[id] # None
    BY <2>1 DEF FirstOf, Pending, Open
  <2>3. run[r] \in Started
    BY <1>4, HeldTyped DEF Read
  <2>4. run'[r].rows = [id \in B |-> [of |-> InputOf(jobs[id]), hash |-> HashOf(jobs[id])]]
    BY <2>1, <2>3 DEF TypeOK, Started
  <2>5. \A id \in B : Agrees([of |-> InputOf(jobs[id]), hash |-> HashOf(jobs[id])])
    BY <2>2 DEF Agrees, InputOf, HashOf
  <2>6. \A id \in RowsOf(r)' : Agrees(run'[r].rows[id])
    BY <2>4, <2>5 DEF RowsOf
  <2>7. \A q \in Runs \ {r} : run'[q] = run[q]
    BY <2>1 DEF TypeOK
  <2>8. QED BY <1>4, <2>6, <2>7 DEF Read, RowsOf
<1>5. ASSUME NEW r \in Runs, Save(r) PROVE JudgedInv'
  <2>1. run[r] \in Started
    BY <1>5, HeldTyped DEF Save
  <2>2. \A id \in RowsOf(r) : Agrees(Judgement(r, id))
    BY <1>5 DEF Save, Judgement, Agrees
  <2>3. \A id \in Jobs : verdict'[id] # None => Agrees(verdict'[id])
    BY <1>5, <2>2 DEF Save
  <2>4. run'[r].rows = NoRows /\ \A q \in Runs \ {r} : run'[q] = run[q]
    BY <1>5, <2>1 DEF Save, TypeOK, Started
  <2>5. QED BY <1>5, <2>3, <2>4 DEF Save, NoRows, RowsOf
<1>6. ASSUME NEW r \in Runs, Finish(r) \/ Stop(r) PROVE JudgedInv'
  <2>1. run'[r].at = "idle" /\ \A q \in Runs \ {r} : run'[q] = run[q]
    BY <1>6 DEF Finish, Stop, Idle, TypeOK
  <2>2. UNCHANGED <<jobs, verdict>>
    BY <1>6 DEF Finish, Stop
  <2>3. QED BY <2>1, <2>2 DEF RowsOf
<1>7. CASE UNCHANGED vars
  BY <1>7 DEF vars, RowsOf
<1>8. QED BY <1>1, <1>2, <1>3, <1>4, <1>5, <1>6, <1>7 DEF Next, Ingestion, Work

\* No stored verdict passes for one of another version of the posting, however
\* many runs, of whatever versions, overlap with ingestion and with each other.
THEOREM VerdictsAreHonest == Spec => []JudgedAsPosted
<1>1. Init => JudgedInv
  BY DEF Init, JudgedInv, Idle
<1>2. JudgedInv => JudgedAsPosted
  <2> SUFFICES ASSUME JudgedInv, NEW id \in Jobs, jobs[id] # None, verdict[id] # None,
                      verdict[id].hash = HashOf(jobs[id])
               PROVE  /\ verdict[id].of.text = jobs[id].text
                      /\ jobs[id].said # Unsaid => verdict[id].of.remote = jobs[id].said
    BY DEF JudgedAsPosted
  <2>1. Agrees(verdict[id])
    BY DEF JudgedInv
  <2>2. verdict[id].hash[1] = jobs[id].text /\ verdict[id].hash[2] = jobs[id].said
    BY DEF HashOf
  <2>3. QED BY <2>1, <2>2 DEF Agrees
<1>3. QED BY <1>1, <1>2, InitTyped, TypeKept, JudgedKept, PTL DEF Spec

-----------------------------------------------------------------------------
(* What a finished run has classified.                                     *)

\* Every job that is owed to r is open and, unless it has its verdict, still
\* ahead of r: beyond the keyset, and then in the batch in memory, as it still
\* is in the table, or beyond that batch too.
Served(r) ==
    \A id \in owed[r] :
        /\ Open(id)
        /\ run[r].at = "read" => Current(id, run[r].version) \/ id > run[r].after
        /\ run[r].at = "save" =>
              \/ id \in RowsOf(r) /\ run[r].rows[id].hash = HashOf(jobs[id])
              \/ id \notin RowsOf(r) /\ Current(id, run[r].version)
              \/ \A b \in RowsOf(r) : b < id

\* The inductive invariant behind FinishedMeansClassified.
OwedInv == \A r \in Runs : run[r].at # "idle" => Served(r)

LEMMA Undisturbed ==
    ASSUME NEW q \in Runs, Served(q), run'[q] = run[q], owed'[q] \subseteq owed[q],
           \A id \in owed'[q] : /\ Open(id)' /\ HashOf(jobs[id])' = HashOf(jobs[id])
                                /\ verdict'[id] = verdict[id] \/ Current(id, run[q].version)'
    PROVE  Served(q)'
<1> SUFFICES ASSUME NEW id \in owed'[q]
             PROVE  /\ Open(id)'
                    /\ run[q].at = "read" =>
                          Current(id, run[q].version)' \/ id > run[q].after
                    /\ run[q].at = "save" =>
                          \/ id \in RowsOf(q) /\ run[q].rows[id].hash = HashOf(jobs[id])'
                          \/ id \notin RowsOf(q) /\ Current(id, run[q].version)'
                          \/ \A b \in RowsOf(q) : b < id
  BY DEF Served, RowsOf, Current
<1>1. Open(id)' /\ HashOf(jobs[id])' = HashOf(jobs[id])
  OBVIOUS
<1>2. Current(id, run[q].version) => Current(id, run[q].version)'
  BY <1>1 DEF Current, Open
<1>3. QED BY <1>1, <1>2 DEF Served

LEMMA OwedKept == TypeOK /\ OwedInv /\ [Next]_vars => OwedInv'
<1> SUFFICES ASSUME TypeOK, OwedInv, [Next]_vars,
                    NEW q \in Runs, run'[q].at # "idle"
             PROVE  Served(q)'
  BY DEF OwedInv
<1>1. ASSUME NEW id \in Jobs, NEW text \in Texts, NEW said \in Said \cup {Unsaid},
             Upsert(id, text, said)
      PROVE  Served(q)'
  <2>1. UNCHANGED <<verdict, run>> /\ Served(q)
    BY <1>1 DEF Upsert, OwedInv
  <2>2. \A j \in Jobs \ {id} : jobs'[j] = jobs[j]
    BY <1>1 DEF Upsert, TypeOK
  <2>3. owed'[q] \subseteq owed[q] /\ owed[q] \subseteq Jobs
    BY <1>1 DEF Upsert, Disown, TypeOK
  <2>4. id \in owed'[q] => HashOf(jobs[id])' = HashOf(jobs[id])
    BY <1>1 DEF Upsert, Disown, TypeOK
  <2>5. Open(id)'
    <3>1. jobs'[id].open = TRUE
      BY <1>1 DEF Upsert, TypeOK
    <3>2. jobs'[id] # None
      BY <1>1, UpsertedTyped
    <3>3. QED BY <3>1, <3>2 DEF Open
  <2>6. \A j \in owed'[q] : Open(j)' /\ HashOf(jobs[j])' = HashOf(jobs[j])
    BY <2>1, <2>2, <2>3, <2>4, <2>5 DEF Served, Open
  <2>7. QED BY <2>1, <2>3, <2>6, Undisturbed
<1>2. ASSUME NEW id \in Jobs, Close(id) PROVE Served(q)'
  <2>1. UNCHANGED <<verdict, run>> /\ Served(q)
    BY <1>2 DEF Close, OwedInv
  <2>2. owed'[q] = owed[q] \ {id} /\ owed[q] \subseteq Jobs
    BY <1>2 DEF Close, Disown, TypeOK
  <2>3. \A j \in Jobs \ {id} : jobs'[j] = jobs[j]
    BY <1>2 DEF Close, TypeOK
  <2>4. \A j \in owed'[q] : Open(j)' /\ HashOf(jobs[j])' = HashOf(jobs[j])
    BY <2>1, <2>2, <2>3 DEF Served, Open
  <2>5. QED BY <2>1, <2>2, <2>4, Undisturbed
<1>3. ASSUME NEW r \in Runs, NEW version \in Versions, NEW force \in BOOLEAN,
             StartRun(r, version, force)
      PROVE  Served(q)'
  <2>1. UNCHANGED <<jobs, verdict>>
    BY <1>3 DEF StartRun
  <2>2. CASE q = r
    <3>1. run'[q].at = "read" /\ run'[q].after = 0
      BY <1>3, <2>2 DEF StartRun, TypeOK
    <3>2. owed'[q] = {id \in Jobs : Open(id)}
      BY <1>3, <2>2 DEF StartRun, TypeOK
    <3>3. \A id \in Jobs : id > 0
      OBVIOUS
    <3>4. QED BY <2>1, <3>1, <3>2, <3>3 DEF Served, Open
  <2>3. CASE q # r
    <3>1. run'[q] = run[q] /\ owed'[q] = owed[q]
      BY <1>3, <2>3 DEF StartRun, TypeOK
    <3>2. QED BY <2>1, <3>1, Undisturbed DEF OwedInv, Served, Open
  <2>4. QED BY <2>2, <2>3
<1>4. ASSUME NEW r \in Runs, Read(r) PROVE Served(q)'
  <2>1. UNCHANGED <<jobs, verdict, owed>>
    BY <1>4 DEF Read
  <2>2. CASE q = r
    <3>1. PICK B \in FirstOf(Pending(q)) :
            run' = [run EXCEPT ![q].at = "save",
                       ![q].rows = [id \in B |-> [of |-> InputOf(jobs[id]),
                                                  hash |-> HashOf(jobs[id])]]]
      BY <1>4, <2>2 DEF Read
    <3>2. run[q] \in Started /\ run[q].at = "read"
      BY <1>4, <2>2, HeldTyped DEF Read
    <3>3. /\ run'[q].at = "save" /\ run'[q].version = run[q].version
          /\ run'[q].rows = [id \in B |-> [of |-> InputOf(jobs[id]), hash |-> HashOf(jobs[id])]]
      BY <3>1, <3>2 DEF TypeOK, Started
    <3>4. Served(q)
      BY <3>2 DEF OwedInv
    <3>5. ASSUME NEW id \in owed[q]
          PROVE  \/ id \in B
                 \/ id \notin B /\ Current(id, run[q].version)
                 \/ \A b \in B : b < id
      <4>1. id \in Jobs /\ Open(id)
        BY <3>4 DEF Served, TypeOK
      <4>2. Current(id, run[q].version) \/ id > run[q].after
        BY <3>2, <3>4 DEF Served
      <4>3. Current(id, run[q].version) \/ id \in Pending(q)
        BY <4>1, <4>2 DEF Pending
      <4>4. id \in Pending(q) \ B => \A b \in B : b < id
        BY <3>1 DEF FirstOf
      <4>5. QED BY <4>3, <4>4
    <3>6. RowsOf(q)' = B /\ \A id \in B : run'[q].rows[id].hash = HashOf(jobs[id])
      BY <3>3 DEF RowsOf
    <3>7. QED BY <2>1, <3>3, <3>4, <3>5, <3>6 DEF Served, Open, Current
  <2>3. CASE q # r
    <3>1. run'[q] = run[q]
      BY <1>4, <2>3 DEF Read, TypeOK
    <3>2. QED BY <2>1, <3>1, Undisturbed DEF OwedInv, Served, Open
  <2>4. QED BY <2>2, <2>3
<1>5. ASSUME NEW r \in Runs, Save(r) PROVE Served(q)'
  <2>1. UNCHANGED jobs /\ run[r] \in Started /\ run[r].at = "save" /\ RowsOf(r) \subseteq Jobs
    BY <1>5, HeldTyped DEF Save
  <2>2. \A id \in RowsOf(r) : verdict'[id] = Judgement(r, id) /\ verdict'[id] # None
    <3>1. \A id \in RowsOf(r) : verdict'[id] = Judgement(r, id)
      BY <1>5, <2>1 DEF Save
    <3>2. \A id \in RowsOf(r) : Judgement(r, id) \in Verdict
      BY <2>1, HeldTyped
    <3>3. QED BY <3>1, <3>2
  <2>3. \A id \in Jobs \ RowsOf(r) : verdict'[id] = verdict[id]
    BY <1>5 DEF Save
  <2>4. CASE q = r
    <3>1. PICK last \in RowsOf(q) :
            /\ \A id \in RowsOf(q) : id <= last
            /\ run' = [run EXCEPT ![q].at = "read", ![q].after = last, ![q].rows = NoRows]
      BY <1>5, <2>4 DEF Save
    <3>2. run'[q].at = "read" /\ run'[q].after = last /\ run'[q].version = run[q].version
      BY <2>1, <2>4, <3>1 DEF TypeOK, Started
    <3>3. owed'[q] = owed[q] /\ owed[q] \subseteq Jobs
      BY <1>5, <2>4 DEF Save, TypeOK
    <3>4. Served(q)
      BY <2>1, <2>4 DEF OwedInv
    <3>5. ASSUME NEW id \in owed[q]
          PROVE  Current(id, run[q].version)' \/ id > last
      <4>1. Open(id)
        BY <3>4 DEF Served
      <4>2. CASE id \in RowsOf(q) /\ run[q].rows[id].hash = HashOf(jobs[id])
        <5>1. Judgement(q, id).hash = HashOf(jobs[id])
              /\ Judgement(q, id).version = run[q].version
          BY <4>2 DEF Judgement
        <5>2. QED BY <2>1, <2>2, <2>4, <3>2, <4>1, <4>2, <5>1 DEF Current, Open
      <4>3. CASE id \notin RowsOf(q) /\ Current(id, run[q].version)
        BY <2>1, <2>3, <2>4, <3>2, <3>3, <4>3 DEF Current
      <4>4. CASE \A b \in RowsOf(q) : b < id
        BY <3>1, <4>4, <2>1, <2>4, <3>3
      <4>5. QED BY <2>1, <2>4, <3>4, <4>2, <4>3, <4>4 DEF Served
    <3>6. QED BY <2>1, <3>2, <3>3, <3>4, <3>5 DEF Served, Open, Current
  <2>5. CASE q # r
    <3>1. run'[q] = run[q] /\ Served(q)
      BY <1>5, <2>5 DEF Save, TypeOK, OwedInv
    <3>2. owed'[q] = {id \in owed[q] : id \in RowsOf(r) => Serves(Judgement(r, id), q, id)}
      BY <1>5, <2>5 DEF Save
    <3>3. owed[q] \subseteq Jobs
      BY DEF TypeOK
    <3>4. ASSUME NEW id \in owed'[q]
          PROVE  verdict'[id] = verdict[id] \/ Current(id, run[q].version)'
      <4>1. id \in owed[q] /\ Open(id)
        BY <3>1, <3>2 DEF Served
      <4>2. CASE id \in RowsOf(r)
        BY <2>1, <2>2, <3>1, <3>2, <4>1, <4>2 DEF Current, Serves, Open
      <4>3. CASE id \notin RowsOf(r)
        BY <2>3, <3>3, <4>1, <4>3
      <4>4. QED BY <4>2, <4>3
    <3>5. \A id \in owed'[q] : Open(id)' /\ HashOf(jobs[id])' = HashOf(jobs[id])
      BY <2>1, <3>1, <3>2 DEF Served, Open
    <3>6. owed'[q] \subseteq owed[q]
      BY <3>2
    <3>7. QED BY <3>1, <3>4, <3>5, <3>6, Undisturbed
  <2>6. QED BY <2>4, <2>5
<1>6. ASSUME NEW r \in Runs, Finish(r) \/ Stop(r) PROVE Served(q)'
  <2>1. UNCHANGED <<jobs, verdict>> /\ run'[r].at = "idle"
    BY <1>6 DEF Finish, Stop, Idle, TypeOK
  <2>2. q # r
    BY <2>1
  <2>3. run'[q] = run[q] /\ owed'[q] = owed[q]
    BY <1>6, <2>2 DEF Finish, Stop, TypeOK
  <2>4. QED BY <2>1, <2>3, Undisturbed DEF OwedInv, Served, Open
<1>7. CASE UNCHANGED vars
  BY <1>7, Undisturbed DEF vars, OwedInv, Served, Open
<1>8. QED BY <1>1, <1>2, <1>3, <1>4, <1>5, <1>6, <1>7 DEF Next, Ingestion, Work

LEMMA FinishedServed ==
    TypeOK /\ OwedInv =>
    \A r \in Runs : (run[r].at = "read" /\ Finish(r)) =>
        \A id \in owed[r] : Current(id, run[r].version)
<1> SUFFICES ASSUME TypeOK, OwedInv, NEW r \in Runs, run[r].at = "read", Finish(r),
                    NEW id \in owed[r]
             PROVE  Current(id, run[r].version)
  OBVIOUS
<1>1. Open(id) /\ (Current(id, run[r].version) \/ id > run[r].after)
  BY DEF OwedInv, Served
<1>2. id \in Jobs
  BY DEF TypeOK
<1>3. id \notin Pending(r)
  BY DEF Finish
<1>4. QED BY <1>1, <1>2, <1>3 DEF Pending

\* A run that returns without an error has left no job unclassified that was open
\* from its beginning and that nobody else changed, for any batch size and any
\* jobs inserted, closed, edited or judged by others between its pages.
THEOREM FinishedClassified == Spec => FinishedMeansClassified
<1>1. Init => OwedInv
  BY DEF Init, OwedInv, Idle
<1>2. TypeOK /\ OwedInv /\ [Next]_vars =>
        [\A r \in Runs : (run[r].at = "read" /\ Finish(r)) =>
             \A id \in owed[r] : Current(id, run[r].version)]_vars
  BY FinishedServed
<1>3. QED
  BY <1>1, <1>2, InitTyped, TypeKept, OwedKept, PTL DEF Spec, FinishedMeansClassified
=============================================================================
