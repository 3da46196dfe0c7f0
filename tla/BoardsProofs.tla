---------------------------- MODULE BoardsProofs ----------------------------
(* Proofs about the registry, the look-up and the command, under Boards:     *)
(* whatever names, boards, workers and tasks there are, and however many     *)
(* commands run side by side.                                                *)
EXTENDS Boards, FiniteSetTheorems, TLAPS

-----------------------------------------------------------------------------
(* The registry.                                                             *)

\* Nobody else has a company's website.
OwnWebsites ==
    \A n \in Names : \A m \in Names \ {n} :
        companies[n].website = companies[m].website => companies[n].website = None

\* What a task has behind it is in the registry, and stays there.
BehindIt(t) ==
    /\ task[t].left \subseteq t.keys
    /\ task[t].at \in {"flag", "target", "done"} => companies[t.name].known
    /\ task[t].at \in {"target", "done"} /\ t.priority # "no" => companies[t.name].priority
    /\ task[t].at \in {"queued", "probe", "company", "flag"} => task[t].left = t.keys
    /\ task[t].at \in {"target", "done"} /\ ~task[t].bad =>
          \A k \in t.keys \ task[t].left : targets[k].company = t.name
    /\ task[t].at = "done" => task[t].left = {} /\ ~task[t].bad

RegistryInv == RegistryTypeOK /\ OwnWebsites /\ \A t \in Tasks : BehindIt(t)

LEMMA TaskTyped ==
    ASSUME NEW t \in Tasks
    PROVE  /\ t.by \in Procs /\ t.name \in Names /\ t.site \in Sites \cup {None} /\ t.keys \in SUBSET Keys
           /\ t.says \in {None, "person", "discover-boards"} /\ t.market \in Markets \cup {None}
           /\ t.priority \in {"yes", "mark", "no"}
BY RegistryAssumption DEF Task

LEMMA NoneIsNone ==
    None \notin Names /\ None \notin Sites /\ None \notin Markets /\ None \notin {"person", "discover-boards"}
BY RegistryAssumption

\* The registry gains, and the tasks of others notice nothing.
Kept ==
    /\ Gains
    /\ companies' \in [Names -> [known : BOOLEAN, website : Sites \cup {None}, priority : BOOLEAN]]
    /\ targets' \in [Keys -> [company : Names \cup {None}, active : BOOLEAN,
                              source : {None, "discover-boards"}, market : Markets]]

LEMMA NothingWritten ==
    ASSUME RegistryInv, UNCHANGED <<companies, targets>>
    PROVE  Kept
BY DEF RegistryInv, RegistryTypeOK, OwnWebsites, Kept, Gains

LEMMA OthersKept ==
    ASSUME RegistryInv, Kept, NEW t \in Tasks, task'[t] = task[t]
    PROVE  BehindIt(t)'
<1>1. t.name \in Names /\ t.keys \in SUBSET Keys
  BY TaskTyped
<1>2. t.name # None
  BY <1>1, NoneIsNone
<1>3. QED BY <1>1, <1>2 DEF RegistryInv, Kept, Gains, BehindIt

TaskState == [at : {"off", "queued", "probe", "company", "flag", "target", "done", "failed"},
              left : SUBSET Keys, bad : BOOLEAN]

\* One task goes on.
LEMMA OneKept ==
    ASSUME RegistryInv, Kept, NEW t \in Tasks, NEW x \in TaskState, task' = [task EXCEPT ![t] = x],
           stopped' \subseteq Procs
    PROVE  BehindIt(t)' => RegistryInv'
<1> SUFFICES ASSUME BehindIt(t)' PROVE RegistryInv' OBVIOUS
<1>1. \A u \in Tasks \ {t} : task'[u] = task[u]
  BY DEF RegistryInv, RegistryTypeOK
<1>2. RegistryTypeOK'
  BY DEF RegistryInv, RegistryTypeOK, Kept, TaskState
<1>3. OwnWebsites'
  BY DEF Kept, Gains, OwnWebsites
<1>4. \A u \in Tasks : BehindIt(u)'
  BY <1>1, OthersKept
<1>5. QED BY <1>2, <1>3, <1>4 DEF RegistryInv

LEMMA OffIs == Off.at = "off" /\ Off.left = {} /\ Off.bad = FALSE
BY DEF Off

LEMMA QueuedIs ==
    ASSUME NEW ks
    PROVE  LET x == [Off EXCEPT !.at = "queued", !.left = ks]
           IN x \in [at : {"queued"}, left : {ks}, bad : {FALSE}]
<1>1. Off \in [at : {"off"}, left : {{}}, bad : {FALSE}]
  BY DEF Off
<1>2. QED BY <1>1

\* Tasks begin, or are let go, and nothing is written.
LEMMA TasksKept ==
    ASSUME RegistryInv, Kept, stopped' \subseteq Procs,
           task' \in [Tasks -> TaskState],
           \A t \in Tasks : \/ task'[t] = task[t] \/ task'[t] = Off
                            \/ task'[t].at = "queued" /\ task'[t].left = t.keys
    PROVE  RegistryInv'
<1>1. ASSUME NEW t \in Tasks PROVE BehindIt(t)'
  <2>1. CASE task'[t] = task[t]
    BY <2>1, OthersKept
  <2>2. CASE task'[t] = Off
    <3>1. task'[t].at = "off" /\ task'[t].left = {}
      BY <2>2, OffIs
    <3>2. QED BY <3>1 DEF BehindIt
  <2>3. CASE task'[t].at = "queued" /\ task'[t].left = t.keys
    BY <2>3 DEF BehindIt
  <2>4. QED BY <2>1, <2>2, <2>3
<1>2. RegistryTypeOK'
  BY DEF RegistryInv, RegistryTypeOK, Kept, TaskState
<1>3. OwnWebsites'
  BY DEF Kept, Gains, OwnWebsites
<1>4. QED BY <1>1, <1>2, <1>3 DEF RegistryInv

-----------------------------------------------------------------------------
(* The statements.                                                         *)

LEMMA FilledGains ==
    ASSUME RegistryInv, NEW n \in Names, NEW site \in Sites \cup {None}, ~SiteTaken(n, site),
           companies' = Filled(n, site), UNCHANGED targets
    PROVE  Kept /\ companies'[n].known /\ companies'[n].priority = companies[n].priority
<1> DEFINE x == [companies[n] EXCEPT !.known = TRUE, !.website = IF @ = None THEN site ELSE @]
<1> DEFINE Row == [known : BOOLEAN, website : Sites \cup {None}, priority : BOOLEAN]
<1>a. companies \in [Names -> Row] /\ companies' = [companies EXCEPT ![n] = x]
  BY DEF Filled, RegistryInv, RegistryTypeOK
<1>b. /\ x \in Row /\ x.known /\ x.priority = companies[n].priority
      /\ x.website = IF companies[n].website = None THEN site ELSE companies[n].website
  BY <1>a
<1> HIDE DEF x, Row
<1>1. /\ companies'[n].known
      /\ companies'[n].priority = companies[n].priority
      /\ companies'[n].website = IF companies[n].website = None THEN site ELSE companies[n].website
      /\ \A m \in Names \ {n} : companies'[m] = companies[m]
  BY <1>a, <1>b
<1>2. companies' \in [Names -> [known : BOOLEAN, website : Sites \cup {None}, priority : BOOLEAN]]
  BY <1>a, <1>b DEF Row
<1>3. OwnWebsites'
  BY <1>1 DEF RegistryInv, OwnWebsites, SiteTaken
<1>4. \A m \in Names : /\ companies[m].known => companies'[m].known
                       /\ companies[m].priority => companies'[m].priority
                       /\ companies[m].website # None => companies'[m].website = companies[m].website
  BY <1>1
<1>5. QED BY <1>1, <1>2, <1>3, <1>4 DEF Kept, Gains, OwnWebsites, RegistryInv, RegistryTypeOK

LEMMA FlaggedGains ==
    ASSUME RegistryInv, NEW t \in Tasks, companies' = Flagged(t), UNCHANGED targets
    PROVE  /\ Kept
           /\ companies'[t.name].priority /\ companies'[t.name].known = companies[t.name].known
<1>1. t.name \in Names
  BY TaskTyped
<1>2. /\ companies'[t.name].priority
      /\ companies'[t.name].known = companies[t.name].known
      /\ companies'[t.name].website = companies[t.name].website
      /\ \A m \in Names \ {t.name} : companies'[m] = companies[m]
  BY <1>1 DEF Flagged, RegistryInv, RegistryTypeOK
<1>3. companies' \in [Names -> [known : BOOLEAN, website : Sites \cup {None}, priority : BOOLEAN]]
  <2>1. companies \in [Names -> [known : BOOLEAN, website : Sites \cup {None}, priority : BOOLEAN]]
    BY DEF RegistryInv, RegistryTypeOK
  <2>2. companies' = [companies EXCEPT ![t.name].priority = TRUE]
    BY DEF Flagged
  <2>3. QED BY <1>1, <2>1, <2>2
<1>4. \A m \in Names : /\ companies'[m].website = companies[m].website
                       /\ companies[m].known => companies'[m].known
                       /\ companies[m].priority => companies'[m].priority
  BY <1>2
<1>5. QED BY <1>1, <1>2, <1>3, <1>4 DEF Kept, Gains, OwnWebsites, RegistryInv, RegistryTypeOK

LEMMA RegisteredGains ==
    ASSUME RegistryInv, NEW t \in Tasks, NEW k \in task[t].left, ~Refused(t.name, k),
           targets' = Registered(t.name, k, t.says, t.market), UNCHANGED companies
    PROVE  Kept /\ targets'[k].company = t.name
<1>1. k \in t.keys /\ k \in Keys /\ t.name \in Names /\ targets[k].company \in {None, t.name}
  BY TaskTyped DEF RegistryInv, BehindIt, Refused
<1>2. /\ targets'[k].company = t.name
      /\ targets'[k].market = Given(t.market, targets[k].market)
      /\ \A l \in Keys \ {k} : targets'[l] = targets[l]
  BY <1>1 DEF Registered, RegistryInv, RegistryTypeOK
<1>3. targets' \in [Keys -> [company : Names \cup {None}, active : BOOLEAN,
                             source : {None, "discover-boards"}, market : Markets]]
  <2>1. targets[k].source \in {None, "discover-boards"} /\ targets[k].market \in Markets
    BY <1>1 DEF RegistryInv, RegistryTypeOK
  <2>2. Given(t.market, targets[k].market) \in Markets
    BY <2>1, TaskTyped DEF Given
  <2>3. SourceAfter(t.says, targets[k].source) \in {None, "discover-boards"}
    BY <2>1, TaskTyped DEF SourceAfter, Given
  <2>4. QED BY <1>1, <2>2, <2>3 DEF Registered, RegistryInv, RegistryTypeOK
<1>4. \A l \in Keys : targets[l].company # None => targets'[l].company = targets[l].company
  BY <1>1, <1>2
<1>5. \A l \in Keys : targets'[l].market # targets[l].market
                        => \E u \in Tasks : l \in u.keys /\ u.market = targets'[l].market
  BY <1>1, <1>2 DEF Given
<1>6. QED BY <1>2, <1>3, <1>4, <1>5 DEF Kept, Gains, OwnWebsites, RegistryInv, RegistryTypeOK

LEMMA SetActiveGains ==
    ASSUME RegistryInv, NEW k, NEW active \in BOOLEAN, SetActive(k, active), UNCHANGED companies
    PROVE  Kept
<1> DEFINE Row == [company : Names \cup {None}, active : BOOLEAN,
                   source : {None, "discover-boards"}, market : Markets]
<1>a. targets \in [Keys -> Row] /\ targets' = [targets EXCEPT ![k] = [targets[k] EXCEPT !.active = active]]
  BY DEF SetActive, RegistryInv, RegistryTypeOK
<1>b. ASSUME NEW l \in Keys
      PROVE  /\ targets'[l] \in Row /\ targets'[l].company = targets[l].company
             /\ targets'[l].market = targets[l].market
  <2>1. targets[l] \in Row
    BY <1>a
  <2>2. targets'[l] = targets[l] \/ targets'[l] = [targets[l] EXCEPT !.active = active]
    BY <1>a
  <2>3. QED BY <2>1, <2>2
<1>1. \A l \in Keys : /\ targets'[l].company = targets[l].company
                      /\ targets'[l].market = targets[l].market
  BY <1>b
<1>2. targets' \in [Keys -> Row]
  <2>1. targets' = [l \in Keys |-> targets'[l]]
    BY <1>a
  <2> HIDE DEF Row
  <2>2. QED BY <1>b, <2>1
<1>3. QED BY <1>1, <1>2 DEF Kept, Gains, OwnWebsites, RegistryInv, RegistryTypeOK

-----------------------------------------------------------------------------
(* The steps of a task.                                                    *)

Keeps == RegistryInv' /\ Gains

LEMMA TaskIs ==
    ASSUME RegistryInv, NEW t \in Tasks
    PROVE  task[t] \in TaskState /\ stopped \subseteq Procs /\ BehindIt(t)
BY DEF RegistryInv, RegistryTypeOK, TaskState

\* Going to another place.
LEMMA GotoIs ==
    ASSUME RegistryInv, NEW t \in Tasks,
           NEW at \in {"probe", "company", "flag", "target", "failed"}, Goto(t, at)
    PROVE  \E x \in TaskState : /\ x.at = at /\ x.left = task[t].left /\ x.bad = task[t].bad
                                /\ task' = [task EXCEPT ![t] = x]
<1> DEFINE x == [task[t] EXCEPT !.at = at]
<1>1. x \in TaskState /\ x.at = at /\ x.left = task[t].left /\ x.bad = task[t].bad
  BY TaskIs DEF TaskState
<1>2. task' = [task EXCEPT ![t] = x]
  BY DEF Goto
<1>3. QED BY <1>1, <1>2

LEMMA GotoKeeps ==
    ASSUME RegistryInv, NEW t \in Tasks,
           NEW at \in {"probe", "company", "flag", "target", "failed"}, Goto(t, at),
           Kept, UNCHANGED stopped,
           at \in {"probe", "company", "flag"} => task[t].left = t.keys,
           at \in {"flag", "target"} => companies'[t.name].known,
           at = "target" => /\ task[t].left = t.keys
                            /\ t.priority # "no" => companies'[t.name].priority
    PROVE  Keeps
<1>1. PICK x \in TaskState : /\ x.at = at /\ x.left = task[t].left /\ x.bad = task[t].bad
                             /\ task' = [task EXCEPT ![t] = x]
  BY GotoIs
<1>2. task'[t] = x
  BY <1>1 DEF RegistryInv, RegistryTypeOK
<1>3. BehindIt(t)'
  BY <1>1, <1>2, TaskIs DEF BehindIt
<1>4. QED BY <1>1, <1>3, TaskIs, OneKept DEF Keeps, Kept

LEMMA DispatchKeeps == ASSUME RegistryInv, NEW t \in Tasks, Dispatch(t) \/ ProbePage(t) PROVE Keeps
<1>1. Kept
  BY NothingWritten DEF Dispatch, ProbePage
<1>2. task[t].left = t.keys /\ UNCHANGED stopped
  BY TaskIs DEF Dispatch, ProbePage, BehindIt
<1>3. PICK at \in {"probe", "company", "failed"} : Goto(t, at)
  BY DEF Dispatch, ProbePage
<1>4. QED BY <1>1, <1>2, <1>3, GotoKeeps

LEMMA CompanyKeeps == ASSUME RegistryInv, NEW t \in Tasks, UpsertCompany(t) PROVE Keeps
<1>1. task[t].left = t.keys /\ UNCHANGED <<targets, stopped>>
  BY TaskIs DEF UpsertCompany, BehindIt
<1>2. CASE Goto(t, "failed") /\ UNCHANGED companies
  BY <1>1, <1>2, NothingWritten, GotoKeeps
<1>3. CASE ~SiteTaken(t.name, t.site) /\ companies' = Filled(t.name, t.site) /\ Goto(t, AfterCompany(t))
  <2>1. /\ Kept /\ companies'[t.name].known
        /\ companies'[t.name].priority = companies[t.name].priority
    BY <1>1, <1>3, TaskTyped, FilledGains
  <2>2. /\ AfterCompany(t) \in {"flag", "target"}
        /\ AfterCompany(t) = "target" /\ t.priority # "no" => companies[t.name].priority
    BY TaskTyped DEF AfterCompany
  <2>3. QED BY <1>1, <1>3, <2>1, <2>2, GotoKeeps
<1>4. QED BY <1>2, <1>3 DEF UpsertCompany

LEMMA PriorityKeeps == ASSUME RegistryInv, NEW t \in Tasks, SetPriority(t) PROVE Keeps
<1>1. /\ task[t].left = t.keys /\ companies[t.name].known
      /\ UNCHANGED <<targets, stopped>> /\ Goto(t, "target") /\ companies' = Flagged(t)
  BY TaskIs DEF SetPriority, BehindIt
<1>2. /\ Kept /\ companies'[t.name].priority
      /\ companies'[t.name].known
  BY <1>1, FlaggedGains
<1>3. QED BY <1>1, <1>2, GotoKeeps

LEMMA CompanyFailsKeeps == ASSUME RegistryInv, NEW t \in Tasks, CompanyFails(t) PROVE Keeps
<1>1. UNCHANGED <<targets, stopped>> /\ Goto(t, "failed")
  BY DEF CompanyFails
<1>2. Kept
  <2>1. CASE UNCHANGED companies
    BY <1>1, <2>1, NothingWritten
  <2>2. CASE ~SiteTaken(t.name, t.site) /\ companies' = Filled(t.name, t.site)
    BY <1>1, <2>2, TaskTyped, FilledGains
  <2>3. CASE companies' = Flagged(t)
    BY <1>1, <2>3, FlaggedGains
  <2>4. QED BY <2>1, <2>2, <2>3 DEF CompanyFails
<1>3. QED BY <1>1, <1>2, GotoKeeps

\* One board is settled.
LEMMA SettleKeeps ==
    ASSUME RegistryInv, NEW t \in Tasks, task[t].at = "target", NEW k \in task[t].left,
           NEW ok \in BOOLEAN, Settle(t, k, ok), Kept, UNCHANGED stopped,
           ok => targets'[k].company = t.name
    PROVE  Keeps
<1> DEFINE left == task[t].left \ {k}
           bad == task[t].bad \/ ~ok
           at == IF left # {} THEN "target" ELSE IF bad THEN "failed" ELSE "done"
           x == [at |-> at, left |-> left, bad |-> bad]
<1>1. task[t] \in TaskState /\ stopped \subseteq Procs /\ BehindIt(t)
  BY TaskIs
<1>2. x \in TaskState /\ x.at = at /\ x.left = left /\ x.bad = bad
  BY <1>1 DEF TaskState
<1>3. task' = [task EXCEPT ![t] = x]
  BY DEF Settle
<1>4. task'[t] = x
  BY <1>3 DEF RegistryInv, RegistryTypeOK
<1>5. /\ t.name \in Names /\ t.name # None /\ t.keys \in SUBSET Keys
      /\ \A l \in Keys : targets[l].company # None => targets'[l].company = targets[l].company
      /\ companies[t.name].known => companies'[t.name].known
      /\ companies[t.name].priority => companies'[t.name].priority
  BY TaskTyped, NoneIsNone DEF Kept, Gains
<1>6. ~bad => \A l \in t.keys \ left : targets'[l].company = t.name
  BY <1>1, <1>5 DEF BehindIt
<1>7. BehindIt(t)'
  <2>1. at \in {"target", "failed", "done"} /\ (at = "done" => left = {} /\ ~bad)
    OBVIOUS
  <2>2. left \subseteq t.keys /\ companies'[t.name].known
        /\ (t.priority # "no" => companies'[t.name].priority)
    BY <1>1, <1>5 DEF BehindIt
  <2>3. task'[t].at = at /\ task'[t].left = left /\ task'[t].bad = bad
    BY <1>2, <1>4
  <2> HIDE DEF at, left, bad
  <2>4. QED BY <1>6, <2>1, <2>2, <2>3 DEF BehindIt
<1>8. QED BY <1>1, <1>2, <1>3, <1>7, OneKept DEF Keeps, Kept

LEMMA TargetKeeps ==
    ASSUME RegistryInv, NEW t \in Tasks, NEW k \in Keys, UpsertTarget(t, k) \/ TargetFails(t, k)
    PROVE  Keeps
<1>1. /\ task[t].at = "target" /\ k \in task[t].left
      /\ UNCHANGED <<companies, stopped>>
  BY DEF UpsertTarget, TargetFails
<1>2. CASE UNCHANGED targets /\ Settle(t, k, FALSE)
  BY <1>1, <1>2, NothingWritten, SettleKeeps
<1>3. ASSUME NEW ok \in BOOLEAN, Settle(t, k, ok), ~Refused(t.name, k),
             targets' = Registered(t.name, k, t.says, t.market)
      PROVE  Keeps
  BY <1>1, <1>3, RegisteredGains, SettleKeeps
<1>4. QED BY <1>2, <1>3 DEF UpsertTarget, TargetFails

-----------------------------------------------------------------------------
(* The steps of a command.                                                 *)

\* What Queue makes of a task.
LEMMA QueueIs ==
    ASSUME RegistryInv, NEW ts, Queue(ts)
    PROVE  /\ task' \in [Tasks -> TaskState]
           /\ \A t \in Tasks : task'[t] = task[t] \/ (task'[t].at = "queued" /\ task'[t].left = t.keys)
<1> DEFINE q(t) == [Off EXCEPT !.at = "queued", !.left = t.keys]
<1>1. ASSUME NEW t \in Tasks
      PROVE  q(t) \in TaskState /\ q(t).at = "queued" /\ q(t).left = t.keys
  BY TaskTyped, QueuedIs DEF TaskState
<1>2. \A t \in Tasks : task[t] \in TaskState
  BY TaskIs
<1>3. task' = [t \in Tasks |-> IF t \in ts THEN q(t) ELSE task[t]]
  BY DEF Queue
<1> HIDE DEF q
<1>4. QED BY <1>1, <1>2, <1>3

\* Tasks that are let go.
LEMMA LetGo ==
    ASSUME RegistryInv, UNCHANGED <<companies, targets>>, stopped' \subseteq Procs,
           NEW S, task' = [t \in Tasks |-> IF t \in S THEN Off ELSE task[t]]
    PROVE  Keeps
<1>1. Off \in TaskState
  BY DEF Off, TaskState
<1>2. task' \in [Tasks -> TaskState] /\ \A t \in Tasks : task'[t] = task[t] \/ task'[t] = Off
  BY <1>1, TaskIs
<1>3. QED BY <1>2, NothingWritten, TasksKept DEF Keeps, Kept

\* Nothing happens to the tasks.
LEMMA TasksRest ==
    ASSUME RegistryInv, Kept, UNCHANGED task, stopped' \subseteq Procs
    PROVE  Keeps
<1>1. task' \in [Tasks -> TaskState]
  BY DEF RegistryInv, RegistryTypeOK, TaskState
<1>2. QED BY <1>1, TasksKept DEF Keeps, Kept

LEMMA MovesKeep == ASSUME RegistryInv, RegistryMoves PROVE Keeps
<1>1. stopped \subseteq Procs
  BY DEF RegistryInv, RegistryTypeOK
<1>2. ASSUME NEW t \in Tasks, RegistryStep(t) PROVE Keeps
  BY <1>2, DispatchKeeps, CompanyKeeps, PriorityKeeps, CompanyFailsKeeps, TargetKeeps DEF RegistryStep
<1>3. ASSUME NEW p \in Procs, Other(p) PROVE Keeps
  <2>1. PICK ts : Queue(ts)
    BY <1>3 DEF Other
  <2>2. UNCHANGED <<companies, targets>> /\ stopped' \subseteq Procs
    BY <1>1, <1>3 DEF Other
  <2>3. QED BY <2>1, <2>2, QueueIs, NothingWritten, TasksKept DEF Keeps, Kept
<1>4. ASSUME NEW p \in Procs, OthersStop(p) PROVE Keeps
  <2>1. CASE Stop(p)
    <3>1. UNCHANGED <<companies, targets, task>> /\ stopped' \subseteq Procs
      BY <1>1, <2>1 DEF Stop
    <3>2. QED BY <3>1, NothingWritten, TasksRest
  <2>2. CASE Die(p)
    <3>1. UNCHANGED <<companies, targets>> /\ stopped' \subseteq Procs
      BY <1>1, <2>2 DEF Die
    <3>2. task' = [t \in Tasks |-> IF t \in {u \in Tasks : u.by = p} THEN Off ELSE task[t]]
      BY <2>2 DEF Die
    <3>3. QED BY <3>1, <3>2, LetGo
  <2>3. QED BY <1>4, <2>1, <2>2 DEF OthersStop
<1>5. ASSUME NEW k \in Slots, Retire(k) PROVE Keeps
  BY <1>1, <1>5, SetActiveGains, TasksRest DEF Retire
<1>6. QED BY <1>2, <1>3, <1>4, <1>5 DEF RegistryMoves

LEMMA BeginKeeps == ASSUME RegistryInv, Begin PROVE Keeps
<1>1. UNCHANGED <<companies, targets>> /\ stopped' \subseteq Procs
  BY DEF Begin, RegistryInv, RegistryTypeOK
<1>2. task' = [t \in Tasks |-> IF t \in {u \in Tasks : u.by = Finder} THEN Off ELSE task[t]]
  BY DEF Begin
<1>3. QED BY <1>1, <1>2, LetGo

LEMMA FinderKeeps ==
    ASSUME RegistryInv,
           Register \/ RegistrationOver \/ FinderDies \/ Interrupt \/ \E x \in stale : Condemn(x)
    PROVE  Keeps
<1>1. stopped \subseteq Procs
  BY DEF RegistryInv, RegistryTypeOK
<1>2. CASE Register
  <2>1. UNCHANGED <<companies, targets, stopped>>
    BY <1>2 DEF Register
  <2>2. CASE UNCHANGED task
    BY <1>1, <2>1, <2>2, NothingWritten, TasksRest
  <2>3. CASE \E ts : Queue(ts)
    BY <1>1, <2>1, <2>3, QueueIs, NothingWritten, TasksKept DEF Keeps, Kept
  <2>4. QED BY <1>2, <2>2, <2>3 DEF Register
<1>3. CASE RegistrationOver
  <2>1. task' = [t \in Tasks |-> IF t \in {u \in Tasks : u.by = Finder /\ task[u].at = "queued"}
                                 THEN Off ELSE task[t]]
    BY <1>3 DEF RegistrationOver
  <2>2. QED BY <1>1, <1>3, <2>1, LetGo DEF RegistrationOver
<1>4. CASE FinderDies
  <2>1. task' = [t \in Tasks |-> IF t \in {u \in Tasks : u.by = Finder} THEN Off ELSE task[t]]
    BY <1>4 DEF FinderDies
  <2>2. QED BY <1>1, <1>4, <2>1, LetGo DEF FinderDies
<1>5. CASE Interrupt
  <2>1. UNCHANGED <<companies, targets, task>> /\ stopped' \subseteq Procs
    BY <1>1, <1>5, BoardsAssumption, RegistryAssumption DEF Interrupt, Stop
  <2>2. QED BY <2>1, NothingWritten, TasksRest
<1>6. CASE \E x \in stale : Condemn(x)
  BY <1>1, <1>6, SetActiveGains, TasksRest DEF Condemn
<1>7. QED BY <1>2, <1>3, <1>4, <1>5, <1>6

LEMMA StepKeeps == RegistryInv /\ [BoardsNext]_boardsVars => RegistryInv' /\ [Gains]_registryVars
<1> SUFFICES ASSUME RegistryInv, [BoardsNext]_boardsVars PROVE Keeps
  BY DEF Keeps
<1>1. CASE UNCHANGED registryVars
  <2>1. UNCHANGED <<companies, targets, task>> /\ stopped' \subseteq Procs
    BY <1>1 DEF registryVars, RegistryInv, RegistryTypeOK
  <2>2. QED BY <2>1, NothingWritten, TasksRest
<1>2. CASE LookFor \/ LookAgain
  BY <1>2, BeginKeeps DEF LookFor, LookAgain
<1>3. CASE Judge \/ RecheckOver \/ GuessMoves \/ UNCHANGED boardsVars
  BY <1>1, <1>3 DEF Judge, RecheckOver, GuessMoves, boardsVars
<1>4. ASSUME NEW x \in stale, CondemnFails(x) PROVE Keeps
  BY <1>1, <1>4 DEF CondemnFails
<1>5. QED BY <1>2, <1>3, <1>4, MovesKeep, FinderKeeps DEF BoardsNext

LEMMA InitHolds == BoardsInit => RegistryInv
<1> SUFFICES ASSUME RegistryInit PROVE RegistryInv
  BY DEF BoardsInit
<1>1. RegistryTypeOK
  BY DEF RegistryInit, RegistryTypeOK, NoRow, NoTarget, Off, Markets
<1>2. OwnWebsites
  BY DEF RegistryInit, OwnWebsites, NoRow
<1>3. \A t \in Tasks : BehindIt(t)
  BY DEF RegistryInit, BehindIt, Off
<1>4. QED BY <1>1, <1>2, <1>3 DEF RegistryInv

-----------------------------------------------------------------------------
(* The look-up.                                                            *)

LEMMA VerdictTyped ==
    ASSUME NEW n, NEW s
    PROVE  Answers(n, s) \subseteq Verdicts
<1>1. ASSUME NEW b PROVE ByName(n, b) \in Verdicts /\ NotTheCompanys(n, b) \in Verdicts
  BY DEF ByName, NotTheCompanys, Verdicts
<1>2. {"none", "empty", "foreign", "proven"} \subseteq Verdicts
  BY DEF Verdicts
<1>3. ASSUME NEW b PROVE GreenhouseVerdict(n, b) \in Verdicts /\ SampledVerdict(n, b) \in Verdicts
  <2>1. GreenhouseVerdict(n, b) \in Verdicts
    BY <1>1, <1>2, Zenon DEF GreenhouseVerdict
  <2>2. SampledVerdict(n, b) \in Verdicts
    BY <1>1, <1>2, Zenon DEF SampledVerdict
  <2>3. QED BY <2>1, <2>2
<1>4. QED BY <1>3 DEF Answers

Answered1(n, i) == outcome[n].said[SlotsOf[n][i]] \in Verdicts \cup {"failed"}

\* What is settled of n: all of its slots, unless it needs a domain.
Settled(n) == NeedsDomain(n) \/ \A i \in 1..Len(SlotsOf[n]) : Answered1(n, i)

\* A worker has heard of every slot it has left behind.
Behind(w) ==
    LET n == worker[w].name
        k == worker[w].k
    IN /\ worker[w].at # "idle" => n \in Companies
       /\ worker[w].at \in {"probe", "count", "swap", "cancel"} => k <= Len(SlotsOf[n])
       /\ worker[w].at \in {"next", "probe", "count", "swap", "cancel"} =>
             \A i \in 1..Len(SlotsOf[n]) : i < k => Answered1(n, i)
       /\ worker[w].at \in {"count", "swap", "cancel"} => Answered1(n, k)
       /\ worker[w].at = "end" => Settled(n)

GuessInv ==
    /\ GuessTypeOK
    /\ \A w \in Guessers : Behind(w)
    /\ \A n \in Companies : outcome[n].done => Settled(n)

WorkerState == [at : {"idle", "next", "probe", "count", "swap", "cancel", "end"}, name : Companies \cup {Nobody}, k : Nat \ {0}]
Outcome == [done : BOOLEAN, said : [Slots -> Verdicts \cup {"unasked", "failed"}]]

LEMMA Assumed ==
    /\ MaxErrors \in Nat \ {0} /\ IsFiniteSet(Guessers) /\ Cardinality(Guessers) \in Nat
    /\ SlotsOf \in [Companies -> Seq(Slots)] /\ Nobody \notin Companies
BY GuessAssumption, FS_CardinalityType

LEMMA GuessInit == BoardsInit => GuessInv
<1> SUFFICES ASSUME BoardsInit PROVE GuessInv OBVIOUS
<1>1. GuessTypeOK
  <2>1. Nowhere \in WorkerState /\ Unasked \in Outcome
    BY DEF Nowhere, WorkerState, Unasked, Outcome
  <2>2. board \in [Slots -> Board]
    BY BoardsAssumption DEF BoardsInit
  <2>3. QED BY <2>1, <2>2 DEF BoardsInit, GuessIdle, GuessTypeOK, WorkerState, Outcome
<1>2. \A w \in Guessers : worker[w].at = "idle"
  BY DEF BoardsInit, GuessIdle, Nowhere
<1>3. \A n \in Companies : ~outcome[n].done
  BY DEF BoardsInit, GuessIdle, Unasked
<1>4. QED BY <1>1, <1>2, <1>3 DEF GuessInv, Behind

\* A look-up begins, or is let go.
Afresh ==
    /\ worker' = [w \in Guessers |-> Nowhere] /\ outcome' = [n \in Companies |-> Unasked]
    /\ entries' \subseteq Companies /\ titled' \subseteq entries' /\ feed' \subseteq entries'
    /\ open' \in BOOLEAN /\ errors' = 0
    /\ aborted' = FALSE /\ canceled' = FALSE /\ signal' = FALSE
    /\ board' \in [Slots -> Board]

LEMMA AfreshKeeps == ASSUME Afresh PROVE GuessInv'
<1>1. GuessTypeOK'
  <2>1. Nowhere \in WorkerState /\ Unasked \in Outcome
    BY DEF Nowhere, WorkerState, Unasked, Outcome
  <2>2. QED BY <2>1 DEF Afresh, GuessTypeOK, WorkerState, Outcome
<1>2. \A w \in Guessers : worker'[w].at = "idle"
  BY DEF Afresh, Nowhere
<1>3. \A n \in Companies : ~outcome'[n].done
  BY DEF Afresh, Unasked
<1>4. QED BY <1>1, <1>2, <1>3 DEF GuessInv, Behind

\* What has been heard stays.
Heard ==
    \A n \in Companies : \A i \in 1..Len(SlotsOf[n]) : Answered1(n, i) => Answered1(n, i)'

LEMMA NothingHeard == ASSUME UNCHANGED outcome PROVE Heard
BY DEF Heard, Answered1

LEMMA SettledStays == ASSUME Heard, NEW n \in Companies, Settled(n) PROVE Settled(n)'
BY DEF Heard, Settled, NeedsDomain

\* One worker goes on, and the others stay where they are.
LEMMA WorkerKept ==
    ASSUME GuessInv, NEW w \in Guessers, NEW x \in WorkerState, worker' = [worker EXCEPT ![w] = x],
           outcome' \in [Companies -> Outcome], Heard,
           \A n \in Companies : outcome'[n].done => outcome[n].done \/ Settled(n)'
    PROVE  /\ worker'[w] = x
           /\ \A v \in Guessers \ {w} : worker'[v] = worker[v] /\ Behind(v)'
           /\ \A n \in Companies : outcome'[n].done => Settled(n)'
           /\ worker' \in [Guessers -> WorkerState]
<1>1. worker \in [Guessers -> WorkerState]
  BY DEF GuessInv, GuessTypeOK, WorkerState
<1>2. /\ worker'[w] = x /\ worker' \in [Guessers -> WorkerState]
      /\ \A v \in Guessers \ {w} : worker'[v] = worker[v]
  BY <1>1
<1>3. ASSUME NEW v \in Guessers \ {w} PROVE Behind(v)'
  <2> DEFINE n == worker[v].name
             k == worker[v].k
  <2>1. Behind(v) /\ worker'[v] = worker[v] /\ k \in Nat \ {0}
    BY <1>1, <1>2 DEF GuessInv, WorkerState
  <2>2. CASE n \notin Companies
    BY <2>1, <2>2, <1>1 DEF Behind, WorkerState
  <2>3. CASE n \in Companies
    <3>1. Len(SlotsOf[n]) \in Nat
      BY <2>3, Assumed
    <3>2. Settled(n) => Settled(n)'
      BY <2>3, SettledStays
    <3>3. \A i \in 1..Len(SlotsOf[n]) : Answered1(n, i) => Answered1(n, i)'
      BY <2>3 DEF Heard
    <3>4. worker[v].at \in {"probe", "count", "swap", "cancel"} => k \in 1..Len(SlotsOf[n])
      BY <2>1, <3>1 DEF Behind
    <3>5. QED BY <2>1, <2>3, <3>2, <3>3, <3>4 DEF Behind
  <2>4. QED BY <2>2, <2>3
<1>4. \A n \in Companies : outcome'[n].done => Settled(n)'
  BY SettledStays DEF GuessInv
<1>5. QED BY <1>2, <1>3, <1>4

LEMMA WorkerKeeps ==
    ASSUME GuessInv, NEW w \in Guessers, NEW x \in WorkerState, worker' = [worker EXCEPT ![w] = x],
           outcome' \in [Companies -> Outcome], Heard,
           \A n \in Companies : outcome'[n].done => outcome[n].done \/ Settled(n)',
           feed' \subseteq feed, errors' \in Nat, aborted' \in BOOLEAN, canceled' \in BOOLEAN,
           UNCHANGED <<entries, titled, open, signal, board>>
    PROVE  Behind(w)' => GuessInv'
<1> SUFFICES ASSUME Behind(w)' PROVE GuessInv' OBVIOUS
<1>1. /\ \A v \in Guessers : Behind(v)'
      /\ \A n \in Companies : outcome'[n].done => Settled(n)'
      /\ worker' \in [Guessers -> WorkerState]
  BY WorkerKept
<1>2. GuessTypeOK'
  BY <1>1 DEF GuessInv, GuessTypeOK, WorkerState, Outcome
<1>3. QED BY <1>1, <1>2 DEF GuessInv

\* A worker at work is on a name and one of its slots.
LEMMA WorkerIs ==
    ASSUME GuessInv, NEW w \in Guessers
    PROVE  /\ worker[w] \in WorkerState /\ Behind(w) /\ outcome \in [Companies -> Outcome]
           /\ worker[w].at # "idle" => worker[w].name \in Companies
           /\ worker[w].at # "idle" => Len(SlotsOf[worker[w].name]) \in Nat
           /\ worker[w].at \in {"probe", "count", "swap", "cancel"} =>
                 worker[w].k \in 1..Len(SlotsOf[worker[w].name]) /\ Slot(w) \in Slots
<1>1. worker[w] \in WorkerState /\ Behind(w) /\ outcome \in [Companies -> Outcome]
  BY DEF GuessInv, GuessTypeOK, WorkerState, Outcome
<1>2. worker[w].at # "idle" => worker[w].name \in Companies
  BY <1>1 DEF Behind
<1>3. worker[w].at # "idle" => SlotsOf[worker[w].name] \in Seq(Slots)
  BY <1>2, Assumed
<1>4. worker[w].at \in {"probe", "count", "swap", "cancel"} => worker[w].k \in 1..Len(SlotsOf[worker[w].name])
  BY <1>1, <1>3 DEF Behind, WorkerState
<1>5. QED BY <1>1, <1>2, <1>3, <1>4 DEF Slot

\* Going to another place on the same slot.
LEMMA PlaceIs ==
    ASSUME GuessInv, NEW w \in Guessers, NEW at \in {"idle", "next", "probe", "count", "swap", "cancel", "end"}, Place(w, at)
    PROVE  \E x \in WorkerState : /\ x.at = at /\ x.name = worker[w].name /\ x.k = worker[w].k
                                  /\ worker' = [worker EXCEPT ![w] = x] /\ worker'[w] = x
<1> DEFINE x == [worker[w] EXCEPT !.at = at]
<1>1. worker[w] \in WorkerState /\ worker \in [Guessers -> WorkerState]
  BY DEF GuessInv, GuessTypeOK, WorkerState
<1>2. x \in WorkerState /\ x.at = at /\ x.name = worker[w].name /\ x.k = worker[w].k
  BY <1>1 DEF WorkerState
<1>3. worker' = [worker EXCEPT ![w] = x]
  BY DEF Place
<1> HIDE DEF x
<1>4. QED BY <1>1, <1>2, <1>3

LEMMA AdvanceIs ==
    ASSUME GuessInv, NEW w \in Guessers, Advance(w)
    PROVE  \E x \in WorkerState : /\ x.at = "next" /\ x.name = worker[w].name /\ x.k = worker[w].k + 1
                                  /\ worker' = [worker EXCEPT ![w] = x] /\ worker'[w] = x
<1> DEFINE x == [worker[w] EXCEPT !.at = "next", !.k = @ + 1]
<1>1. worker[w] \in WorkerState /\ worker \in [Guessers -> WorkerState]
  BY DEF GuessInv, GuessTypeOK, WorkerState
<1>2. x \in WorkerState /\ x.at = "next" /\ x.name = worker[w].name /\ x.k = worker[w].k + 1
  <2>1. worker[w].k \in Nat \ {0} /\ worker[w].k + 1 \in Nat \ {0}
    BY <1>1 DEF WorkerState
  <2>2. QED BY <1>1, <2>1 DEF WorkerState
<1>3. worker' = [worker EXCEPT ![w] = x]
  BY DEF Advance
<1> HIDE DEF x
<1>4. QED BY <1>1, <1>2, <1>3

\* An answer, or a failure, is kept for the slot.
LEMMA SaidIs ==
    ASSUME GuessInv, NEW w \in Guessers, worker[w].at = "probe",
           NEW what \in Verdicts \cup {"failed"}, Said(w, what)
    PROVE  /\ outcome' \in [Companies -> Outcome] /\ Heard
           /\ \A n \in Companies : outcome'[n].done = outcome[n].done
           /\ outcome'[worker[w].name].said[Slot(w)] = what
<1>1. /\ outcome \in [Companies -> Outcome]
      /\ worker[w].name \in Companies /\ Slot(w) \in Slots
  BY WorkerIs
<1>2. outcome' = [outcome EXCEPT ![worker[w].name].said[Slot(w)] = what]
  BY DEF Said
<1>3. /\ outcome' \in [Companies -> Outcome]
      /\ outcome'[worker[w].name].said[Slot(w)] = what
      /\ \A n \in Companies : outcome'[n].done = outcome[n].done
      /\ \A n \in Companies, s \in Slots : outcome'[n].said[s] \in {outcome[n].said[s], what}
  BY <1>1, <1>2 DEF Outcome
<1>4. Heard
  <2>1. \A n \in Companies : \A i \in 1..Len(SlotsOf[n]) : SlotsOf[n][i] \in Slots
    BY Assumed
  <2>2. QED BY <1>3, <2>1 DEF Heard, Answered1
<1>5. QED BY <1>3, <1>4

LEMMA FeedKeeps == ASSUME GuessInv, NEW w \in Guessers, Feed(w), UNCHANGED board PROVE GuessInv'
<1>1. PICK n \in feed : /\ feed' = feed \ {n}
                        /\ worker' = [worker EXCEPT ![w] = [at |-> IF NeedsDomain(n) THEN "end" ELSE "next",
                                                            name |-> n, k |-> 1]]
  BY DEF Feed
<1> DEFINE x == [at |-> IF NeedsDomain(n) THEN "end" ELSE "next", name |-> n, k |-> 1]
<1>2. n \in Companies
  BY DEF GuessInv, GuessTypeOK
<1>3. /\ x \in WorkerState /\ x.at \in {"end", "next"} /\ x.name = n /\ x.k = 1
      /\ x.at = "end" => NeedsDomain(n)
  BY <1>2 DEF WorkerState
<1>4. worker' = [worker EXCEPT ![w] = x]
  BY <1>1
<1>5. worker'[w] = x
  BY <1>4 DEF GuessInv, GuessTypeOK
<1> HIDE DEF x
<1>6. UNCHANGED <<entries, titled, open, outcome, errors, aborted, canceled, signal>>
  BY DEF Feed
<1>7. Behind(w)'
  <2>1. \A i \in 1..Len(SlotsOf[n]) : ~(i < 1)
    BY <1>2, Assumed
  <2>2. x.at = "end" => Settled(n)'
    BY <1>3 DEF Settled, NeedsDomain
  <2>3. QED BY <1>2, <1>3, <1>5, <2>1, <2>2 DEF Behind
<1>8. /\ outcome' \in [Companies -> Outcome] /\ errors' \in Nat /\ aborted' \in BOOLEAN
      /\ canceled' \in BOOLEAN /\ feed' \subseteq feed
  BY <1>1, <1>6 DEF GuessInv, GuessTypeOK, Outcome
<1>9. QED BY <1>3, <1>4, <1>6, <1>7, <1>8, NothingHeard, WorkerKeeps

LEMMA NextSlotKeeps == ASSUME GuessInv, NEW w \in Guessers, NextSlot(w), UNCHANGED board PROVE GuessInv'
<1> PICK n, k : n = worker[w].name /\ k = worker[w].k OBVIOUS
<1>1. worker[w].at = "next" /\ UNCHANGED <<entries, titled, feed, open, outcome, errors, aborted, canceled, signal>>
  BY DEF NextSlot
<1>2. /\ n \in Companies /\ k \in Nat \ {0} /\ Len(SlotsOf[n]) \in Nat
      /\ \A i \in 1..Len(SlotsOf[n]) : i < k => Answered1(n, i)
  BY <1>1, WorkerIs DEF Behind, WorkerState
<1>3. PICK at \in {"idle", "probe", "end"} :
         /\ Place(w, at)
         /\ at = "end" => k > Len(SlotsOf[n])
         /\ at = "probe" => k <= Len(SlotsOf[n])
  BY DEF NextSlot
<1>4. PICK x \in WorkerState : /\ x.at = at /\ x.name = n /\ x.k = k
                               /\ worker' = [worker EXCEPT ![w] = x] /\ worker'[w] = x
  BY <1>3, PlaceIs
<1>5. Heard
  BY <1>1, NothingHeard
<1>6. \A i \in 1..Len(SlotsOf[n]) : i < k => Answered1(n, i)'
  BY <1>2, <1>5 DEF Heard
<1>7. at = "end" => Settled(n)'
  BY <1>2, <1>3, <1>6 DEF Settled
<1>8. Behind(w)'
  BY <1>2, <1>3, <1>4, <1>6, <1>7 DEF Behind
<1>9. /\ outcome' \in [Companies -> Outcome]
      /\ errors' \in Nat /\ aborted' \in BOOLEAN /\ canceled' \in BOOLEAN
  BY <1>1 DEF GuessInv, GuessTypeOK, Outcome
<1>10. QED BY <1>1, <1>4, <1>5, <1>8, <1>9, WorkerKeeps

LEMMA AnswerKeeps == ASSUME GuessInv, NEW w \in Guessers, Answer(w), UNCHANGED board PROVE GuessInv'
<1> PICK n, k : n = worker[w].name /\ k = worker[w].k OBVIOUS
<1>1. /\ worker[w].at = "probe" /\ Advance(w)
      /\ UNCHANGED <<entries, titled, feed, open, errors, aborted, canceled, signal>>
  BY DEF Answer
<1>2. /\ n \in Companies /\ k \in 1..Len(SlotsOf[n]) /\ Len(SlotsOf[n]) \in Nat
      /\ \A i \in 1..Len(SlotsOf[n]) : i < k => Answered1(n, i)
  BY <1>1, WorkerIs DEF Behind, WorkerState
<1>3. PICK v \in Verdicts : Said(w, v)
  BY VerdictTyped DEF Answer
<1>4. /\ outcome' \in [Companies -> Outcome] /\ Heard
      /\ \A m \in Companies : outcome'[m].done => outcome[m].done
      /\ Answered1(n, k)'
  BY <1>1, <1>3, SaidIs DEF Answered1, Slot
<1>5. PICK x \in WorkerState : /\ x.at = "next" /\ x.name = n /\ x.k = k + 1
                               /\ worker' = [worker EXCEPT ![w] = x] /\ worker'[w] = x
  BY <1>1, AdvanceIs
<1>6. \A i \in 1..Len(SlotsOf[n]) : i < k + 1 => Answered1(n, i)'
  <2>1. \A i \in 1..Len(SlotsOf[n]) : i < k + 1 => i < k \/ i = k
    BY <1>2
  <2>2. QED BY <1>2, <1>4, <2>1 DEF Heard
<1>7. Behind(w)'
  BY <1>2, <1>5, <1>6 DEF Behind
<1>8. errors' \in Nat /\ aborted' \in BOOLEAN /\ canceled' \in BOOLEAN
  BY <1>1 DEF GuessInv, GuessTypeOK
<1>9. QED BY <1>1, <1>4, <1>5, <1>7, <1>8, WorkerKeeps

LEMMA ProbeFailsKeeps == ASSUME GuessInv, NEW w \in Guessers, ProbeFails(w), UNCHANGED board PROVE GuessInv'
<1> PICK n, k : n = worker[w].name /\ k = worker[w].k OBVIOUS
<1>1. /\ worker[w].at = "probe"
      /\ UNCHANGED <<entries, titled, feed, open, errors, aborted, canceled, signal>>
      /\ errors \in Nat /\ aborted \in BOOLEAN /\ canceled \in BOOLEAN
  BY DEF ProbeFails, GuessInv, GuessTypeOK
<1>2. /\ n \in Companies /\ k \in 1..Len(SlotsOf[n]) /\ Len(SlotsOf[n]) \in Nat
      /\ \A i \in 1..Len(SlotsOf[n]) : i < k => Answered1(n, i)
  BY <1>1, WorkerIs DEF Behind, WorkerState
<1>3. CASE Ended /\ Place(w, "idle") /\ UNCHANGED outcome
  <2>1. PICK x \in WorkerState : x.at = "idle" /\ worker' = [worker EXCEPT ![w] = x] /\ worker'[w] = x
    BY <1>3, PlaceIs
  <2>2. Behind(w)'
    BY <2>1 DEF Behind
  <2>3. outcome' \in [Companies -> Outcome] /\ Heard
    BY <1>3, WorkerIs, NothingHeard
  <2>4. QED BY <1>1, <1>3, <2>1, <2>2, <2>3, WorkerKeeps
<1>4. CASE ~Ended /\ Place(w, "count") /\ Said(w, "failed")
  <2>1. PICK x \in WorkerState : /\ x.at = "count" /\ x.name = n /\ x.k = k
                                 /\ worker' = [worker EXCEPT ![w] = x] /\ worker'[w] = x
    BY <1>4, PlaceIs
  <2>2. /\ outcome' \in [Companies -> Outcome] /\ Heard
        /\ \A m \in Companies : outcome'[m].done => outcome[m].done
        /\ Answered1(n, k)'
    BY <1>1, <1>4, SaidIs DEF Answered1, Slot
  <2>3. \A i \in 1..Len(SlotsOf[n]) : i < k => Answered1(n, i)'
    BY <1>2, <2>2 DEF Heard
  <2>4. Behind(w)'
    BY <1>2, <2>1, <2>2, <2>3 DEF Behind
  <2>5. QED BY <1>1, <2>1, <2>2, <2>4, WorkerKeeps
<1>5. QED BY <1>3, <1>4 DEF ProbeFails

\* A failure is counted, or the abort is on its way.
LEMMA CountKeeps ==
    ASSUME GuessInv, NEW w \in Guessers, Count(w) \/ Swap(w) \/ Cancel(w), UNCHANGED board
    PROVE  GuessInv'
<1> PICK n, k : n = worker[w].name /\ k = worker[w].k OBVIOUS
<1>1. /\ worker[w].at \in {"count", "swap", "cancel"}
      /\ UNCHANGED <<entries, titled, feed, open, outcome, signal>>
      /\ errors' \in Nat /\ aborted' \in BOOLEAN /\ canceled' \in BOOLEAN
  <2>1. errors \in Nat /\ aborted \in BOOLEAN /\ canceled \in BOOLEAN /\ errors + 1 \in Nat
    BY DEF GuessInv, GuessTypeOK
  <2>2. CASE Count(w)
    BY <2>1, <2>2 DEF Count
  <2>3. CASE Swap(w)
    BY <2>1, <2>3 DEF Swap
  <2>4. CASE Cancel(w)
    BY <2>1, <2>4 DEF Cancel
  <2>5. QED BY <2>2, <2>3, <2>4
<1>2. /\ n \in Companies /\ k \in 1..Len(SlotsOf[n]) /\ Len(SlotsOf[n]) \in Nat
      /\ \A i \in 1..Len(SlotsOf[n]) : i < k => Answered1(n, i)
      /\ Answered1(n, k)
  BY <1>1, WorkerIs DEF Behind, WorkerState
<1>3. outcome' \in [Companies -> Outcome] /\ Heard
  BY <1>1, WorkerIs, NothingHeard
<1>4. CASE Advance(w)
  <2>1. PICK x \in WorkerState : /\ x.at = "next" /\ x.name = n /\ x.k = k + 1
                                 /\ worker' = [worker EXCEPT ![w] = x] /\ worker'[w] = x
    BY <1>4, AdvanceIs
  <2>2. \A i \in 1..Len(SlotsOf[n]) : i < k + 1 => Answered1(n, i)'
    <3>1. \A i \in 1..Len(SlotsOf[n]) : i < k + 1 => i < k \/ i = k
      BY <1>2
    <3>2. QED BY <1>2, <1>3, <3>1 DEF Heard
  <2>3. Behind(w)'
    BY <1>2, <2>1, <2>2 DEF Behind
  <2>4. QED BY <1>1, <1>3, <2>1, <2>3, WorkerKeeps
<1>5. ASSUME NEW at \in {"swap", "cancel"}, Place(w, at) PROVE GuessInv'
  <2>1. PICK x \in WorkerState : /\ x.at = at /\ x.name = n /\ x.k = k
                                 /\ worker' = [worker EXCEPT ![w] = x] /\ worker'[w] = x
    BY <1>5, PlaceIs
  <2>2. Answered1(n, k)' /\ \A i \in 1..Len(SlotsOf[n]) : i < k => Answered1(n, i)'
    BY <1>2, <1>3 DEF Heard
  <2>3. Behind(w)'
    BY <1>2, <2>1, <2>2 DEF Behind
  <2>4. QED BY <1>1, <1>3, <2>1, <2>3, WorkerKeeps
<1>6. QED BY <1>4, <1>5 DEF Count, Swap, Cancel

LEMMA NameDoneKeeps == ASSUME GuessInv, NEW w \in Guessers, NameDone(w), UNCHANGED board PROVE GuessInv'
<1> PICK n : n = worker[w].name OBVIOUS
<1>1. /\ worker[w].at = "end" /\ Place(w, "idle")
      /\ UNCHANGED <<entries, titled, feed, open, errors, aborted, canceled, signal>>
      /\ outcome' = [outcome EXCEPT ![n].done = TRUE]
  BY DEF NameDone
<1>2. n \in Companies /\ Settled(n) /\ outcome \in [Companies -> Outcome]
  BY <1>1, WorkerIs DEF Behind
<1>3. PICK x \in WorkerState : x.at = "idle" /\ worker' = [worker EXCEPT ![w] = x] /\ worker'[w] = x
  BY <1>1, PlaceIs
<1>4. /\ outcome' \in [Companies -> Outcome]
      /\ \A m \in Companies : outcome'[m].said = outcome[m].said /\ (m # n => outcome'[m].done = outcome[m].done)
  BY <1>1, <1>2 DEF Outcome
<1>5. Heard
  BY <1>4 DEF Heard, Answered1
<1>6. \A m \in Companies : outcome'[m].done => outcome[m].done \/ Settled(m)'
  BY <1>2, <1>4, <1>5, SettledStays
<1>7. Behind(w)'
  BY <1>3 DEF Behind
<1>8. errors' \in Nat /\ aborted' \in BOOLEAN /\ canceled' \in BOOLEAN
  BY <1>1 DEF GuessInv, GuessTypeOK
<1>9. QED BY <1>1, <1>3, <1>4, <1>5, <1>6, <1>7, <1>8, WorkerKeeps

LEMMA CloseFeedKeeps == ASSUME GuessInv, CloseFeed, UNCHANGED board PROVE GuessInv'
<1>1. UNCHANGED <<entries, titled, feed, worker, outcome, errors, aborted, canceled, signal, board>> /\ open' = FALSE
  BY DEF CloseFeed
<1>2. GuessTypeOK'
  BY <1>1 DEF GuessInv, GuessTypeOK
<1>3. \A w \in Guessers : Behind(w)'
  BY <1>1 DEF GuessInv, Behind, Settled, Answered1, NeedsDomain
<1>4. \A n \in Companies : outcome'[n].done => Settled(n)'
  BY <1>1 DEF GuessInv, Settled, Answered1, NeedsDomain
<1>5. QED BY <1>2, <1>3, <1>4 DEF GuessInv

LEMMA SignalKeeps == ASSUME GuessInv, Signal, UNCHANGED board PROVE GuessInv'
<1>1. UNCHANGED <<entries, titled, feed, open, worker, outcome, errors, aborted, canceled, board>>
      /\ signal' = TRUE
  BY DEF Signal
<1>2. GuessTypeOK'
  BY <1>1 DEF GuessInv, GuessTypeOK
<1>3. \A w \in Guessers : Behind(w)'
  BY <1>1 DEF GuessInv, Behind, Settled, Answered1, NeedsDomain
<1>4. \A n \in Companies : outcome'[n].done => Settled(n)'
  BY <1>1 DEF GuessInv, Settled, Answered1, NeedsDomain
<1>5. QED BY <1>2, <1>3, <1>4 DEF GuessInv

LEMMA LookUpStays == ASSUME GuessInv, UNCHANGED <<guessVars, board>> PROVE GuessInv'
<1>1. UNCHANGED <<entries, titled, feed, open, worker, outcome, errors, aborted, canceled, signal, board>>
  BY DEF guessVars
<1>2. GuessTypeOK'
  BY <1>1 DEF GuessInv, GuessTypeOK
<1>3. \A w \in Guessers : Behind(w)'
  BY <1>1 DEF GuessInv, Behind, Settled, Answered1, NeedsDomain
<1>4. \A n \in Companies : outcome'[n].done => Settled(n)'
  BY <1>1 DEF GuessInv, Settled, Answered1, NeedsDomain
<1>5. QED BY <1>2, <1>3, <1>4 DEF GuessInv

LEMMA GuessMovesKeeps == ASSUME GuessInv, GuessMoves PROVE GuessInv'
<1>1. UNCHANGED board
  BY DEF GuessMoves
<1>2. CASE CloseFeed
  BY <1>1, <1>2, CloseFeedKeeps
<1>3. ASSUME NEW w \in Guessers, GuessStep(w) PROVE GuessInv'
  BY <1>1, <1>3, FeedKeeps, NextSlotKeeps, AnswerKeeps, ProbeFailsKeeps, CountKeeps, NameDoneKeeps
     DEF GuessStep
<1>4. QED BY <1>2, <1>3 DEF GuessMoves

\* While the context lasts, a name of the look-up is in the feed, with a worker, or done.
PoolInv ==
    ~Ended =>
        /\ ~open => feed = {}
        /\ \A n \in entries : n \in feed \/ outcome[n].done
                              \/ \E w \in Guessers : worker[w].at # "idle" /\ worker[w].name = n

LEMMA FreshPool == ASSUME entries' = feed', open' \in BOOLEAN, ~open' => feed' = {} PROVE PoolInv'
BY DEF PoolInv

\* A worker stays with its name, unless the name is done or the context has ended.
LEMMA StaysWithIt ==
    ASSUME GuessInv, PoolInv, NEW w \in Guessers, NEW x \in WorkerState, worker' = [worker EXCEPT ![w] = x],
           x.name = worker[w].name, x.at # "idle" \/ Ended' \/ outcome'[x.name].done,
           UNCHANGED <<entries, feed, open>>, Ended => Ended',
           \A n \in Companies : outcome[n].done => outcome'[n].done
    PROVE  PoolInv'
<1> SUFFICES ASSUME ~Ended' PROVE PoolInv' BY DEF PoolInv
<1>1. /\ ~open => feed = {}
      /\ \A n \in entries : n \in feed \/ outcome[n].done
                            \/ \E v \in Guessers : worker[v].at # "idle" /\ worker[v].name = n
  BY DEF PoolInv
<1>2. worker'[w] = x /\ \A v \in Guessers \ {w} : worker'[v] = worker[v]
  BY DEF GuessInv, GuessTypeOK
<1>3. ASSUME NEW n \in entries
      PROVE  n \in feed' \/ outcome'[n].done
             \/ \E v \in Guessers : worker'[v].at # "idle" /\ worker'[v].name = n
  <2>1. n \in Companies
    BY DEF GuessInv, GuessTypeOK
  <2>2. CASE n \in feed \/ outcome[n].done
    BY <2>1, <2>2
  <2>3. CASE \E v \in Guessers : worker[v].at # "idle" /\ worker[v].name = n
    BY <1>2, <2>3
  <2>4. QED BY <1>1, <2>2, <2>3
<1>4. QED BY <1>1, <1>3 DEF PoolInv

LEMMA FeedIsTaken == ASSUME GuessInv, PoolInv, NEW w \in Guessers, Feed(w) PROVE PoolInv'
<1>1. PICK n \in feed : /\ feed' = feed \ {n} /\ worker[w].at = "idle"
                        /\ worker' = [worker EXCEPT ![w] = [at |-> IF NeedsDomain(n) THEN "end" ELSE "next",
                                                            name |-> n, k |-> 1]]
  BY DEF Feed
<1>2. open /\ UNCHANGED <<entries, open, outcome, aborted, canceled, signal>>
  BY DEF Feed
<1>3. /\ worker'[w].name = n /\ worker'[w].at # "idle"
      /\ \A v \in Guessers \ {w} : worker'[v] = worker[v]
  BY <1>1 DEF GuessInv, GuessTypeOK
<1>4. QED BY <1>1, <1>2, <1>3 DEF PoolInv, Ended

LEMMA WorkerStays ==
    ASSUME GuessInv, PoolInv, NEW w \in Guessers,
           NextSlot(w) \/ Answer(w) \/ ProbeFails(w) \/ Count(w) \/ Swap(w) \/ Cancel(w)
             \/ NameDone(w)
    PROVE  PoolInv'
<1>1. CASE NextSlot(w)
  <2>1. PICK at \in {"idle", "probe", "end"} : Place(w, at) /\ (at = "idle" => Ended)
    BY <1>1 DEF NextSlot
  <2>2. UNCHANGED <<entries, feed, open, outcome, aborted, canceled, signal>>
    BY <1>1 DEF NextSlot
  <2>3. QED BY <2>1, <2>2, PlaceIs, StaysWithIt DEF Ended
<1>2. CASE Answer(w)
  <2>1. PICK v \in Verdicts : Said(w, v)
    BY <1>2, VerdictTyped DEF Answer
  <2>2. Advance(w) /\ worker[w].at = "probe" /\ UNCHANGED <<entries, feed, open, aborted, canceled, signal>>
    BY <1>2 DEF Answer
  <2>3. \A n \in Companies : outcome'[n].done = outcome[n].done
    BY <2>1, <2>2, SaidIs
  <2>4. QED BY <2>2, <2>3, AdvanceIs, StaysWithIt DEF Ended
<1>3. CASE ProbeFails(w)
  <2>1. worker[w].at = "probe" /\ UNCHANGED <<entries, feed, open, aborted, canceled, signal>>
    BY <1>3 DEF ProbeFails
  <2>2. CASE Ended /\ Place(w, "idle") /\ UNCHANGED outcome
    BY <2>1, <2>2, PlaceIs, StaysWithIt DEF Ended
  <2>3. CASE Place(w, "count") /\ Said(w, "failed")
    <3>1. \A n \in Companies : outcome'[n].done = outcome[n].done
      BY <2>1, <2>3, SaidIs
    <3>2. QED BY <2>1, <2>3, <3>1, PlaceIs, StaysWithIt DEF Ended
  <2>4. QED BY <1>3, <2>2, <2>3 DEF ProbeFails
<1>4. CASE Count(w) \/ Swap(w) \/ Cancel(w)
  <2>1. UNCHANGED <<entries, feed, open, outcome, signal>> /\ (canceled => canceled')
    BY <1>4 DEF Count, Swap, Cancel
  <2>2. CASE Advance(w)
    BY <2>1, <2>2, AdvanceIs, StaysWithIt DEF Ended
  <2>3. ASSUME NEW at \in {"swap", "cancel"}, Place(w, at) PROVE PoolInv'
    BY <2>1, <2>3, PlaceIs, StaysWithIt DEF Ended
  <2>4. QED BY <1>4, <2>2, <2>3 DEF Count, Swap, Cancel
<1>5. CASE NameDone(w)
  <2>1. /\ worker[w].at = "end" /\ Place(w, "idle") /\ UNCHANGED <<entries, feed, open, aborted, canceled, signal>>
        /\ outcome' = [outcome EXCEPT ![worker[w].name].done = TRUE]
    BY <1>5 DEF NameDone
  <2>2. worker[w].name \in Companies /\ outcome \in [Companies -> Outcome]
    BY <2>1, WorkerIs
  <2>3. outcome'[worker[w].name].done /\ \A n \in Companies : outcome[n].done => outcome'[n].done
    BY <2>1, <2>2 DEF Outcome
  <2>4. QED BY <2>1, <2>3, PlaceIs, StaysWithIt DEF Ended
<1>6. QED BY <1>1, <1>2, <1>3, <1>4, <1>5

\* A command's look-up is of names it was given.
LEMMA CallIsAfresh ==
    ASSUME NEW names \in SUBSET Companies, GuessCall(names, Titled(names)), board' \in [Slots -> Board]
    PROVE  Afresh
BY DEF GuessCall, Titled, Afresh

LEMMA ForgotIsAfresh == ASSUME GuessInv, Forget, UNCHANGED board PROVE Afresh
BY DEF GuessInv, GuessTypeOK, Forget, Afresh

LEMMA LookForFresh == ASSUME LookFor PROVE Afresh
<1>1. board' \in [Slots -> Board]
  BY BoardsAssumption DEF LookFor, Begin
<1>2. PICK more \in {{}, Employers} : \E names \in Limited(WithoutBoard(File \cup more)) :
          GuessCall(names, Titled(names))
  BY DEF LookFor
<1>3. PICK names \in Limited(WithoutBoard(File \cup more)) : GuessCall(names, Titled(names))
  BY <1>2
<1>4. WithoutBoard(File \cup more) \subseteq Companies
  BY BoardsAssumption DEF WithoutBoard, Employers
<1>5. names \subseteq Companies
  BY <1>3, <1>4 DEF Limited
<1>6. QED BY <1>1, <1>3, <1>5, CallIsAfresh

LEMMA LookAgainFresh == ASSUME LookAgain, RegistryTypeOK PROVE Afresh
<1>1. board' \in [Slots -> Board]
  BY BoardsAssumption DEF LookAgain, Begin
<1>2. PICK more \in {{}, WithBoard(Employers)} : \E names \in Limited(File \cup more) :
          /\ seen' = Existing(names)
          /\ LET toCheck == {x.company : x \in seen'} IN GuessCall(toCheck, Titled(toCheck))
  BY DEF LookAgain
<1>3. PICK names \in Limited(File \cup more) :
          /\ seen' = Existing(names)
          /\ LET toCheck == {x.company : x \in seen'} IN GuessCall(toCheck, Titled(toCheck))
  BY <1>2
<1>4. names \subseteq Companies
  BY <1>3, BoardsAssumption DEF Limited, WithBoard, Employers
<1>5. {x.company : x \in seen'} \subseteq Companies
  BY <1>3, <1>4 DEF Existing
<1>6. QED BY <1>1, <1>3, <1>5, CallIsAfresh

LEMMA GuessStepKeeps == GuessInv /\ RegistryTypeOK /\ [BoardsNext]_boardsVars => GuessInv'
<1> SUFFICES ASSUME GuessInv, RegistryTypeOK, [BoardsNext]_boardsVars PROVE GuessInv' OBVIOUS
<1>1. CASE LookFor
  BY <1>1, LookForFresh, AfreshKeeps
<1>2. CASE LookAgain
  BY <1>2, LookAgainFresh, AfreshKeeps
<1>3. CASE Register
  BY <1>3, ForgotIsAfresh, AfreshKeeps DEF Register, Over
<1>4. CASE RegistrationOver
  BY <1>4, ForgotIsAfresh, AfreshKeeps DEF RegistrationOver, Over
<1>5. CASE Judge
  BY <1>5, ForgotIsAfresh, AfreshKeeps, LookUpStays DEF Judge, Over
<1>6. CASE RecheckOver
  BY <1>6, ForgotIsAfresh, AfreshKeeps DEF RecheckOver, Over
<1>7. ASSUME NEW x \in stale, Condemn(x) \/ CondemnFails(x) PROVE GuessInv'
  BY <1>7, LookUpStays DEF Condemn, CondemnFails
<1>8. CASE Interrupt
  BY <1>8, SignalKeeps DEF Interrupt
<1>9. CASE FinderDies
  BY <1>9, ForgotIsAfresh, AfreshKeeps DEF FinderDies, Over
<1>10. CASE GuessMoves
  BY <1>10, GuessMovesKeeps
<1>11. CASE RegistryMoves \/ UNCHANGED boardsVars
  BY <1>11, LookUpStays DEF RegistryMoves, boardsVars
<1>12. QED
  BY <1>1, <1>2, <1>3, <1>4, <1>5, <1>6, <1>7, <1>8, <1>9, <1>10, <1>11 DEF BoardsNext

-----------------------------------------------------------------------------
(* The command.                                                            *)

\* What an answer says is on the board.
ForAnother(n, s) ==
    /\ ~NeedsDomain(n)
    /\ s \in Greenhouse /\ board[s].there
    /\ n \notin board[s].called \cup board[s].akin \cup WithDomain

LEMMA OtherIs ==
    ASSUME NEW n, NEW s, "other" \in Answers(n, s), ~NeedsDomain(n)
    PROVE  ForAnother(n, s)
<1>1. ASSUME NEW b PROVE ByName(n, b) # "other" /\ SampledVerdict(n, b) # "other"
  <2>1. ByName(n, b) # "other"
    BY DEF ByName
  <2>2. SampledVerdict(n, b) # "other"
    BY <2>1 DEF SampledVerdict
  <2>3. QED BY <2>1, <2>2
<1>2. s \in Greenhouse /\ GreenhouseVerdict(n, board[s]) = "other"
  BY <1>1 DEF Answers
<1>3. board[s].there
  BY <1>2 DEF GreenhouseVerdict
<1>4. ~NamesMatch(n, board[s]) /\ NotTheCompanys(n, board[s]) = "other"
  BY <1>1, <1>2 DEF GreenhouseVerdict
<1>5. QED BY <1>2, <1>3, <1>4 DEF NotTheCompanys, SharesNameWord, ForAnother

LEMMA VerifiedIs ==
    ASSUME NEW n, NEW s, board[s] \in Board, NEW v \in Verified, v \in Answers(n, s)
    PROVE  Shown(n, s)
<1>1. board[s].jobs \in Nat
  BY DEF Board
<1>2. ASSUME NEW b, ByName(n, b) \in Verified PROVE Corroborated(n, b)
  BY <1>2 DEF ByName, Verified
<1>3. ASSUME NEW b PROVE NotTheCompanys(n, b) \notin Verified
  BY DEF NotTheCompanys, Verified
<1>4. {"none", "empty", "foreign"} \cap Verified = {}
  BY DEF Verified
<1>5. CASE s \in Greenhouse
  <2>1. GreenhouseVerdict(n, board[s]) \in Verified
    BY <1>5 DEF Answers
  <2>2. board[s].there
    BY <2>1, <1>4 DEF GreenhouseVerdict
  <2>3. CASE DomainProof(n, board[s])
    BY <2>2, <2>3 DEF DomainProof, Shown
  <2>4. CASE ~DomainProof(n, board[s])
    <3>1. NamesMatch(n, board[s])
      BY <2>1, <2>2, <2>4, <1>3 DEF GreenhouseVerdict
    <3>2. board[s].jobs # 0 /\ ~IsCommonName(n) /\ ByName(n, board[s]) \in Verified
      BY <2>1, <2>2, <2>4, <3>1, <1>4 DEF GreenhouseVerdict
    <3>3. QED BY <1>1, <1>2, <1>5, <2>2, <3>1, <3>2 DEF NamesMatch, IsCommonName, Shown
  <2>5. QED BY <2>3, <2>4
<1>6. CASE s \notin Greenhouse
  <2>1. PICK b \in Readings(board[s]) : SampledVerdict(n, b) \in Verified
    BY <1>6 DEF Answers
  <2>2. /\ b.there = board[s].there
        /\ b.jobs \in Nat /\ b.jobs <= board[s].jobs
        /\ b.named \subseteq board[s].named \cup board[s].hinted
        /\ b.domains \subseteq board[s].domains /\ b.shares \subseteq board[s].shares
    <3>1. CASE b = board[s]
      BY <1>1, <3>1
    <3>2. CASE b # board[s]
      <4>1. PICK cut \in [jobs : 0..(board[s].jobs - 1), named : {board[s].named, board[s].hinted},
                          domains : {{}, board[s].domains}, shares : {{}, board[s].shares}] :
                b = [board[s] EXCEPT !.jobs = cut.jobs, !.named = cut.named, !.domains = cut.domains,
                                     !.shares = cut.shares]
        BY <3>2 DEF Readings
      <4>2. /\ b.there = board[s].there /\ b.jobs = cut.jobs /\ b.named = cut.named
            /\ b.domains = cut.domains /\ b.shares = cut.shares
        BY <4>1 DEF Board
      <4>3. QED BY <1>1, <4>1, <4>2
    <3>3. QED BY <3>1, <3>2
  <2>3. b.there /\ b.jobs # 0
    <3>1. b.there
      BY <2>1, <1>4 DEF SampledVerdict
    <3>2. QED BY <2>1, <3>1, <1>4 DEF SampledVerdict, DomainProof
  <2>4. board[s].there /\ board[s].jobs > 0
    BY <1>1, <2>2, <2>3
  <2>5. CASE DomainProof(n, b)
    BY <2>2, <2>4, <2>5 DEF DomainProof, Shown
  <2>6. CASE ~DomainProof(n, b)
    <3>1. NameProof(n, b) /\ ByName(n, b) \in Verified
      BY <2>1, <2>3, <2>6, <1>4 DEF SampledVerdict
    <3>2. Corroborated(n, b)
      BY <3>1, <1>2
    <3>3. Corroborated(n, board[s])
      BY <2>2, <3>2 DEF Corroborated, SharesTitle
    <3>4. QED BY <1>6, <2>2, <2>4, <3>1, <3>3 DEF NameProof, IsCommonName, Shown
  <2>7. QED BY <2>5, <2>6
<1>7. QED BY <1>5, <1>6

\* No worker asks for a name that needs a domain, and what has been heard is so.
Asked(w) == worker[w].at \in {"next", "probe", "count", "swap", "cancel"} => ~NeedsDomain(worker[w].name)

Honest(n, s) ==
    /\ outcome[n].said[s] = "other" => ForAnother(n, s)
    /\ outcome[n].said[s] \in Verified => Shown(n, s)

HonestInv ==
    /\ \A w \in Guessers : Asked(w)
    /\ \A n \in Companies, s \in Slots : Honest(n, s)

LEMMA ShownStays ==
    ASSUME NEW n, NEW s, UNCHANGED <<board, titled>>
    PROVE  (ForAnother(n, s) <=> ForAnother(n, s)') /\ (Shown(n, s) <=> Shown(n, s)')
BY DEF ForAnother, Shown, Corroborated, SharesTitle, NeedsDomain, IsCommonName

LEMMA HonestStays ==
    ASSUME HonestInv, UNCHANGED <<outcome, board, titled>>
    PROVE  \A n \in Companies, s \in Slots : Honest(n, s)'
BY ShownStays DEF HonestInv, Honest

LEMMA HonestAfresh ==
    ASSUME worker = [w \in Guessers |-> Nowhere], outcome = [n \in Companies |-> Unasked]
    PROVE  HonestInv
<1>1. \A w \in Guessers : Asked(w)
  BY DEF Asked, Nowhere
<1>2. \A n \in Companies, s \in Slots : outcome[n].said[s] = "unasked"
  BY DEF Unasked
<1>3. QED BY <1>1, <1>2 DEF HonestInv, Honest, Verified

LEMMA AfreshIsHonest == ASSUME Afresh PROVE HonestInv'
<1>1. \A w \in Guessers : Asked(w)'
  BY DEF Afresh, Asked, Nowhere
<1>2. \A n \in Companies, s \in Slots : outcome'[n].said[s] = "unasked"
  BY DEF Afresh, Unasked
<1>3. QED BY <1>1, <1>2 DEF HonestInv, Honest, Verified

LEMMA OneAsks ==
    ASSUME HonestInv, GuessInv, NEW w \in Guessers, NEW x \in WorkerState,
           worker' = [worker EXCEPT ![w] = x],
           x.at \in {"next", "probe", "count", "swap", "cancel"} => ~NeedsDomain(x.name)
    PROVE  \A v \in Guessers : Asked(v)'
<1>1. worker \in [Guessers -> WorkerState]
  BY DEF GuessInv, GuessTypeOK, WorkerState
<1>2. \A v \in Guessers : worker'[v] = IF v = w THEN x ELSE worker[v]
  BY <1>1
<1>3. QED BY <1>2 DEF HonestInv, Asked, NeedsDomain, IsCommonName

LEMMA SaysSo ==
    ASSUME HonestInv, GuessInv, NEW w \in Guessers, worker[w].at = "probe",
           NEW what \in Answers(worker[w].name, Slot(w)) \cup {"failed"}, Said(w, what),
           UNCHANGED <<board, titled>>
    PROVE  \A n \in Companies, s \in Slots : Honest(n, s)'
<1> PICK m, k : m = worker[w].name /\ k = Slot(w) OBVIOUS
<1>1. /\ outcome \in [Companies -> Outcome] /\ board[k] \in Board
      /\ m \in Companies /\ k \in Slots /\ ~NeedsDomain(m)
  BY WorkerIs DEF HonestInv, Asked, GuessInv, GuessTypeOK
<1>2. outcome' = [outcome EXCEPT ![m].said[k] = what]
  BY DEF Said
<1>3. \A n \in Companies, s \in Slots :
         outcome'[n].said[s] = IF n = m /\ s = k THEN what ELSE outcome[n].said[s]
  BY <1>1, <1>2 DEF Outcome
<1>4. what = "other" => ForAnother(m, k)
  BY <1>1, OtherIs
<1>5. what \in Verified => Shown(m, k)
  BY <1>1, VerifiedIs DEF Verified
<1>6. QED BY <1>3, <1>4, <1>5, ShownStays DEF HonestInv, Honest

LEMMA HonestGoes == ASSUME HonestInv, GuessInv, GuessMoves PROVE HonestInv'
<1>1. UNCHANGED board
  BY DEF GuessMoves
<1>2. CASE CloseFeed
  BY <1>1, <1>2, HonestStays DEF CloseFeed, HonestInv, Asked, NeedsDomain, IsCommonName
<1>3. ASSUME NEW w \in Guessers, GuessStep(w) PROVE HonestInv'
  <2>1. CASE Feed(w)
    <3>1. PICK n \in feed :
             worker' = [worker EXCEPT ![w] = [at |-> IF NeedsDomain(n) THEN "end" ELSE "next",
                                              name |-> n, k |-> 1]]
      BY <2>1 DEF Feed
    <3>2. n \in Companies
      BY DEF GuessInv, GuessTypeOK
    <3>3. [at |-> IF NeedsDomain(n) THEN "end" ELSE "next", name |-> n, k |-> 1] \in WorkerState
      BY <3>2 DEF WorkerState
    <3>4. \A v \in Guessers : Asked(v)'
      BY <3>1, <3>3, OneAsks
    <3>5. QED BY <1>1, <2>1, <3>4, HonestStays DEF Feed, HonestInv
  <2>2. CASE NextSlot(w)
    <3>1. PICK at \in {"idle", "probe", "end"} : Place(w, at)
      BY <2>2 DEF NextSlot
    <3>2. ~NeedsDomain(worker[w].name)
      BY <2>2 DEF NextSlot, HonestInv, Asked
    <3>3. \A v \in Guessers : Asked(v)'
      BY <3>1, <3>2, PlaceIs, OneAsks
    <3>4. QED BY <1>1, <2>2, <3>3, HonestStays DEF NextSlot, HonestInv
  <2>3. CASE Answer(w)
    <3>1. ~NeedsDomain(worker[w].name)
      BY <2>3 DEF Answer, HonestInv, Asked
    <3>2. \A v \in Guessers : Asked(v)'
      BY <2>3, <3>1, AdvanceIs, OneAsks DEF Answer
    <3>3. QED BY <1>1, <2>3, <3>2, SaysSo DEF Answer, HonestInv
  <2>4. CASE ProbeFails(w)
    <3>1. ~NeedsDomain(worker[w].name)
      BY <2>4 DEF ProbeFails, HonestInv, Asked
    <3>2. \A v \in Guessers : Asked(v)'
      BY <2>4, <3>1, PlaceIs, OneAsks DEF ProbeFails
    <3>3. QED BY <1>1, <2>4, <3>2, SaysSo, HonestStays DEF ProbeFails, HonestInv
  <2>5. CASE Count(w) \/ Swap(w) \/ Cancel(w)
    <3>1. ~NeedsDomain(worker[w].name)
      BY <2>5 DEF Count, Swap, Cancel, HonestInv, Asked
    <3>2. \A v \in Guessers : Asked(v)'
      <4>1. CASE Advance(w)
        BY <3>1, <4>1, AdvanceIs, OneAsks
      <4>2. ASSUME NEW at \in {"swap", "cancel"}, Place(w, at) PROVE \A v \in Guessers : Asked(v)'
        BY <3>1, <4>2, PlaceIs, OneAsks
      <4>3. QED BY <2>5, <4>1, <4>2 DEF Count, Swap, Cancel
    <3>3. QED BY <1>1, <2>5, <3>2, HonestStays DEF Count, Swap, Cancel, HonestInv
  <2>6. CASE NameDone(w)
    <3>1. \A v \in Guessers : Asked(v)'
      BY <2>6, PlaceIs, OneAsks DEF NameDone
    <3>2. outcome' = [outcome EXCEPT ![worker[w].name].done = TRUE]
      BY <2>6 DEF NameDone
    <3>3. \A n \in Companies : outcome'[n].said = outcome[n].said
      BY <2>6, <3>2, WorkerIs DEF Outcome
    <3>4. \A n \in Companies, s \in Slots : Honest(n, s)'
      BY <1>1, <2>6, <3>3, ShownStays DEF NameDone, HonestInv, Honest
    <3>5. QED BY <3>1, <3>4 DEF HonestInv
  <2>7. QED BY <1>3, <2>1, <2>2, <2>3, <2>4, <2>5, <2>6 DEF GuessStep
<1>4. QED BY <1>2, <1>3 DEF GuessMoves

\* What a re-check has read is as it was, for the company; what it condemns is what
\* the look-up's report says.
Recheck ==
    /\ cmd \in {"idle", "look", "recheck", "register", "condemn"} /\ round \in Nat
    /\ \A x \in seen : /\ x.company \in Companies /\ x.key \in Slots
                       /\ targets[x.key].company = x.company
    /\ seen \subseteq [key : Slots, company : Names, source : {None, "discover-boards"},
                       active : BOOLEAN]
    /\ stale \subseteq Stale
    /\ cmd # "condemn" => stale = {}

BoardsInv == RegistryInv /\ GuessInv /\ HonestInv /\ Recheck

LEMMA StaleIsSeen == Stale \subseteq seen
BY DEF Stale

LEMMA StaleStays == ASSUME UNCHANGED <<seen, entries, outcome>> PROVE Stale' = Stale
BY DEF Stale, Unchecked, Unreached, Failed, Candidates, BoardsOf, Ambiguous, AllProven, NamedForAnother

\* The registry moves on, and the command does not, or only signals.
LEMMA RecheckStays ==
    ASSUME Recheck, [Gains]_registryVars, UNCHANGED <<seen, entries, outcome>>,
           stale' \subseteq stale,
           cmd' \in {"idle", "look", "recheck", "register", "condemn"}, round' \in Nat,
           cmd' # "condemn" => stale' = {}
    PROVE  Recheck'
<1>1. Stale' = Stale
  BY StaleStays
<1>2. \A x \in seen : targets'[x.key].company = x.company
  <2>1. CASE UNCHANGED registryVars
    BY <2>1 DEF registryVars, Recheck
  <2>2. CASE Gains
    <3>1. \A x \in seen : x.company # None /\ x.key \in Keys
      BY BoardsAssumption, NoneIsNone DEF Recheck
    <3>2. QED BY <2>2, <3>1 DEF Gains, Recheck
  <2>3. QED BY <2>1, <2>2
<1>3. QED BY <1>1, <1>2 DEF Recheck

LEMMA ExistingIs ==
    ASSUME RegistryTypeOK, NEW names \in SUBSET Companies
    PROVE  /\ Existing(names) \subseteq [key : Slots, company : Names, source : {None, "discover-boards"},
                                         active : BOOLEAN]
           /\ \A x \in Existing(names) : /\ x.company \in Companies /\ x.key \in Slots
                                         /\ targets[x.key].company = x.company
<1>1. Slots \subseteq Keys /\ Companies \subseteq Names
  BY BoardsAssumption
<1>2. QED BY <1>1 DEF RegistryTypeOK, Existing

\* Nothing is read, and nothing condemned.
LEMMA NothingRead ==
    ASSUME seen' = {}, stale' = {}, cmd' \in {"idle", "look", "recheck", "register", "condemn"},
           round' \in Nat
    PROVE  Recheck'
BY DEF Recheck

LEMMA RecheckKeeps ==
    ASSUME RegistryInv, Recheck, [BoardsNext]_boardsVars PROVE Recheck'
<1>1. [Gains]_registryVars
  BY StepKeeps
<1>2. round \in Nat /\ cmd \in {"idle", "look", "recheck", "register", "condemn"} /\ stale \subseteq Stale
  BY DEF Recheck
<1>3. CASE LookFor
  BY <1>2, <1>3, NothingRead DEF LookFor, Begin, Recheck
<1>4. CASE LookAgain
  <2>1. PICK more \in {{}, WithBoard(Employers)} : \E names \in Limited(File \cup more) :
           seen' = Existing(names)
    BY <1>4 DEF LookAgain
  <2>2. PICK names \in Limited(File \cup more) : seen' = Existing(names)
    BY <2>1
  <2>3. names \subseteq Companies
    BY <2>2, BoardsAssumption DEF Limited, WithBoard, Employers
  <2>4. cmd' = "recheck" /\ stale' = {} /\ round' \in Nat /\ UNCHANGED targets
    BY <1>2, <1>4 DEF LookAgain, Begin, Recheck
  <2>5. QED BY <2>2, <2>3, <2>4, ExistingIs DEF RegistryInv, Recheck
<1>5. CASE Register
  <2>1. CASE Over
    BY <1>2, <1>5, <2>1, NothingRead DEF Register, Over
  <2>2. CASE ~Over
    <3>1. /\ UNCHANGED <<targets, seen, stale, round>> /\ cmd' = "register" /\ cmd = "look"
      BY <1>5, <2>2 DEF Register
    <3>2. stale' = {}
      BY <3>1 DEF Recheck
    <3>3. QED BY <1>2, <3>1, <3>2 DEF Recheck
  <2>3. QED BY <2>1, <2>2
<1>6. CASE RegistrationOver \/ RecheckOver \/ FinderDies
  BY <1>2, <1>6, NothingRead DEF RegistrationOver, RecheckOver, FinderDies, Over
<1>7. CASE Judge
  <2>1. CASE Over
    BY <1>2, <1>7, <2>1, NothingRead DEF Judge, Over
  <2>2. CASE ~Over
    <3>1. /\ UNCHANGED <<registryVars, guessVars, seen, round>> /\ cmd' = "condemn"
          /\ stale' \subseteq Stale
      BY <1>7, <2>2 DEF Judge
    <3>2. Stale' = Stale
      BY <3>1, StaleStays DEF guessVars
    <3>3. UNCHANGED targets
      BY <3>1 DEF registryVars
    <3>4. QED BY <1>2, <3>1, <3>2, <3>3 DEF Recheck
  <2>3. QED BY <2>1, <2>2
<1>8. ASSUME NEW x \in stale, Condemn(x) \/ CondemnFails(x) PROVE Recheck'
  <2>1. stale' \subseteq stale /\ cmd' = "condemn" /\ UNCHANGED <<seen, entries, outcome, round>>
    BY <1>8 DEF Condemn, CondemnFails, guessVars
  <2>2. QED BY <1>1, <1>2, <2>1, RecheckStays
<1>9. CASE Interrupt \/ GuessMoves \/ RegistryMoves \/ UNCHANGED boardsVars
  <2>1. CASE UNCHANGED <<entries, outcome>>
    <3>1. UNCHANGED <<seen, stale, cmd, round>>
      BY <1>9 DEF Interrupt, GuessMoves, RegistryMoves, boardsVars, commandVars
    <3>2. QED BY <1>1, <1>2, <2>1, <3>1, RecheckStays DEF Recheck
  <2>2. CASE GuessMoves
    <3>1. /\ UNCHANGED <<seen, stale, cmd, round, targets>> /\ cmd \in {"look", "recheck"}
      BY <2>2 DEF GuessMoves, registryVars, commandVars
    <3>2. stale' = {}
      BY <3>1 DEF Recheck
    <3>3. QED BY <1>2, <3>1, <3>2 DEF Recheck
  <2>3. CASE Interrupt \/ RegistryMoves \/ UNCHANGED boardsVars
    BY <2>1, <2>3 DEF Interrupt, Signal, RegistryMoves, boardsVars, guessVars
  <2>4. QED BY <1>9, <2>2, <2>3
<1>10. QED
  BY <1>3, <1>4, <1>5, <1>6, <1>7, <1>8, <1>9 DEF BoardsNext

LEMMA HonestKeeps == BoardsInv /\ [BoardsNext]_boardsVars => HonestInv'
<1> SUFFICES ASSUME BoardsInv, [BoardsNext]_boardsVars PROVE HonestInv' OBVIOUS
<1>1. CASE Afresh
  BY <1>1, AfreshIsHonest
<1>2. CASE GuessMoves
  BY <1>2, HonestGoes DEF BoardsInv
<1>3. ASSUME UNCHANGED <<worker, outcome, board, titled>> PROVE HonestInv'
  BY <1>3, HonestStays DEF BoardsInv, HonestInv, Asked, NeedsDomain, IsCommonName
<1>4. CASE LookFor \/ LookAgain
  BY <1>1, <1>4, LookForFresh, LookAgainFresh DEF BoardsInv, RegistryInv
<1>5. CASE Register \/ RegistrationOver \/ RecheckOver \/ FinderDies \/ Judge
  BY <1>1, <1>3, <1>5, ForgotIsAfresh
     DEF Register, RegistrationOver, RecheckOver, FinderDies, Judge, Over, BoardsInv, guessVars
<1>6. ASSUME NEW x \in stale, Condemn(x) \/ CondemnFails(x) PROVE HonestInv'
  BY <1>3, <1>6 DEF Condemn, CondemnFails, guessVars
<1>7. CASE Interrupt \/ RegistryMoves \/ UNCHANGED boardsVars
  BY <1>3, <1>7 DEF Interrupt, Signal, RegistryMoves, boardsVars, guessVars
<1>8. QED BY <1>2, <1>4, <1>5, <1>6, <1>7 DEF BoardsNext

LEMMA BoardsInvHolds ==
    /\ BoardsInit => BoardsInv
    /\ BoardsInv /\ [BoardsNext]_boardsVars => BoardsInv'
<1>1. BoardsInit => HonestInv
  BY HonestAfresh DEF BoardsInit, GuessIdle
<1>2. BoardsInit => Recheck
  BY DEF BoardsInit, Recheck
<1>3. BoardsInit => BoardsInv
  BY <1>1, <1>2, InitHolds, GuessInit DEF BoardsInv
<1>4. BoardsInv /\ [BoardsNext]_boardsVars => BoardsInv'
  BY StepKeeps, GuessStepKeeps, HonestKeeps, RecheckKeeps DEF BoardsInv, RegistryInv
<1>5. QED BY <1>3, <1>4

LEMMA PoolStays == ASSUME PoolInv, UNCHANGED guessVars PROVE PoolInv'
BY DEF PoolInv, guessVars, Ended

LEMMA CallIsFresh == ASSUME NEW names, GuessCall(names, Titled(names)) PROVE PoolInv'
BY FreshPool DEF GuessCall

LEMMA ForgotIsFresh == ASSUME Forget PROVE PoolInv'
BY FreshPool DEF Forget

LEMMA PoolKeeps == BoardsInv /\ PoolInv /\ [BoardsNext]_boardsVars => PoolInv'
<1> SUFFICES ASSUME BoardsInv, PoolInv, [BoardsNext]_boardsVars PROVE PoolInv' OBVIOUS
<1>1. CASE LookFor \/ LookAgain
  BY <1>1, CallIsFresh DEF LookFor, LookAgain
<1>2. CASE Register \/ RegistrationOver \/ RecheckOver \/ FinderDies \/ Judge
  BY <1>2, ForgotIsFresh, PoolStays
     DEF Register, RegistrationOver, RecheckOver, FinderDies, Judge, Over
<1>3. ASSUME NEW x \in stale, Condemn(x) \/ CondemnFails(x) PROVE PoolInv'
  BY <1>3, PoolStays DEF Condemn, CondemnFails
<1>4. CASE Interrupt
  BY <1>4 DEF Interrupt, Signal, PoolInv, Ended
<1>5. CASE GuessMoves
  <2>1. CASE CloseFeed
    BY <2>1 DEF CloseFeed, PoolInv, Ended
  <2>2. ASSUME NEW w \in Guessers, GuessStep(w) PROVE PoolInv'
    BY <2>2, FeedIsTaken, WorkerStays DEF GuessStep, BoardsInv
  <2>3. QED BY <1>5, <2>1, <2>2 DEF GuessMoves
<1>6. CASE RegistryMoves \/ UNCHANGED boardsVars
  BY <1>6, PoolStays DEF RegistryMoves, boardsVars
<1>7. QED BY <1>1, <1>2, <1>3, <1>4, <1>5, <1>6 DEF BoardsNext

-----------------------------------------------------------------------------
(* The abort.                                                              *)

Counting == {w \in Guessers : worker[w].at = "count"}

\* No slot of n has been probed, from its i-th on.
Unprobed(n, i) == \A a \in i..Len(SlotsOf[n]) : outcome[n].said[SlotsOf[n][a]] = "unasked"

\* A worker has its name for itself, and has yet to probe what it has not left behind.
Alone(w) ==
    LET n == worker[w].name
        k == worker[w].k
    IN worker[w].at # "idle" =>
        /\ n \notin feed
        /\ \A v \in Guessers \ {w} : worker[v].at # "idle" => worker[v].name # n
        /\ worker[w].at \in {"next", "probe"} => Unprobed(n, k)
        /\ worker[w].at \in {"count", "swap", "cancel"} => Unprobed(n, k + 1)

AloneInv ==
    /\ \A w \in Guessers : Alone(w)
    /\ \A n \in feed : Unprobed(n, 1)

\* Every failure is counted once, or is about to be.
CountInv == Cardinality(Failures) = errors + Cardinality(Counting)

\* Whoever reaches the limit aborts, and nobody else.
AbortInv ==
    /\ errors >= MaxErrors => aborted \/ \E w \in Guessers : worker[w].at = "swap"
    /\ \A w \in Guessers : worker[w].at = "swap" => errors >= MaxErrors
    /\ aborted => errors >= MaxErrors
    /\ \A w \in Guessers : worker[w].at = "cancel" => aborted
    /\ canceled => aborted

TallyInv == AloneInv /\ CountInv /\ AbortInv

LEMMA OneByOne ==
    ASSUME NEW n \in Companies, NEW i \in 1..Len(SlotsOf[n]), NEW a \in 1..Len(SlotsOf[n]),
           SlotsOf[n][i] = SlotsOf[n][a]
    PROVE  i = a
BY GuessAssumption

LEMMA FailuresFinite == IsFiniteSet(Failures) /\ Cardinality(Failures) \in Nat
<1>1. IsFiniteSet(Companies \X Slots)
  BY GuessAssumption, FS_Product
<1>2. Failures \subseteq Companies \X Slots
  BY DEF Failures
<1>3. QED BY <1>1, <1>2, FS_Subset, FS_CardinalityType

LEMMA CountingFinite == IsFiniteSet(Counting) /\ Cardinality(Counting) \in Nat
<1>1. Counting \subseteq Guessers
  BY DEF Counting
<1>2. QED BY <1>1, Assumed, FS_Subset, FS_CardinalityType

LEMMA TallyBegins ==
    ASSUME worker = [w \in Guessers |-> Nowhere], outcome = [n \in Companies |-> Unasked],
           feed \subseteq Companies, errors = 0, aborted = FALSE, canceled = FALSE
    PROVE  TallyInv
<1>1. \A w \in Guessers : worker[w].at = "idle"
  BY DEF Nowhere
<1>2. \A n \in Companies, s \in Slots : outcome[n].said[s] = "unasked"
  BY DEF Unasked
<1>3. \A n \in feed : Unprobed(n, 1)
  <2>1. \A n \in feed : \A a \in 1..Len(SlotsOf[n]) : SlotsOf[n][a] \in Slots
    BY Assumed
  <2>2. QED BY <1>2, <2>1 DEF Unprobed
<1>4. CountInv
  <2>1. Counting = {} /\ Failures = {}
    BY <1>1, <1>2 DEF Counting, Failures
  <2>2. QED BY <2>1, FS_EmptySet DEF CountInv
<1>5. AbortInv
  BY <1>1, Assumed DEF AbortInv
<1>6. QED BY <1>1, <1>3, <1>4, <1>5 DEF TallyInv, AloneInv, Alone

LEMMA TallyAfresh == ASSUME Afresh PROVE TallyInv'
<1>1. \A w \in Guessers : worker'[w].at = "idle"
  BY DEF Afresh, Nowhere
<1>2. \A n \in Companies, s \in Slots : outcome'[n].said[s] = "unasked"
  BY DEF Afresh, Unasked
<1>3. \A n \in feed' : Unprobed(n, 1)'
  <2>1. feed' \subseteq Companies
    BY DEF Afresh
  <2>2. \A n \in feed' : \A a \in 1..Len(SlotsOf[n]) : SlotsOf[n][a] \in Slots
    BY <2>1, Assumed
  <2>3. QED BY <1>2, <2>1, <2>2 DEF Unprobed
<1>4. CountInv'
  <2>1. Counting' = {} /\ Failures' = {}
    BY <1>1, <1>2 DEF Counting, Failures
  <2>2. QED BY <2>1, FS_EmptySet DEF CountInv, Afresh
<1>5. AbortInv'
  BY <1>1, Assumed DEF AbortInv, Afresh
<1>6. QED BY <1>1, <1>3, <1>4, <1>5 DEF TallyInv, AloneInv, Alone

LEMMA TallyStays ==
    ASSUME TallyInv, UNCHANGED <<feed, worker, outcome, errors, aborted, canceled>>
    PROVE  TallyInv'
<1>1. AloneInv'
  BY DEF TallyInv, AloneInv, Alone, Unprobed
<1>2. CountInv'
  BY DEF TallyInv, CountInv, Counting, Failures
<1>3. AbortInv'
  BY DEF TallyInv, AbortInv
<1>4. QED BY <1>1, <1>2, <1>3 DEF TallyInv

\* A worker goes on with its name, and hears of no other.
LEMMA AloneKept ==
    ASSUME GuessInv, AloneInv, NEW w \in Guessers, NEW x \in WorkerState,
           worker' = [worker EXCEPT ![w] = x], x.name = worker[w].name, worker[w].at # "idle",
           UNCHANGED feed,
           \A n \in Companies \ {x.name} : outcome'[n].said = outcome[n].said,
           x.at \in {"next", "probe"} => Unprobed(x.name, x.k)',
           x.at \in {"count", "swap", "cancel"} => Unprobed(x.name, x.k + 1)'
    PROVE  AloneInv'
<1>1. worker'[w] = x /\ \A v \in Guessers \ {w} : worker'[v] = worker[v]
  BY DEF GuessInv, GuessTypeOK
<1>2. ASSUME NEW n \in Companies \ {x.name}, NEW i PROVE Unprobed(n, i) => Unprobed(n, i)'
  BY <1>2 DEF Unprobed
<1>3. Alone(w)'
  BY <1>1 DEF Alone, AloneInv
<1>4. ASSUME NEW v \in Guessers \ {w} PROVE Alone(v)'
  <2>1. SUFFICES ASSUME worker[v].at # "idle" PROVE Alone(v)'
    BY <1>1 DEF Alone
  <2>2. worker[v].name \in Companies /\ worker[v].name # x.name
    BY <2>1, WorkerIs DEF AloneInv, Alone
  <2>3. Alone(v) /\ \A u \in Guessers \ {v} : worker'[u].at # "idle" => worker'[u].name # worker[v].name
    BY <1>1, <2>1, <2>2 DEF AloneInv, Alone
  <2>4. QED BY <1>1, <1>2, <2>1, <2>2, <2>3 DEF Alone
<1>5. ASSUME NEW n \in feed' PROVE Unprobed(n, 1)'
  <2>1. n \in Companies /\ n # x.name
    BY DEF GuessInv, GuessTypeOK, AloneInv, Alone
  <2>2. QED BY <1>2, <2>1 DEF AloneInv
<1>6. QED BY <1>3, <1>4, <1>5 DEF AloneInv

LEMMA UnprobedStays ==
    ASSUME NEW n, NEW i, Unprobed(n, i), UNCHANGED outcome
    PROVE  Unprobed(n, i)'
BY DEF Unprobed

\* The slots after a worker's have not been probed when it leaves its own.
ProbedNext(w) == \A n, i : n = worker[w].name /\ i = worker[w].k + 1 => Unprobed(n, i)'

\* What a probe brings.
LEMMA ProbedIs ==
    ASSUME GuessInv, AloneInv, NEW w \in Guessers, worker[w].at = "probe",
           NEW what \in Verdicts \cup {"failed"}, Said(w, what)
    PROVE  /\ \A n \in Companies \ {worker[w].name} : outcome'[n].said = outcome[n].said
           /\ ProbedNext(w)
           /\ Failures' = IF what = "failed" THEN Failures \cup {<<worker[w].name, Slot(w)>>} ELSE Failures
           /\ <<worker[w].name, Slot(w)>> \notin Failures
<1> PICK n, k, s : n = worker[w].name /\ k = worker[w].k /\ s = Slot(w) OBVIOUS
<1>1. /\ outcome \in [Companies -> Outcome] /\ n \in Companies /\ s \in Slots
      /\ k \in 1..Len(SlotsOf[n]) /\ Len(SlotsOf[n]) \in Nat /\ s = SlotsOf[n][k]
  BY WorkerIs DEF Slot
<1>2. outcome' = [outcome EXCEPT ![n].said[s] = what]
  BY DEF Said
<1>3. /\ \A m \in Companies \ {n} : outcome'[m].said = outcome[m].said
      /\ \A t \in Slots \ {s} : outcome'[n].said[t] = outcome[n].said[t]
      /\ outcome'[n].said[s] = what
  BY <1>1, <1>2 DEF Outcome
<1>4. Unprobed(n, k)
  BY DEF AloneInv, Alone
<1>5. outcome[n].said[s] = "unasked"
  BY <1>1, <1>4 DEF Unprobed
<1>6. Unprobed(n, k + 1)'
  <2>1. ASSUME NEW a \in (k + 1)..Len(SlotsOf[n]) PROVE outcome'[n].said[SlotsOf[n][a]] = "unasked"
    <3>1. a \in k..Len(SlotsOf[n]) /\ a \in 1..Len(SlotsOf[n]) /\ a # k
      BY <1>1
    <3>2. SlotsOf[n][a] \in Slots \ {s}
      BY <1>1, <3>1, Assumed, OneByOne
    <3>3. QED BY <1>3, <1>4, <3>1, <3>2 DEF Unprobed
  <2>2. QED BY <2>1 DEF Unprobed
<1>7. <<n, s>> \notin Failures
  BY <1>5 DEF Failures
<1>8. ASSUME NEW c \in Companies \X Slots
      PROVE  c \in Failures' <=> IF c = <<n, s>> THEN what = "failed" ELSE c \in Failures
  <2>1. c = <<c[1], c[2]>> /\ c[1] \in Companies /\ c[2] \in Slots
    OBVIOUS
  <2>2. CASE c = <<n, s>>
    BY <1>3, <2>2 DEF Failures
  <2>3. CASE c # <<n, s>>
    <3>1. c[1] # n \/ c[2] # s
      BY <2>1, <2>3
    <3>2. outcome'[c[1]].said[c[2]] = outcome[c[1]].said[c[2]]
      BY <1>3, <2>1, <3>1
    <3>3. QED BY <2>3, <3>2 DEF Failures
  <2>4. QED BY <2>2, <2>3
<1>9. Failures' = IF what = "failed" THEN Failures \cup {<<n, s>>} ELSE Failures
  <2>1. Failures \subseteq Companies \X Slots /\ Failures' \subseteq Companies \X Slots
        /\ <<n, s>> \in Companies \X Slots
    BY <1>1 DEF Failures
  <2>2. QED BY <1>7, <1>8, <2>1
<1>10. QED BY <1>3, <1>6, <1>7, <1>9 DEF ProbedNext

\* Neither a failure nor a count.
LEMMA NothingCounted ==
    ASSUME GuessInv, CountInv, AbortInv, NEW w \in Guessers, NEW x \in WorkerState,
           worker' = [worker EXCEPT ![w] = x],
           {worker[w].at, x.at} \cap {"count", "swap", "cancel"} = {},
           Failures' = Failures, UNCHANGED <<errors, aborted, canceled>>
    PROVE  CountInv' /\ AbortInv'
<1>1. worker'[w] = x /\ \A v \in Guessers \ {w} : worker'[v] = worker[v]
  BY DEF GuessInv, GuessTypeOK
<1>2. Counting' = Counting
  BY <1>1 DEF Counting
<1>3. CountInv'
  BY <1>2 DEF CountInv
<1>4. \A v \in Guessers, at \in {"swap", "cancel"} : worker'[v].at = at <=> worker[v].at = at
  BY <1>1
<1>5. QED BY <1>3, <1>4 DEF AbortInv

LEMMA SaidStays == ASSUME UNCHANGED outcome PROVE Failures' = Failures
BY DEF Failures

LEMMA FeedTallies == ASSUME GuessInv, TallyInv, NEW w \in Guessers, Feed(w) PROVE TallyInv'
<1>1. PICK n \in feed : /\ feed' = feed \ {n} /\ worker[w].at = "idle"
                        /\ worker' = [worker EXCEPT ![w] = [at |-> IF NeedsDomain(n) THEN "end" ELSE "next",
                                                            name |-> n, k |-> 1]]
  BY DEF Feed
<1> DEFINE x == [at |-> IF NeedsDomain(n) THEN "end" ELSE "next", name |-> n, k |-> 1]
<1>2. n \in Companies
  BY DEF GuessInv, GuessTypeOK
<1>3. x \in WorkerState /\ x.at \in {"end", "next"} /\ x.name = n /\ x.k = 1
  BY <1>2 DEF WorkerState
<1>4. worker' = [worker EXCEPT ![w] = x]
  BY <1>1
<1> HIDE DEF x
<1>5. worker'[w] = x /\ \A v \in Guessers \ {w} : worker'[v] = worker[v]
  BY <1>4 DEF GuessInv, GuessTypeOK
<1>6. UNCHANGED <<outcome, errors, aborted, canceled>>
  BY DEF Feed
<1>7. \A m, i : Unprobed(m, i) => Unprobed(m, i)'
  BY <1>6 DEF Unprobed
<1>8. AloneInv'
  <2>1. Alone(w)'
    BY <1>1, <1>3, <1>5, <1>7 DEF TallyInv, AloneInv, Alone
  <2>2. ASSUME NEW v \in Guessers \ {w} PROVE Alone(v)'
    <3>1. Alone(v) /\ worker'[v] = worker[v]
      BY <1>5 DEF TallyInv, AloneInv
    <3>2. worker[v].at # "idle" => worker[v].name # n /\ worker[v].name \notin feed'
      BY <1>1, <3>1 DEF Alone
    <3>3. worker[v].at # "idle" =>
             \A u \in Guessers \ {v} : worker'[u].at # "idle" => worker'[u].name # worker[v].name
      BY <1>3, <1>5, <3>1, <3>2 DEF Alone
    <3>4. QED BY <1>7, <3>1, <3>2, <3>3 DEF Alone
  <2>3. \A m \in feed' : Unprobed(m, 1)'
    BY <1>1, <1>7 DEF TallyInv, AloneInv
  <2>4. QED BY <2>1, <2>2, <2>3 DEF AloneInv
<1>9. {worker[w].at, x.at} \cap {"count", "swap", "cancel"} = {}
  BY <1>1, <1>3
<1>10. Failures' = Failures
  BY <1>6, SaidStays
<1>11. CountInv' /\ AbortInv'
  BY <1>3, <1>4, <1>6, <1>9, <1>10, NothingCounted DEF TallyInv
<1>12. QED BY <1>8, <1>11 DEF TallyInv

LEMMA NextSlotTallies == ASSUME GuessInv, TallyInv, NEW w \in Guessers, NextSlot(w) PROVE TallyInv'
<1>1. PICK at \in {"idle", "probe", "end"} : Place(w, at)
  BY DEF NextSlot
<1>2. worker[w].at = "next" /\ UNCHANGED <<feed, outcome, errors, aborted, canceled>>
  BY DEF NextSlot
<1>3. PICK x \in WorkerState : /\ x.at = at /\ x.name = worker[w].name /\ x.k = worker[w].k
                               /\ worker' = [worker EXCEPT ![w] = x]
  BY <1>1, PlaceIs
<1>4. Unprobed(x.name, x.k)'
  BY <1>2, <1>3, UnprobedStays DEF TallyInv, AloneInv, Alone
<1>5. AloneInv'
  BY <1>2, <1>3, <1>4, AloneKept DEF TallyInv
<1>6. QED BY <1>2, <1>3, <1>5, SaidStays, NothingCounted DEF TallyInv

LEMMA AnswerTallies == ASSUME GuessInv, TallyInv, NEW w \in Guessers, Answer(w) PROVE TallyInv'
<1>1. PICK v \in Verdicts : Said(w, v)
  BY VerdictTyped DEF Answer
<1>2. worker[w].at = "probe" /\ Advance(w) /\ UNCHANGED <<feed, errors, aborted, canceled>>
  BY DEF Answer
<1>3. PICK x \in WorkerState : /\ x.at = "next" /\ x.name = worker[w].name /\ x.k = worker[w].k + 1
                               /\ worker' = [worker EXCEPT ![w] = x]
  BY <1>2, AdvanceIs
<1>4. v # "failed"
  BY DEF Verdicts
<1>5. /\ \A n \in Companies \ {worker[w].name} : outcome'[n].said = outcome[n].said
      /\ ProbedNext(w) /\ Failures' = Failures
  BY <1>1, <1>2, <1>4, ProbedIs DEF TallyInv
<1>6. AloneInv'
  BY <1>2, <1>3, <1>5, AloneKept DEF TallyInv, ProbedNext
<1>7. QED BY <1>2, <1>3, <1>5, <1>6, NothingCounted DEF TallyInv

LEMMA ProbeFailsTallies == ASSUME GuessInv, TallyInv, NEW w \in Guessers, ProbeFails(w) PROVE TallyInv'
<1>1. worker[w].at = "probe" /\ UNCHANGED <<feed, errors, aborted, canceled>>
  BY DEF ProbeFails
<1>2. CASE Place(w, "idle") /\ UNCHANGED outcome
  <2>1. PICK x \in WorkerState : /\ x.at = "idle" /\ x.name = worker[w].name
                                 /\ worker' = [worker EXCEPT ![w] = x]
    BY <1>2, PlaceIs
  <2>2. AloneInv'
    BY <1>1, <1>2, <2>1, AloneKept DEF TallyInv
  <2>3. QED BY <1>1, <1>2, <2>1, <2>2, SaidStays, NothingCounted DEF TallyInv
<1>3. CASE Place(w, "count") /\ Said(w, "failed")
  <2>1. PICK x \in WorkerState : /\ x.at = "count" /\ x.name = worker[w].name /\ x.k = worker[w].k
                                 /\ worker' = [worker EXCEPT ![w] = x]
    BY <1>3, PlaceIs
  <2>2. /\ \A n \in Companies \ {worker[w].name} : outcome'[n].said = outcome[n].said
        /\ ProbedNext(w)
        /\ Failures' = Failures \cup {<<worker[w].name, Slot(w)>>}
        /\ <<worker[w].name, Slot(w)>> \notin Failures
    BY <1>1, <1>3, ProbedIs DEF TallyInv
  <2>3. AloneInv'
    BY <1>1, <2>1, <2>2, AloneKept DEF TallyInv, ProbedNext
  <2>4. worker'[w] = x /\ \A v \in Guessers \ {w} : worker'[v] = worker[v]
    BY <2>1 DEF GuessInv, GuessTypeOK
  <2>5. Counting' = Counting \cup {w} /\ w \notin Counting
    BY <1>1, <2>1, <2>4 DEF Counting
  <2>6. CountInv'
    <3>1. Cardinality(Failures') = Cardinality(Failures) + 1
      BY <2>2, FailuresFinite, FS_AddElement
    <3>2. Cardinality(Counting') = Cardinality(Counting) + 1
      BY <2>5, CountingFinite, FS_AddElement
    <3>3. errors \in Nat
      BY DEF GuessInv, GuessTypeOK
    <3>4. QED BY <1>1, <3>1, <3>2, <3>3, FailuresFinite, CountingFinite DEF TallyInv, CountInv
  <2>7. AbortInv'
    <3>1. \A v \in Guessers, at \in {"swap", "cancel"} : worker'[v].at = at <=> worker[v].at = at
      BY <1>1, <2>1, <2>4
    <3>2. QED BY <1>1, <3>1 DEF TallyInv, AbortInv
  <2>8. QED BY <2>3, <2>6, <2>7 DEF TallyInv
<1>4. QED BY <1>2, <1>3 DEF ProbeFails

\* A failure is met, and the worker is on its way to the next slot.
LEMMA MetAlready ==
    ASSUME GuessInv, AloneInv, NEW w \in Guessers, worker[w].at \in {"count", "swap", "cancel"},
           UNCHANGED <<feed, outcome>>, NEW x \in WorkerState, worker' = [worker EXCEPT ![w] = x],
           x.name = worker[w].name,
           \/ x.at = "next" /\ x.k = worker[w].k + 1
           \/ x.at \in {"swap", "cancel"} /\ x.k = worker[w].k
    PROVE  /\ AloneInv'
           /\ worker'[w] = x /\ \A v \in Guessers \ {w} : worker'[v] = worker[v]
<1>1. ProbedNext(w)
  BY UnprobedStays DEF AloneInv, Alone, ProbedNext
<1>2. AloneInv'
  BY <1>1, AloneKept DEF ProbedNext
<1>3. worker'[w] = x /\ \A v \in Guessers \ {w} : worker'[v] = worker[v]
  BY DEF GuessInv, GuessTypeOK
<1>4. QED BY <1>2, <1>3

LEMMA CountTallies == ASSUME GuessInv, TallyInv, NEW w \in Guessers, Count(w) PROVE TallyInv'
<1>1. worker[w].at = "count" /\ errors' = errors + 1 /\ UNCHANGED <<feed, outcome, aborted, canceled>>
  BY DEF Count
<1>2. errors \in Nat /\ MaxErrors \in Nat
  BY Assumed DEF GuessInv, GuessTypeOK
<1>3. PICK x \in WorkerState :
         /\ x.name = worker[w].name /\ worker' = [worker EXCEPT ![w] = x]
         /\ \/ x.at = "next" /\ x.k = worker[w].k + 1 /\ errors + 1 < MaxErrors
            \/ x.at = "swap" /\ x.k = worker[w].k /\ errors + 1 >= MaxErrors
  <2>1. CASE Advance(w) /\ errors + 1 < MaxErrors
    BY <2>1, AdvanceIs
  <2>2. CASE Place(w, "swap") /\ errors + 1 >= MaxErrors
    BY <2>2, PlaceIs
  <2>3. QED BY <1>2, <2>1, <2>2 DEF Count
<1>4. AloneInv' /\ worker'[w] = x /\ \A v \in Guessers \ {w} : worker'[v] = worker[v]
  BY <1>1, <1>3, MetAlready DEF TallyInv
<1>5. CountInv'
  <2>1. Counting' = Counting \ {w} /\ w \in Counting
    BY <1>1, <1>3, <1>4 DEF Counting
  <2>2. Cardinality(Counting') = Cardinality(Counting) - 1
    BY <2>1, CountingFinite, FS_RemoveElement
  <2>3. Failures' = Failures
    BY <1>1, SaidStays
  <2>4. QED BY <1>1, <1>2, <2>2, <2>3, CountingFinite, FailuresFinite DEF TallyInv, CountInv
<1>6. AbortInv'
  <2>1. errors' >= MaxErrors => aborted' \/ \E v \in Guessers : worker'[v].at = "swap"
    <3>1. CASE x.at = "swap"
      BY <1>4, <3>1
    <3>2. CASE x.at # "swap"
      BY <1>1, <1>2, <1>3, <3>2
    <3>3. QED BY <3>1, <3>2
  <2>2. \A v \in Guessers : worker'[v].at = "swap" => errors' >= MaxErrors
    BY <1>1, <1>2, <1>3, <1>4 DEF TallyInv, AbortInv
  <2>3. aborted' => errors' >= MaxErrors
    BY <1>1, <1>2 DEF TallyInv, AbortInv
  <2>4. \A v \in Guessers : worker'[v].at = "cancel" => aborted'
    BY <1>1, <1>3, <1>4 DEF TallyInv, AbortInv
  <2>5. QED BY <1>1, <2>1, <2>2, <2>3, <2>4 DEF TallyInv, AbortInv
<1>7. QED BY <1>4, <1>5, <1>6 DEF TallyInv

LEMMA SwapTallies == ASSUME GuessInv, TallyInv, NEW w \in Guessers, Swap(w) PROVE TallyInv'
<1>1. worker[w].at = "swap" /\ aborted' = TRUE /\ UNCHANGED <<feed, outcome, errors, canceled>>
  BY DEF Swap
<1>2. PICK x \in WorkerState :
         /\ x.name = worker[w].name /\ worker' = [worker EXCEPT ![w] = x]
         /\ \/ x.at = "next" /\ x.k = worker[w].k + 1
            \/ x.at = "cancel" /\ x.k = worker[w].k
  BY AdvanceIs, PlaceIs DEF Swap
<1>3. AloneInv' /\ worker'[w] = x /\ \A v \in Guessers \ {w} : worker'[v] = worker[v]
  BY <1>1, <1>2, MetAlready DEF TallyInv
<1>4. CountInv'
  <2>1. Counting' = Counting
    BY <1>1, <1>2, <1>3 DEF Counting
  <2>2. QED BY <1>1, <2>1, SaidStays DEF TallyInv, CountInv
<1>5. AbortInv'
  BY <1>1, <1>2, <1>3 DEF TallyInv, AbortInv
<1>6. QED BY <1>3, <1>4, <1>5 DEF TallyInv

LEMMA CancelTallies == ASSUME GuessInv, TallyInv, NEW w \in Guessers, Cancel(w) PROVE TallyInv'
<1>1. /\ worker[w].at = "cancel" /\ canceled' = TRUE /\ Advance(w)
      /\ UNCHANGED <<feed, outcome, errors, aborted>>
  BY DEF Cancel
<1>2. PICK x \in WorkerState : /\ x.at = "next" /\ x.name = worker[w].name /\ x.k = worker[w].k + 1
                               /\ worker' = [worker EXCEPT ![w] = x]
  BY <1>1, AdvanceIs
<1>3. AloneInv' /\ worker'[w] = x /\ \A v \in Guessers \ {w} : worker'[v] = worker[v]
  BY <1>1, <1>2, MetAlready DEF TallyInv
<1>4. CountInv'
  <2>1. Counting' = Counting
    BY <1>1, <1>2, <1>3 DEF Counting
  <2>2. QED BY <1>1, <2>1, SaidStays DEF TallyInv, CountInv
<1>5. AbortInv'
  BY <1>1, <1>2, <1>3 DEF TallyInv, AbortInv
<1>6. QED BY <1>3, <1>4, <1>5 DEF TallyInv

LEMMA NameDoneTallies == ASSUME GuessInv, TallyInv, NEW w \in Guessers, NameDone(w) PROVE TallyInv'
<1>1. /\ worker[w].at = "end" /\ Place(w, "idle") /\ UNCHANGED <<feed, errors, aborted, canceled>>
      /\ outcome' = [outcome EXCEPT ![worker[w].name].done = TRUE]
  BY DEF NameDone
<1>2. PICK x \in WorkerState : /\ x.at = "idle" /\ x.name = worker[w].name
                               /\ worker' = [worker EXCEPT ![w] = x]
  BY <1>1, PlaceIs
<1>3. \A n \in Companies : outcome'[n].said = outcome[n].said
  BY <1>1, WorkerIs DEF Outcome
<1>4. AloneInv'
  BY <1>1, <1>2, <1>3, AloneKept DEF TallyInv
<1>5. Failures' = Failures
  BY <1>3 DEF Failures
<1>6. QED BY <1>1, <1>2, <1>4, <1>5, NothingCounted DEF TallyInv

LEMMA TallyKeeps == BoardsInv /\ TallyInv /\ [BoardsNext]_boardsVars => TallyInv'
<1> SUFFICES ASSUME BoardsInv, TallyInv, [BoardsNext]_boardsVars PROVE TallyInv' OBVIOUS
<1>1. CASE LookFor \/ LookAgain
  BY <1>1, LookForFresh, LookAgainFresh, TallyAfresh DEF BoardsInv, RegistryInv
<1>2. CASE Register \/ RegistrationOver \/ RecheckOver \/ FinderDies \/ Judge
  <2>1. CASE Forget /\ UNCHANGED board
    BY <2>1, ForgotIsAfresh, TallyAfresh DEF BoardsInv
  <2>2. CASE UNCHANGED guessVars
    BY <2>2, TallyStays DEF guessVars
  <2>3. QED
    BY <1>2, <2>1, <2>2 DEF Register, RegistrationOver, RecheckOver, FinderDies, Judge, Over
<1>3. ASSUME NEW x \in stale, Condemn(x) \/ CondemnFails(x) PROVE TallyInv'
  BY <1>3, TallyStays DEF Condemn, CondemnFails, guessVars
<1>4. CASE Interrupt
  BY <1>4, TallyStays DEF Interrupt, Signal
<1>5. CASE GuessMoves
  <2>1. CASE CloseFeed
    BY <2>1, TallyStays DEF CloseFeed
  <2>2. ASSUME NEW w \in Guessers, GuessStep(w) PROVE TallyInv'
    BY <2>2, FeedTallies, NextSlotTallies, AnswerTallies, ProbeFailsTallies, CountTallies,
       SwapTallies, CancelTallies, NameDoneTallies DEF GuessStep, BoardsInv
  <2>3. QED BY <1>5, <2>1, <2>2 DEF GuessMoves
<1>6. CASE RegistryMoves \/ UNCHANGED boardsVars
  BY <1>6, TallyStays DEF RegistryMoves, boardsVars, guessVars
<1>7. QED BY <1>1, <1>2, <1>3, <1>4, <1>5, <1>6 DEF BoardsNext

LEMMA TallyInit == BoardsInit => TallyInv
BY TallyBegins DEF BoardsInit, GuessIdle

LEMMA AbortIs == ASSUME GuessInv, TallyInv PROVE BlockedIsAborted
<1> SUFFICES ASSUME Returned PROVE aborted <=> Cardinality(Failures) >= MaxErrors
  BY DEF BlockedIsAborted
<1>1. \A w \in Guessers : worker[w].at = "idle"
  BY DEF Returned
<1>2. Counting = {}
  BY <1>1 DEF Counting
<1>3. Cardinality(Failures) = errors
  BY <1>2, FS_EmptySet DEF TallyInv, CountInv, GuessInv, GuessTypeOK
<1>4. QED BY <1>1, <1>3 DEF TallyInv, AbortInv

-----------------------------------------------------------------------------
(* What the command does.                                                  *)

LEMMA CheckedIs == ASSUME GuessInv PROVE SlotsAnswered
<1>1. ASSUME NEW n \in entries, outcome[n].done, ~Failed(n), ~NeedsDomain(n)
      PROVE  \A i \in 1..Len(SlotsOf[n]) : outcome[n].said[SlotsOf[n][i]] \in Verdicts
  <2>1. n \in Companies
    BY DEF GuessInv, GuessTypeOK
  <2>2. \A i \in 1..Len(SlotsOf[n]) : SlotsOf[n][i] \in Slots /\ Answered1(n, i)
    BY <1>1, <2>1, Assumed DEF GuessInv, Settled
  <2>3. QED BY <1>1, <2>2 DEF Failed, Answered1
<1>2. QED BY <1>1 DEF SlotsAnswered

LEMMA CondemnedIs ==
    ASSUME BoardsInv, NEW x \in stale
    PROVE  /\ x.source = "discover-boards" /\ Evidence(x.company, x.key)
           /\ targets[x.key].company = x.company
<1>1. x \in Stale /\ x \in seen
  BY StaleIsSeen DEF BoardsInv, Recheck
<1>2. x.company \in Companies /\ x.key \in Slots /\ targets[x.key].company = x.company
  BY <1>1 DEF BoardsInv, Recheck
<1>3. x.source = "discover-boards" /\ ~Unchecked(x.company) /\ <<x.company, x.key>> \in NamedForAnother
  BY <1>1 DEF Stale
<1>4. x.company \in entries /\ outcome[x.company].done /\ outcome[x.company].said[x.key] = "other"
  BY <1>3 DEF NamedForAnother
<1>5. ForAnother(x.company, x.key)
  BY <1>2, <1>4 DEF BoardsInv, HonestInv, Honest
<1>6. ~Failed(x.company)
  BY <1>3, <1>4 DEF Unchecked
<1>7. \A i \in 1..Len(SlotsOf[x.company]) : outcome[x.company].said[SlotsOf[x.company][i]] \in Verdicts
  BY <1>4, <1>5, <1>6, CheckedIs DEF BoardsInv, SlotsAnswered, ForAnother
<1>8. QED BY <1>2, <1>3, <1>5, <1>7 DEF Evidence, ForAnother

\* Two boards of a company that verify make it ambiguous, unless both are proven.
LEMMA CandidateIsProven ==
    ASSUME BoardsInv, NEW n \in Companies, NEW s \in Slots, <<n, s>> \in Candidates
    PROVE  Proof(n, s)
<1>1. s \in BoardsOf(n) /\ outcome[n].said[s] \in Verified /\ outcome[n].done /\ ~Ambiguous(n)
  BY DEF Candidates, BoardsOf
<1>2. Shown(n, s)
  BY <1>1 DEF BoardsInv, HonestInv, Honest
<1>3. ASSUME NEW s2 \in Slots \ {s}, outcome[n].said[s2] \in Verified
      PROVE  {outcome[n].said[s], outcome[n].said[s2]} = {"proven"}
  <2>1. {s, s2} \subseteq BoardsOf(n) /\ Cardinality({s, s2}) = 2
    <3>1. {s, s2} \subseteq BoardsOf(n)
      BY <1>1, <1>3 DEF BoardsOf
    <3>2. IsFiniteSet({s}) /\ Cardinality({s}) = 1
      BY FS_Singleton
    <3>3. {s, s2} = {s} \cup {s2} /\ s2 \notin {s}
      OBVIOUS
    <3>4. Cardinality({s, s2}) = Cardinality({s}) + 1
      <4> DEFINE one == {s}
      <4>1. IsFiniteSet(one) /\ s2 \notin one
        BY <3>2, <3>3
      <4> HIDE DEF one
      <4>2. Cardinality(one \cup {s2}) = Cardinality(one) + 1
        BY <4>1, FS_AddElement
      <4>3. QED BY <3>3, <4>2 DEF one
    <3>5. QED BY <3>1, <3>2, <3>4
  <2>2. IsFiniteSet(BoardsOf(n)) /\ Cardinality({s, s2}) <= Cardinality(BoardsOf(n))
        /\ Cardinality(BoardsOf(n)) \in Nat
    <3>1. BoardsOf(n) \subseteq Slots /\ IsFiniteSet(Slots)
      BY GuessAssumption DEF BoardsOf
    <3>2. IsFiniteSet(BoardsOf(n))
      BY <3>1, FS_Subset
    <3>3. QED BY <2>1, <3>2, FS_Subset, FS_CardinalityType
  <2>3. AllProven(n)
    BY <1>1, <2>1, <2>2 DEF Ambiguous
  <2>4. outcome[n].said[s] = "proven" /\ outcome[n].said[s2] = "proven"
    BY <2>1, <2>3 DEF AllProven
  <2>5. QED BY <2>4
<1>4. QED BY <1>2, <1>3 DEF Proof

\* The task for a candidate is the one that is queued.
LEMMA RegistrationIs ==
    ASSUME NEW n \in Companies, NEW s \in Slots
    PROVE  Registration(n, s) \in Tasks /\ Registration(n, s).name = n /\ Registration(n, s).keys = {s}
<1> DEFINE t == [by |-> Finder, name |-> n, site |-> None, probe |-> FALSE, priority |-> "no",
                 keys |-> {s}, says |-> "discover-boards", market |-> None]
<1>1. t \in {u \in Tasks : u.by = Finder} /\ t.name = n /\ t.keys = {s}
  BY BoardsAssumption
<1> HIDE DEF t
<1>2. \E u \in Tasks : u.by = Finder /\ u.name = n /\ u.keys = {s}
  BY <1>1
<1>3. QED BY <1>2 DEF Registration

\* A step may put a registration in the queue.
Queues(t) == t.by = Finder /\ task[t].at # "queued" /\ task'[t].at = "queued"

LEMMA QueuedOnProof ==
    ASSUME BoardsInv, [BoardsNext]_boardsVars, NEW t \in Tasks, Queues(t), NEW s \in t.keys
    PROVE  Proof(t.name, s)
<1>1. task \in [Tasks -> TaskState]
  BY DEF BoardsInv, RegistryInv, RegistryTypeOK, TaskState
<1>2. ASSUME NEW at \in {"probe", "company", "failed", "flag", "target"}, NEW u \in Tasks, Goto(u, at)
      PROVE  FALSE
  <2>1. task'[t].at \in {at, task[t].at}
    BY <1>1, <1>2 DEF Goto, TaskState
  <2>2. QED BY <1>2, <2>1 DEF Queues
<1>3. ASSUME NEW u \in Tasks, NEW k, NEW ok, Settle(u, k, ok) PROVE FALSE
  <2>1. task'[t].at \in {"target", "failed", "done", task[t].at}
    BY <1>1, <1>3 DEF Settle, TaskState
  <2>2. QED BY <2>1 DEF Queues
<1>4. ASSUME NEW S, task' = [u \in Tasks |-> IF u \in S THEN Off ELSE task[u]] PROVE FALSE
  BY <1>4 DEF Off, Queues
<1>5. ASSUME UNCHANGED task PROVE FALSE
  BY <1>5 DEF Queues
<1>6. CASE \E u \in Tasks : RegistryStep(u)
  <2>1. PICK u \in Tasks : RegistryStep(u)
    BY <1>6
  <2>2. CASE \E k \in Keys : UpsertTarget(u, k) \/ TargetFails(u, k)
    BY <1>3, <2>2 DEF UpsertTarget, TargetFails
  <2>3. CASE Dispatch(u) \/ ProbePage(u) \/ UpsertCompany(u) \/ SetPriority(u) \/ CompanyFails(u)
    BY <1>2, <2>3 DEF Dispatch, ProbePage, UpsertCompany, AfterCompany, SetPriority, CompanyFails
  <2>4. QED BY <2>1, <2>2, <2>3 DEF RegistryStep
<1>7. ASSUME NEW p \in Procs, Other(p) PROVE FALSE
  <2>1. PICK ts \in ToRegister(p) : Queue(ts)
    BY <1>7 DEF Other
  <2>2. t \notin ts
    BY <1>7 DEF Other, ToRegister, Queues
  <2>3. task'[t] = task[t]
    BY <2>1, <2>2 DEF Queue
  <2>4. QED BY <2>3 DEF Queues
<1>8. ASSUME NEW p \in Procs, OthersStop(p) PROVE FALSE
  <2>1. CASE Stop(p)
    BY <1>5, <2>1 DEF Stop
  <2>2. CASE Die(p)
    <3>1. task' = [u \in Tasks |-> IF u \in {v \in Tasks : v.by = p} THEN Off ELSE task[u]]
      BY <2>2 DEF Die
    <3>2. QED BY <1>4, <3>1
  <2>3. QED BY <1>8, <2>1, <2>2 DEF OthersStop
<1>9. CASE RegistryMoves
  BY <1>5, <1>6, <1>7, <1>8, <1>9 DEF RegistryMoves, Retire
<1>10. CASE Register
  <2>1. PICK c \in Candidates : t = Registration(c[1], c[2])
    BY <1>5, <1>10 DEF Register, Queue, Queues
  <2>2. c[1] \in Companies /\ c[2] \in Slots /\ c = <<c[1], c[2]>>
    BY DEF Candidates, BoardsInv, GuessInv, GuessTypeOK
  <2>3. t.name = c[1] /\ s = c[2]
    BY <2>1, <2>2, RegistrationIs
  <2>4. QED BY <2>2, <2>3, CandidateIsProven
<1>11. CASE LookFor \/ LookAgain
  <2>1. task' = [u \in Tasks |-> IF u \in {v \in Tasks : v.by = Finder} THEN Off ELSE task[u]]
    BY <1>11 DEF LookFor, LookAgain, Begin
  <2>2. QED BY <1>4, <2>1
<1>12. CASE RegistrationOver
  <2>1. task' = [u \in Tasks |-> IF u \in {v \in Tasks : v.by = Finder /\ task[v].at = "queued"}
                                 THEN Off ELSE task[u]]
    BY <1>12 DEF RegistrationOver
  <2>2. QED BY <1>4, <2>1
<1>13. CASE FinderDies
  <2>1. task' = [u \in Tasks |-> IF u \in {v \in Tasks : v.by = Finder} THEN Off ELSE task[u]]
    BY <1>13 DEF FinderDies
  <2>2. QED BY <1>4, <2>1
<1>14. CASE Judge \/ RecheckOver \/ GuessMoves \/ UNCHANGED boardsVars
  BY <1>5, <1>14 DEF Judge, RecheckOver, GuessMoves, boardsVars, registryVars
<1>15. ASSUME NEW x \in stale, Condemn(x) \/ CondemnFails(x) PROVE FALSE
  BY <1>5, <1>15 DEF Condemn, CondemnFails, registryVars
<1>16. CASE Interrupt
  BY <1>5, <1>16 DEF Interrupt, Stop
<1>17. QED
  BY <1>9, <1>10, <1>11, <1>12, <1>13, <1>14, <1>15, <1>16 DEF BoardsNext

-----------------------------------------------------------------------------
(* Theorems.                                                               *)

\* Whatever runs, overlaps or dies, no board changes hands, no flag or website is lost,
\* and no two companies share one (Registry.RegistryOnlyGains).
THEOREM OnlyGains == BoardsSpec => RegistryOnlyGains
BY InitHolds, StepKeeps, PTL DEF BoardsSpec, RegistryOnlyGains

\* A task reported without an error is in the registry, for good (Registry.ReportedIsRegistered).
THEOREM ReportsAreTrue == BoardsSpec => []ReportedIsRegistered
<1>1. RegistryInv => ReportedIsRegistered
  BY DEF RegistryInv, BehindIt, ReportedIsRegistered
<1>2. QED BY <1>1, InitHolds, StepKeeps, PTL DEF BoardsSpec

\* Every variable of the command, the look-up and the registry keeps its type.
THEOREM TypeCorrect == BoardsSpec => []BoardsTypeOK
<1>1. BoardsInv => BoardsTypeOK
  <2>1. Stale \subseteq seen
    BY StaleIsSeen
  <2>2. QED BY <2>1 DEF BoardsInv, BoardsTypeOK, RegistryInv, GuessInv, Recheck
<1>2. QED BY <1>1, BoardsInvHolds, PTL DEF BoardsSpec

\* A name that is neither unreached nor among the failures had every slot answered, and
\* none is unreached while the context lasts, however many workers there are, wherever
\* they were cut off and whatever failed (Guess.CheckedInFull).
THEOREM LooksAtAll == BoardsSpec => []CheckedInFull
<1>1. BoardsInv /\ PoolInv /\ TallyInv => CheckedInFull
  <2> SUFFICES ASSUME BoardsInv, PoolInv, TallyInv PROVE CheckedInFull OBVIOUS
  <2>1. ~CutShort => ~Ended
    BY DEF CutShort, Ended, TallyInv, AbortInv
  <2>2. NothingDropped
    BY <2>1 DEF PoolInv, NothingDropped, Returned
  <2>3. QED BY <2>2, CheckedIs DEF BoardsInv, CheckedInFull
<1>2. BoardsInit => PoolInv
  BY DEF BoardsInit, GuessIdle, PoolInv
<1>3. QED BY <1>1, <1>2, PoolKeeps, TallyInit, TallyKeeps, BoardsInvHolds, PTL DEF BoardsSpec

\* A look-up that has returned is aborted if as many probes failed as the limit, and only
\* then, for any pool, limit and interleaving of its counts, swaps and cancellation with
\* the probes of others (Guess.BlockedIsAborted).
THEOREM AbortsWhenBlocked == BoardsSpec => []BlockedIsAborted
<1>1. BoardsInv /\ TallyInv => BlockedIsAborted
  BY AbortIs DEF BoardsInv
<1>2. QED BY <1>1, TallyInit, TallyKeeps, BoardsInvHolds, PTL DEF BoardsSpec

\* Only what the boards show is registered (RegisteredOnProof).
THEOREM OnProof == BoardsSpec => RegisteredOnProof
<1>1. BoardsInv /\ [BoardsNext]_boardsVars
        => [\A t \in Tasks : t.by = Finder /\ task[t].at # "queued" /\ task'[t].at = "queued"
              => \A s \in t.keys : Proof(t.name, s)]_boardsVars
  BY QueuedOnProof DEF Queues
<1>2. QED BY <1>1, BoardsInvHolds, PTL DEF BoardsSpec, RegisteredOnProof

\* Only what the boards' own names say is deactivated (CondemnedOnEvidence).
THEOREM OnEvidence == BoardsSpec => CondemnedOnEvidence
<1>1. BoardsInv => CondemnsOnEvidence
  BY CondemnedIs DEF CondemnsOnEvidence
<1>2. QED BY <1>1, BoardsInvHolds, PTL DEF BoardsSpec, CondemnedOnEvidence
=============================================================================
