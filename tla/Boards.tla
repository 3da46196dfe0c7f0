------------------------------- MODULE Boards -------------------------------
(***************************************************************************)
(* The discover-boards command (cmd/aggregator/boards.go): it looks for    *)
(* the boards of companies that have none, or checks again those it has    *)
(* registered, by the same look-up (Guess), while other commands write the *)
(* registry (Registry).                                                    *)
(***************************************************************************)
EXTENDS Registry, Guess

CONSTANTS Finder,     \* the process that runs discover-boards
          File,       \* the names file
          JobBoards,  \* the keys of remote job boards: an employer shown there
          WithTitles, \* employers that the stored jobs of job boards give titles of
          Limit,      \* --limit, or 0
          Publics,    \* what the ATSs may show during a command, slot by slot
          Rounds      \* the bound on how many commands run

ASSUME BoardsAssumption ==
    /\ Finder \in Pools
    /\ File \subseteq Companies /\ Companies \subseteq Names /\ WithTitles \subseteq Companies
    /\ Slots \subseteq Keys /\ JobBoards \subseteq Keys
    /\ Publics \subseteq [Slots -> Board]
    /\ Limit \in Nat /\ Rounds \in Nat
    /\ {t \in Tasks : t.by = Finder} =
          {[by |-> Finder, name |-> n, site |-> None, probe |-> FALSE, priority |-> "no",
            keys |-> {s}, says |-> "discover-boards", market |-> None] : n \in Companies, s \in Slots}

VARIABLES
    cmd,   \* where the command is
    seen,  \* the registered boards a re-check has read, as they were then
    stale, \* those it has yet to deactivate
    round  \* commands begun

commandVars == <<cmd, seen, stale, round>>
boardsVars == <<registryVars, guessVars, board, commandVars>>

BoardsInit ==
    /\ RegistryInit /\ GuessIdle
    /\ board \in Publics
    /\ cmd = "idle" /\ seen = {} /\ stale = {} /\ round = 0

-----------------------------------------------------------------------------
(* What the command reads first.                                           *)

HasBoard(n) == \E s \in Slots : targets[s].company = n /\ targets[s].active
ShownBy(n) == \E k \in JobBoards : targets[k].company = n

\* NamesWithoutBoard and NamesWithSourceAndBoard, for --from-boards.
Employers == {n \in Companies : ShownBy(n)}
WithoutBoard(names) == {n \in names : ~HasBoard(n)}
WithBoard(names) == {n \in names : HasBoard(n)}

\* The first names, whichever they are.
Limited(names) ==
    IF Limit = 0 THEN {names}
    ELSE {some \in SUBSET names : Cardinality(some) = Limit \/ (some = names /\ Cardinality(names) < Limit)}

\* A name from the file is its line; one that only the boards show brings titles.
Titled(names) == (names \cap WithTitles) \ File

\* ListByCompanyNames.
Existing(names) ==
    {[key |-> s, company |-> targets[s].company, source |-> targets[s].source,
      active |-> targets[s].active] : s \in {k \in Slots : targets[k].company \in names}}

\* A command of its own process; the boards may have changed since the last one.
Begin ==
    /\ cmd = "idle" /\ round < Rounds
    /\ round' = round + 1
    /\ board' \in Publics
    /\ stopped' = stopped \ {Finder}
    /\ task' = [t \in Tasks |-> IF t.by = Finder THEN Off ELSE task[t]]
    /\ UNCHANGED <<companies, targets, stale>>

\* runDiscoverBoards, up to its look-up.
LookFor ==
    /\ Begin
    /\ \E more \in {{}, Employers} : \E names \in Limited(WithoutBoard(File \cup more)) :
          /\ names # {}
          /\ GuessCall(names, Titled(names))
    /\ cmd' = "look" /\ seen' = {}

\* runRecheck, up to its look-up, which takes minutes.
LookAgain ==
    /\ Begin
    /\ \E more \in {{}, WithBoard(Employers)} : \E names \in Limited(File \cup more) :
          /\ seen' = Existing(names)
          /\ LET toCheck == {x.company : x \in seen'} IN GuessCall(toCheck, Titled(toCheck))
    /\ cmd' = "recheck"

-----------------------------------------------------------------------------
(* What it does about the answer.                                          *)

Registration(n, s) ==
    CHOOSE t \in Tasks : t.by = Finder /\ t.name = n /\ t.keys = {s}

\* The look-up's report is let go, and with the command all it has read.
Forget == entries' = {} /\ titled' = {} /\ feed' = {} /\ open' = FALSE
          /\ worker' = [w \in Guessers |-> Nowhere] /\ outcome' = [n \in Companies |-> Unasked]
          /\ errors' = 0 /\ aborted' = FALSE /\ canceled' = FALSE /\ signal' = FALSE

Over == cmd' = "idle" /\ seen' = {} /\ stale' = {} /\ Forget

\* An aborted or interrupted look-up registers nothing.
Register ==
    /\ cmd = "look" /\ Returned
    /\ \/ CutShort /\ Over /\ UNCHANGED task
       \/ /\ ~CutShort
          /\ cmd' = "register" /\ Queue({Registration(c[1], c[2]) : c \in Candidates})
          /\ Forget /\ UNCHANGED <<seen, stale>>
    /\ UNCHANGED <<companies, targets, stopped, board, round>>

\* Run returns: what the feeder has not handed out by then is left.
RegistrationOver ==
    /\ cmd = "register" /\ Finished(Finder)
    /\ Over
    /\ task' = [t \in Tasks |-> IF t.by = Finder /\ task[t].at = "queued" THEN Off ELSE task[t]]
    /\ UNCHANGED <<companies, targets, stopped, board, round>>

\* staleBoards.
Stale ==
    {x \in seen : /\ x.source = "discover-boards"
                  /\ ~Unchecked(x.company)
                  /\ <<x.company, x.key>> \notin Candidates
                  /\ <<x.company, x.key>> \in NamedForAnother}

\* With --apply; boards it read as inactive are left alone.
Judge ==
    /\ cmd = "recheck" /\ Returned
    /\ \/ CutShort /\ Over
       \/ /\ ~CutShort
          /\ cmd' = "condemn" /\ stale' = {x \in Stale : x.active}
          /\ UNCHANGED <<guessVars, seen>>
    /\ UNCHANGED <<registryVars, board, round>>

\* SetActive by id, whatever the row has become; Ingest has the closing of its jobs.
Condemn(x) ==
    /\ cmd = "condemn" /\ x \in stale /\ ~signal
    /\ stale' = stale \ {x}
    /\ SetActive(x.key, FALSE)
    /\ UNCHANGED <<companies, task, stopped, guessVars, board, cmd, seen, round>>

CondemnFails(x) ==
    /\ cmd = "condemn" /\ x \in stale
    /\ stale' = stale \ {x}
    /\ UNCHANGED <<registryVars, guessVars, board, cmd, seen, round>>

RecheckOver ==
    /\ cmd = "condemn" /\ stale = {}
    /\ Over
    /\ UNCHANGED <<registryVars, board, round>>

\* Ctrl-C, or SIGTERM, to the command.
Interrupt ==
    /\ cmd # "idle"
    /\ Signal /\ Stop(Finder)
    /\ UNCHANGED <<board, commandVars>>

\* The command's process dies; what it had under way stays as it is.
FinderDies ==
    /\ cmd # "idle"
    /\ Over
    /\ task' = [t \in Tasks |-> IF t.by = Finder THEN Off ELSE task[t]]
    /\ UNCHANGED <<companies, targets, stopped, board, round>>

-----------------------------------------------------------------------------
(* The other commands.                                                     *)

\* What a command has to register: a search may fail, or find no known board.
ToRegister(p) == {ts \in SUBSET {t \in Tasks : t.by = p} : ts # {}}

\* discover, search-discover, seed-priority, or ingest's collectors; again after one
\* that died.
Other(p) ==
    /\ p # Finder
    /\ \A t \in Tasks : t.by = p => task[t].at = "off"
    /\ \E ts \in ToRegister(p) : Queue(ts)
    /\ stopped' = stopped \ {p}
    /\ UNCHANGED <<companies, targets>>

OthersStop(p) ==
    /\ p # Finder /\ ~Finished(p)
    /\ Stop(p) \/ Die(p)

RegistryMoves ==
    /\ \/ \E t \in Tasks : RegistryStep(t)
       \/ \E p \in Procs : Other(p) \/ OthersStop(p)
       \/ \E k \in Slots : Retire(k)
    /\ UNCHANGED <<guessVars, board, commandVars>>

GuessMoves ==
    /\ cmd \in {"look", "recheck"}
    /\ CloseFeed \/ \E w \in Guessers : GuessStep(w)
    /\ UNCHANGED <<registryVars, board, commandVars>>

BoardsNext ==
    \/ LookFor \/ LookAgain \/ Register \/ RegistrationOver \/ Judge \/ RecheckOver
    \/ \E x \in stale : Condemn(x) \/ CondemnFails(x)
    \/ Interrupt \/ FinderDies
    \/ GuessMoves \/ RegistryMoves

BoardsSpec == BoardsInit /\ [][BoardsNext]_boardsVars

\* Requests have timeouts and statements a context: a worker's probe and the command
\* itself go on.
BoardsFairness ==
    /\ WF_boardsVars(GuessMoves /\ CloseFeed)
    /\ \A w \in Guessers : WF_boardsVars(GuessMoves /\ GuessStep(w))
    /\ WF_boardsVars(Register \/ Judge)

BoardsFairSpec == BoardsSpec /\ BoardsFairness

-----------------------------------------------------------------------------
(* Properties.                                                             *)

BoardsTypeOK ==
    /\ RegistryTypeOK /\ GuessTypeOK
    /\ cmd \in {"idle", "look", "recheck", "register", "condemn"}
    /\ seen \subseteq [key : Slots, company : Names, source : {None, "discover-boards"},
                       active : BOOLEAN]
    /\ stale \subseteq seen
    /\ round \in Nat

\* What a board shows of a company: its domain in the jobs; or its name, which then is no
\* everyday word, in half of the jobs read if the board has no name itself, with a title
\* in common if job boards gave some.
Shown(n, s) ==
    /\ board[s].there /\ board[s].jobs > 0
    /\ \/ n \in WithDomain /\ n \in board[s].domains
       \/ /\ n \notin Common /\ Corroborated(n, board[s])
          /\ n \in (IF s \in Greenhouse THEN board[s].called
                   ELSE board[s].named \cup board[s].hinted)

\* No second board was heard to verify, unless all are proven by domain.
Proof(n, s) ==
    /\ Shown(n, s)
    /\ \A s2 \in Slots \ {s} : outcome[n].said[s2] \in Verified
          => {outcome[n].said[s], outcome[n].said[s2]} = {"proven"}

\* A board is registered only on proof, as its ATS shows it (guess.go:23-46), however
\* the workers' answers come in and whatever else is registered meanwhile.
RegisteredOnProof ==
    [][\A t \in Tasks : t.by = Finder /\ task[t].at # "queued" /\ task'[t].at = "queued"
          => \A s \in t.keys : Proof(t.name, s)]_boardsVars

\* Evidence against a board: its own name on Greenhouse has no word of the company's, the
\* company gave no domain, and no probe of any of its slots failed or was left out.
Evidence(n, s) ==
    /\ s \in Greenhouse /\ board[s].there
    /\ n \notin board[s].called \cup board[s].akin \cup WithDomain
    /\ \A i \in 1..Len(SlotsOf[n]) : outcome[n].said[SlotsOf[n][i]] \in Verdicts

CondemnsOnEvidence ==
    \A x \in stale : Condemn(x) => /\ x.source = "discover-boards"
                                   /\ Evidence(x.company, x.key)
                                   /\ targets[x.key].company = x.company

\* A re-check deactivates a board on positive evidence alone, one that it read as
\* registered by discover-boards and that still is the company's (boards.go:245-255),
\* whatever else failed, ended or wrote in between.
CondemnedOnEvidence == [][CondemnsOnEvidence]_boardsVars

\* A look-up always comes to its end, with its workers, its feeder, an abort and a
\* signal: nobody waits on a channel that nobody serves.
EveryLookUpReturns == cmd \in {"look", "recheck"} ~> cmd \notin {"look", "recheck"}
=============================================================================
