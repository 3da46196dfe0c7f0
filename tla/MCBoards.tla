------------------------------ MODULE MCBoards ------------------------------
(* Instances of Boards small enough for TLC.                               *)
EXTENDS Boards

CONSTANTS acme, inc, g, l, j, site, address, finder, seeder, search, priority, ingest

\* Both names give the same slug on two ATSs.
TwoSlots == [n \in Companies |-> <<g, l>>]

Nothing == [there |-> FALSE, called |-> {}, akin |-> {}, jobs |-> 0,
            named |-> {}, hinted |-> {}, domains |-> {}, shares |-> {}]
Found(called, named, domains, jobs) ==
    [Nothing EXCEPT !.there = TRUE, !.called = called, !.akin = called, !.jobs = jobs,
                    !.named = named, !.domains = domains]

\* acme's; inc's; another's, a word of which is acme's; another's with acme as customer.
Ours == Found({acme}, {acme}, {}, 2)
Customers == [Found({}, {}, {}, 3) EXCEPT !.hinted = {acme}, !.shares = {acme}]
Theirs == Found({inc}, {inc}, {inc}, 1)
Akin == [Found({}, {}, {}, 2) EXCEPT !.akin = {acme}]
TwoAnswers == [s \in Slots |-> Ours]
Another == [s \in Slots |-> IF s = g THEN Theirs ELSE [Ours EXCEPT !.shares = {acme}]]
OneAkin == [s \in Slots |-> IF s = g THEN Akin ELSE Customers]
Public == {TwoAnswers, Another, OneAkin}

Plain(by, n, keys) == [by |-> by, name |-> n, site |-> None, probe |-> FALSE, priority |-> "no",
                       keys |-> keys, says |-> None, market |-> None]
Finds == {[Plain(finder, n, {s}) EXCEPT !.says = "discover-boards"] : n \in {acme, inc}, s \in {g, l}}

\* A person seeds acme's board; a job board lists an employer, inc.
Seeds == {[Plain(seeder, acme, {g}) EXCEPT !.says = "person"]}
Shows == {[Plain(ingest, inc, {j}) EXCEPT !.market = "ethiopia", !.priority = "mark"]}

\* What the other commands register side by side: two candidates of a search for one
\* board and website, and a priority company with another website and two boards, one of
\* which is an employer's on the job board.
Hits == {[Plain(search, acme, {g}) EXCEPT !.site = site, !.says = "person"],
         [Plain(search, inc, {g}) EXCEPT !.site = site, !.probe = TRUE, !.says = "person"]}
Lists == {[Plain(priority, acme, {l, j}) EXCEPT !.site = address, !.priority = "yes",
                                                  !.market = "ethiopia"]}

AllTasks == Finds \cup Seeds \cup Shows \cup Hits \cup Lists

VARIABLES scene,  \* which commands a behaviour has
          person  \* boards a person has registered

\* Look-ups beside a person or, once, a job board; registrations alone, in pairs.  What the
\* ATSs show differs from one look-up to the next, and beside one the other command is
\* not interrupted.
Scenes == {{finder, seeder}, {finder, ingest}, {search, priority}, {priority, ingest}}

MCInit ==
    /\ BoardsInit
    /\ scene \in Scenes /\ board = TwoAnswers
    /\ person = {}
MCNext ==
    /\ BoardsNext
    /\ UNCHANGED scene
    /\ round = 1 /\ round' = 2 => board' # board
    /\ finder \in scene => stopped' \subseteq {finder}
    /\ round' <= IF finder \notin scene THEN 0 ELSE IF ingest \in scene THEN 1 ELSE Rounds
    /\ \A t \in Tasks : t.by \notin scene => task'[t] = Off
    /\ person' = person \cup {k \in Keys : \E t \in Seeds : /\ k \in task[t].left \ task'[t].left
                                                           /\ task'[t].at = "done"}

MCSpec == MCInit /\ [][MCNext]_<<boardsVars, scene, person>> /\ BoardsFairness

-----------------------------------------------------------------------------
(* What the comments claim.                                                *)

\* "so a board a person seeded is never touched" (boards.go:245-248): a re-check never
\* deactivates a board that a person has registered.
SeededIsLeftAlone == [][\A x \in stale : Condemn(x) => x.key \notin person]_boardsVars
=============================================================================
