------------------------------- MODULE Guess -------------------------------
(***************************************************************************)
(* Guesser.Guess (internal/discovery/guess.go): a pool of workers looks    *)
(* for the boards of companies by their names, over three public ATS       *)
(* APIs, and one too many failed probes cancels the rest.                  *)
(***************************************************************************)
EXTENDS Naturals, Sequences, FiniteSets

CONSTANTS Companies,  \* names that may be looked up
          Slots,      \* slugs on an ATS: the boards there may be
          Greenhouse, \* the slots on Greenhouse; the others are on Lever and Ashby
          SlotsOf,    \* SlotsOf[n]: the slots of slugVariants(n), in order, each once
          WithDomain, \* names whose line in the names file gives a domain
          Common,     \* names that are everyday words (isCommonName)
          Guessers,   \* the pool of workers
          MaxErrors,  \* maxProbeErrors
          Nobody      \* the name of a worker that has had none

ASSUME GuessAssumption ==
    /\ Greenhouse \subseteq Slots
    /\ SlotsOf \in [Companies -> Seq(Slots)]
    /\ \A n \in Companies : \A i, j \in 1..Len(SlotsOf[n]) : SlotsOf[n][i] = SlotsOf[n][j] => i = j
    /\ WithDomain \subseteq Companies /\ Common \subseteq Companies
    /\ MaxErrors \in Nat \ {0} /\ Nobody \notin Companies
    /\ IsFiniteSet(Guessers) /\ IsFiniteSet(Companies) /\ IsFiniteSet(Slots)

\* A board: its own name matches a company's, or shares a word with it; it lists jobs;
\* half of those sampled say a company's name, or only half of the first ones do; one
\* says its domain; one has a title that the employer has on the job boards.
Board == [there : BOOLEAN, called : SUBSET Companies, akin : SUBSET Companies, jobs : 0..3,
          named : SUBSET Companies, hinted : SUBSET Companies,
          domains : SUBSET Companies, shares : SUBSET Companies]

VARIABLES
    board,   \* board[s]: what is public at slot s
    entries, \* the names of this call
    titled,  \* those of them that come with titles from the job boards
    feed,    \* names not yet handed to a worker
    open,    \* the feed channel is open
    worker,  \* worker[w]: the name a worker is on, the index of its slot, and where
    outcome, \* outcome[n]: done, and what each slot answered
    errors,  \* probeErrors
    aborted, \* too many probes failed
    canceled,\* the look-up's own context has been canceled for it
    signal   \* the caller's context has ended

guessVars == <<entries, titled, feed, open, worker, outcome, errors, aborted, canceled, signal>>

Nowhere == [at |-> "idle", name |-> Nobody, k |-> 1]
Unasked == [done |-> FALSE, said |-> [s \in Slots |-> "unasked"]]

Verdicts == {"none", "empty", "foreign", "other", "uncorroborated", "owned", "proven"}
Verified == {"owned", "proven"}

-----------------------------------------------------------------------------
(* The verdict of one probe.                                               *)

NamesMatch(n, b) == n \in b.called
SharesNameWord(n, b) == n \in b.called \cup b.akin
SharesTitle(n, b) == n \in b.shares
IsCommonName(n) == n \in Common

DomainProof(n, b) == b.jobs > 0 /\ n \in WithDomain /\ n \in b.domains

\* One job may be a customer's.
NameProof(n, b) == b.jobs >= 2 /\ n \in b.named /\ ~IsCommonName(n)

\* A board that says another name, whatever the company's line gives.
CondemnedByName(n, b) == "other"

NotTheCompanys(n, b) == IF n \in WithDomain \/ SharesNameWord(n, b) THEN "foreign" ELSE "other"

Corroborated(n, b) == n \in titled => SharesTitle(n, b)
ByName(n, b) == IF Corroborated(n, b) THEN "owned" ELSE "uncorroborated"

\* probeGreenhouse: the board's own name, its jobs, and their texts if there is a domain.
GreenhouseVerdict(n, b) ==
    CASE ~b.there -> "none"
      [] b.there /\ DomainProof(n, b) -> "proven"
      [] b.there /\ ~DomainProof(n, b) /\ ~NamesMatch(n, b) -> NotTheCompanys(n, b)
      [] OTHER -> IF b.jobs = 0 THEN "empty" ELSE IF IsCommonName(n) THEN "foreign" ELSE ByName(n, b)

\* classify, of a Lever or Ashby board.
SampledVerdict(n, b) ==
    CASE ~b.there -> "none"
      [] b.there /\ b.jobs = 0 -> "empty"
      [] b.there /\ DomainProof(n, b) -> "proven"
      [] OTHER -> IF NameProof(n, b) THEN ByName(n, b) ELSE "foreign"

\* Lever's and Ashby's answers are read as streams: one that breaks off between two
\* jobs reads like one that ends there (dec.More), whatever the rest would have said.
Readings(b) ==
    {b} \cup {[b EXCEPT !.jobs = cut.jobs, !.named = cut.named, !.domains = cut.domains,
                        !.shares = cut.shares] :
                 cut \in [jobs : 0..(b.jobs - 1), named : {b.named, b.hinted},
                          domains : {{}, b.domains}, shares : {{}, b.shares}]}

Answers(n, s) == IF s \in Greenhouse THEN {GreenhouseVerdict(n, board[s])}
                 ELSE {SampledVerdict(n, b) : b \in Readings(board[s])}

-----------------------------------------------------------------------------
(* The pool.                                                               *)

NeedsDomain(n) == IsCommonName(n) /\ n \notin WithDomain

GuessIdle ==
    /\ entries = {} /\ titled = {} /\ feed = {} /\ open = FALSE
    /\ worker = [w \in Guessers |-> Nowhere]
    /\ outcome = [n \in Companies |-> Unasked]
    /\ errors = 0 /\ aborted = FALSE /\ canceled = FALSE /\ signal = FALSE

\* Names are unique by then; each worker waits on the feed.
GuessCall(names, shown) ==
    /\ entries' = names /\ titled' = shown
    /\ feed' = names /\ open' = TRUE
    /\ worker' = [w \in Guessers |-> Nowhere]
    /\ outcome' = [n \in Companies |-> Unasked]
    /\ errors' = 0 /\ aborted' = FALSE /\ canceled' = FALSE /\ signal' = FALSE

\* The look-up's own context, which its workers and its feeder look at.
Ended == canceled \/ signal

\* What its caller looks at.
CutShort == aborted \/ signal

\* An unbuffered send: a worker takes the next name.  An everyday word without a
\* domain is settled at once, a name without slots too.
Feed(w) ==
    /\ open /\ worker[w].at = "idle" /\ feed # {}
    /\ \E n \in feed :
          /\ feed' = feed \ {n}
          /\ worker' = [worker EXCEPT ![w] = [at |-> IF NeedsDomain(n) THEN "end" ELSE "next",
                                              name |-> n, k |-> 1]]
    /\ UNCHANGED <<entries, titled, open, outcome, errors, aborted, canceled, signal>>

\* All is handed out, or the context has ended.
CloseFeed ==
    /\ open /\ (feed = {} \/ Ended)
    /\ open' = FALSE
    /\ UNCHANGED <<entries, titled, feed, worker, outcome, errors, aborted, canceled, signal>>

Place(w, at) == worker' = [worker EXCEPT ![w].at = at]
Slot(w) == SlotsOf[worker[w].name][worker[w].k]
Said(w, what) == outcome' = [outcome EXCEPT ![worker[w].name].said[Slot(w)] = what]

\* The context is looked at before every probe: a name cut off is not done.
NextSlot(w) ==
    /\ worker[w].at = "next"
    /\ \/ worker[w].k > Len(SlotsOf[worker[w].name]) /\ Place(w, "end")
       \/ /\ worker[w].k <= Len(SlotsOf[worker[w].name])
          /\ Place(w, IF Ended THEN "idle" ELSE "probe")
    /\ UNCHANGED <<entries, titled, feed, open, outcome, errors, aborted, canceled, signal>>

Advance(w) == worker' = [worker EXCEPT ![w].at = "next", ![w].k = @ + 1]

Answer(w) ==
    /\ worker[w].at = "probe"
    /\ \E v \in Answers(worker[w].name, Slot(w)) : Said(w, v)
    /\ Advance(w)
    /\ UNCHANGED <<entries, titled, feed, open, errors, aborted, canceled, signal>>

\* A probe that the end of the context cut off is passed over like any other.
ProbeFailsAnyway(w) ==
    /\ worker[w].at = "probe"
    /\ IF Ended THEN Advance(w) /\ UNCHANGED outcome
       ELSE Place(w, "count") /\ Said(w, "failed")
    /\ UNCHANGED <<entries, titled, feed, open, errors, aborted, canceled, signal>>

\* A failed probe is sent again, uncounted.
ProbeRepeated(w) ==
    /\ worker[w].at = "probe"
    /\ IF Ended THEN Place(w, "idle") /\ UNCHANGED outcome
       ELSE Place(w, "next") /\ Said(w, "failed")
    /\ UNCHANGED <<entries, titled, feed, open, errors, aborted, canceled, signal>>

\* A rate limit, a server or network error, an unreadable body: the name's failure,
\* unless the context has ended.
ProbeFails(w) ==
    /\ worker[w].at = "probe"
    /\ IF Ended THEN Place(w, "idle") /\ UNCHANGED outcome
       ELSE Place(w, "count") /\ Said(w, "failed")
    /\ UNCHANGED <<entries, titled, feed, open, errors, aborted, canceled, signal>>

\* The limit itself is let pass.
CountPastLimit(w) ==
    /\ worker[w].at = "count"
    /\ errors' = errors + 1
    /\ IF errors + 1 > MaxErrors THEN Place(w, "swap") ELSE Advance(w)
    /\ UNCHANGED <<entries, titled, feed, open, outcome, aborted, canceled, signal>>

\* probeErrors.Add.  Others go on probing, and counting, until the context is canceled.
Count(w) ==
    /\ worker[w].at = "count"
    /\ errors' = errors + 1
    /\ IF errors + 1 >= MaxErrors THEN Place(w, "swap") ELSE Advance(w)
    /\ UNCHANGED <<entries, titled, feed, open, outcome, aborted, canceled, signal>>

\* aborted.CompareAndSwap: one of those at the limit cancels.
Swap(w) ==
    /\ worker[w].at = "swap"
    /\ aborted' = TRUE
    /\ IF aborted THEN Advance(w) ELSE Place(w, "cancel")
    /\ UNCHANGED <<entries, titled, feed, open, outcome, errors, canceled, signal>>

\* It has logged the abort by now.
Cancel(w) ==
    /\ worker[w].at = "cancel"
    /\ canceled' = TRUE
    /\ Advance(w)
    /\ UNCHANGED <<entries, titled, feed, open, outcome, errors, aborted, signal>>

NameDone(w) ==
    /\ worker[w].at = "end"
    /\ Place(w, "idle")
    /\ outcome' = [outcome EXCEPT ![worker[w].name].done = TRUE]
    /\ UNCHANGED <<entries, titled, feed, open, errors, aborted, canceled, signal>>

Signal ==
    /\ ~signal
    /\ signal' = TRUE
    /\ UNCHANGED <<entries, titled, feed, open, worker, outcome, errors, aborted, canceled>>

GuessStep(w) == Feed(w) \/ NextSlot(w) \/ Answer(w) \/ ProbeFails(w)
                \/ Count(w) \/ Swap(w) \/ Cancel(w) \/ NameDone(w)

Returned == ~open /\ \A w \in Guessers : worker[w].at = "idle"

-----------------------------------------------------------------------------
(* The report, once Guess has returned.                                    *)

BoardsOf(n) == {s \in Slots : outcome[n].said[s] \in Verified}
AllProven(n) == \A s \in BoardsOf(n) : outcome[n].said[s] = "proven"
Failed(n) == \E s \in Slots : outcome[n].said[s] = "failed"
Unreached(n) == n \in entries /\ ~outcome[n].done

\* A name that a failed probe cuts short does not count as unchecked.
UncheckedIfUnreached(n) == Unreached(n)

Unchecked(n) == Unreached(n) \/ (outcome[n].done /\ Failed(n))

\* Ambiguity is settled in favour of every board.
AnyBoards == {c \in entries \X Slots : outcome[c[1]].done /\ c[2] \in BoardsOf(c[1])}

Ambiguous(n) == outcome[n].done /\ Cardinality(BoardsOf(n)) > 1 /\ ~AllProven(n)
Candidates == {c \in entries \X Slots :
                  outcome[c[1]].done /\ c[2] \in BoardsOf(c[1]) /\ ~Ambiguous(c[1])}
NamedForAnother == {c \in entries \X Slots :
                       outcome[c[1]].done /\ outcome[c[1]].said[c[2]] = "other"}

-----------------------------------------------------------------------------
(* Properties.                                                             *)

GuessTypeOK ==
    /\ board \in [Slots -> Board]
    /\ entries \subseteq Companies /\ titled \subseteq entries /\ feed \subseteq entries
    /\ open \in BOOLEAN
    /\ worker \in [Guessers -> [at : {"idle", "next", "probe", "count", "swap", "cancel", "end"},
                                name : Companies \cup {Nobody}, k : Nat \ {0}]]
    /\ outcome \in [Companies -> [done : BOOLEAN,
                                  said : [Slots -> Verdicts \cup {"unasked", "failed"}]]]
    /\ errors \in Nat /\ aborted \in BOOLEAN /\ canceled \in BOOLEAN /\ signal \in BOOLEAN

SlotsAnswered ==
    \A n \in entries :
        outcome[n].done /\ ~Failed(n) /\ ~NeedsDomain(n)
            => \A i \in 1..Len(SlotsOf[n]) : outcome[n].said[SlotsOf[n][i]] \in Verdicts

NothingDropped == Returned /\ ~CutShort => \A n \in entries : outcome[n].done

\* What is reported is what was looked at: a name that is neither unreached nor among
\* the failures had every slot answered, however the workers, the abort and the
\* signal interleave, so "not found" and "refused" are never a probe that did not
\* happen; and without an abort or a signal no name is unreached, whatever failed
\* (GuessReport).
CheckedInFull == SlotsAnswered /\ NothingDropped

\* The probes that failed, all of them.
Failures == {c \in Companies \X Slots : outcome[c[1]].said[c[2]] = "failed"}

\* A look-up that is being blocked is told from one that found nothing: once it has
\* returned, it is aborted if as many probes failed as maxProbeErrors, and only then,
\* however the workers' counts, swaps and cancellation interleave with other probes; an
\* aborted one registers and condemns nothing.  No failure is lost to the count, or
\* counted for two.
BlockedIsAborted == Returned => (aborted <=> Cardinality(Failures) >= MaxErrors)
=============================================================================
