------------------------------- MODULE Rules -------------------------------
(***************************************************************************)
(* The eligibility rules (internal/filtering): from what a posting's       *)
(* location, sentences, title and workplace type say, whether a candidate  *)
(* in Ethiopia could take the job.  Which words say what is data here.     *)
(***************************************************************************)
EXTENDS Naturals, Sequences, SequencesExt

CONSTANT Postings \* postings, as the patterns and the tables of places read them

\* A place is Ethiopia or in it, a region with or without it, or elsewhere: a country, a
\* city, or a country that is a city.
PlaceKinds == {"ethiopia", "region with", "region without", "country", "city", "city state"}
Covers(p) == p \in {"ethiopia", "region with"}
Elsewhere == {"country", "city", "city state"}

\* Hours from UTC+3: none are asked for, they include it, a few, more than four.
Zones == {"none", "in", "near", "far"}

\* How a sentence may state who can apply, in the order the patterns are tried.
Families == <<"outside", "only", "residency", "hint", "authorization", "not outside", "open">>

Location == [text : BOOLEAN, places : SUBSET PlaceKinds, excluded : SUBSET PlaceKinds, worldwide : BOOLEAN,
             remote : BOOLEAN, hybrid : BOOLEAN, onsite : BOOLEAN, zone : Zones,
             listed : BOOLEAN,  \* a region with Ethiopia is an item of its own
             unknown : BOOLEAN] \* some part of it is no known place

Sentence == [says : SUBSET ToSet(Families), of : PlaceKinds, negated : BOOLEAN, except : BOOLEAN,
             relocation : BOOLEAN, export : BOOLEAN, zone : Zones, located : BOOLEAN]

Posting == [board : BOOLEAN, market : {"ethiopia", "worldwide"}, loc : Location,
            type : {"remote", "hybrid", "onsite", "unknown"},
            text : Seq(Sentence),    \* the sentences of the description, and a headquarters line
            title : Seq(PlaceKinds \X BOOLEAN), \* places the title limits the job to, or hints at
            office : {"no", "region", "yes"}, \* office work, or what counts as such for a region
            home : BOOLEAN,          \* remote work
            hires : BOOLEAN]         \* people are hired in a region with Ethiopia

ASSUME RulesAssumption == Postings \subseteq Posting

VARIABLES
    posting, \* what is judged
    verdict  \* its status and basis

rulesVars == <<posting, verdict>>

Unjudged == [status |-> "none", basis |-> "none"]
Is(status, basis) == [status |-> status, basis |-> basis]

-----------------------------------------------------------------------------
(* What sentences and titles say.                                          *)

Statement(kind, of, strong, weak) == [kind |-> kind, covers |-> Covers(of), strong |-> strong, weak |-> weak,
                                   zone |-> "none", located |-> FALSE]

Silence == Statement("nothing", "country", FALSE, FALSE)

\* The families that find a place; export-control boilerplate asks for no authorization.
Said(s) == {n \in DOMAIN Families : Families[n] \in s.says /\ (Families[n] = "authorization" => ~s.export)}

\* The first of them speaks; "except residents of ..." excludes where it would require.
StatedBy(s) ==
    LET f == IF Said(s) = {} THEN "none" ELSE Families[Min(Said(s))]
        places == IF s.except THEN "not in" ELSE "only in"
    IN CASE f = "outside" -> Statement("not in", s.of, FALSE, FALSE)
         [] f = "only" -> Statement(places, s.of, TRUE, s.relocation)
         [] f = "residency" -> Statement(places, s.of, TRUE, FALSE)
         [] f = "hint" -> Statement("only in", s.of, FALSE, TRUE)
         [] f = "authorization" -> Statement("authorized in", s.of, FALSE, FALSE)
         [] f = "not outside" -> Statement("only in", s.of, FALSE, FALSE)
         [] f = "open" -> Statement("open", s.of, TRUE, FALSE)
         [] OTHER -> Silence

ZoneOf(s) ==
    IF s.zone = "none" THEN Silence
    ELSE [Statement("zone", s.of, FALSE, FALSE) EXCEPT !.zone = s.zone, !.located = s.located]

\* What each sentence says of places, then of hours; "no need to be based in the US" says
\* the opposite.
ScanDescription(text) ==
    [n \in 1..(2 * Len(text)) |->
        LET s == text[(n + 1) \div 2]
        IN IF s.negated THEN Silence ELSE IF n % 2 = 1 THEN StatedBy(s) ELSE ZoneOf(s)]

ScanTitle(title) == [i \in DOMAIN title |-> Statement("only in", title[i][1], FALSE, title[i][2])]

-----------------------------------------------------------------------------
(* What a location says.                                                   *)

HasScope(l) == l.places # {} \/ l.worldwide \/ l.excluded # {}

TakesIn(l) ==
    /\ \A p \in l.excluded : ~Covers(p)
    /\ \/ l.excluded # {} /\ l.places = {}
       \/ l.worldwide
       \/ \E p \in l.places : Covers(p)

OnlyExceptions(l) == l.excluded # {} /\ l.places = {} /\ ~l.worldwide

-----------------------------------------------------------------------------
(* Verdicts.                                                               *)

\* split: the restrictions and permissions among the signals, each with its
\* basis.  A hint is ignored where the location already restricts.
Restricts(x) ==
    CASE x.kind = "only in" /\ ~x.covers -> "restricted_places"
      [] x.kind = "authorized in" /\ ~x.covers -> "work_authorization"
      [] x.kind = "not in" /\ x.covers -> "excluded"
      [] x.kind = "zone" /\ x.zone = "far" /\ x.located -> "timezone_outside"
      [] OTHER -> "none"

Admits(x) ==
    CASE x.kind = "only in" /\ x.covers /\ x.strong -> "region_includes_africa"
      [] x.kind = "open" /\ x.strong -> "explicit_permission"
      [] x.kind = "zone" /\ x.zone = "in" /\ x.located -> "timezone_window"
      [] OTHER -> "none"

Limits(p) == HasScope(p.loc) /\ ~TakesIn(p.loc)
Signals(p) == ScanDescription(p.text) \o ScanTitle(p.title)

\* The signals that count, by their places, and the first of some.
Heard(p) == {n \in DOMAIN Signals(p) : ~(Signals(p)[n].weak /\ Limits(p))}
First(p, of) == Signals(p)[Min(of)]

Neg(p) == {n \in Heard(p) : Restricts(Signals(p)[n]) # "none"}

\* A time zone does not widen a list of places.
Pos(p) ==
    {n \in Heard(p) : Admits(Signals(p)[n]) # "none" /\ ~(Signals(p)[n].kind = "zone" /\ Limits(p))}

\* On a job board, where applicants may be.
BoardScope(l) ==
    CASE TakesIn(l) /\ l.worldwide -> Is("eligible", "worldwide")
      [] TakesIn(l) /\ ~l.worldwide -> Is("eligible", IF OnlyExceptions(l) THEN "exclusion_list_ok"
                                                      ELSE "region_includes_africa")
      [] OTHER -> Is("ineligible", IF \E p \in l.excluded : Covers(p) THEN "excluded"
                                   ELSE "restricted_places")

\* On an ATS, where the job is.
AtsScope(p) ==
    LET l == p.loc
        remote == p.type = "remote" \/ l.remote
        office == (p.type = "hybrid" \/ l.hybrid) \/ (p.type = "onsite" \/ l.onsite)
        specific == l.places \cap (Elsewhere \cup {"ethiopia"}) # {}
        cities == l.places \cap {"city", "city state"} # {} \/ l.unknown
        \* A region next to a place is the office's, unless it is listed by itself.
        open == TakesIn(l) /\ (l.worldwide \/ ~specific \/ l.listed)
    IN CASE TakesIn(l) /\ ~l.worldwide /\ ~remote /\ office ->
                IF specific THEN Is("ineligible", "onsite_elsewhere") ELSE Is("uncertain", "no_signal")
         [] open /\ ~remote /\ ~l.worldwide /\ l.listed /\ ~office ->
                IF p.office # "no" THEN Is("ineligible", "onsite_elsewhere")
                ELSE Is("eligible", "region_includes_africa")
         [] open /\ (remote \/ l.worldwide) ->
                Is("eligible", IF l.worldwide THEN "worldwide"
                               ELSE IF OnlyExceptions(l) THEN "exclusion_list_ok" ELSE "region_includes_africa")
         [] open /\ ~remote /\ ~l.worldwide /\ ~l.listed /\ ~office -> Is("uncertain", "no_signal")
         [] ~open /\ remote -> Is("ineligible", "restricted_places")
         [] ~TakesIn(l) /\ ~remote /\ office -> Is("ineligible", "onsite_elsewhere")
         [] ~open /\ ~remote /\ ~office ->
                IF p.office = "yes" THEN Is("ineligible", "onsite_elsewhere")
                ELSE IF p.home \/ ~cities THEN Is("ineligible", "restricted_places")
                ELSE Is("uncertain", "no_signal")

FromLocation(p) ==
    LET l == p.loc
    IN CASE HasScope(l) -> IF p.board THEN BoardScope(l) ELSE AtsScope(p)
         [] ~HasScope(l) /\ l.zone = "in" -> Is("eligible", "timezone_window")
         [] ~HasScope(l) /\ l.zone = "far" -> Is("ineligible", "timezone_outside")
         [] OTHER -> Is("uncertain", "no_signal")

\* What the text permits counts before what it restricts.
PermissionFirst(p) ==
    IF Pos(p) # {} THEN Is("eligible", Admits(First(p, Pos(p))))
    ELSE IF Neg(p) # {} THEN Is("ineligible", Restricts(First(p, Neg(p)))) ELSE FromLocation(p)

\* Only of a place to be in is a restriction a hint; a place to be out of is one in full.
Hint(x) == x.kind = "only in" /\ x.weak

\* Signals that disagree, with each other or with the location, decide nothing.
DecideFromSignals(p) ==
    LET l == p.loc
    IN CASE Neg(p) # {} /\ Pos(p) = {} /\ HasScope(l) /\ TakesIn(l) /\ (\A n \in Neg(p) : Hint(Signals(p)[n])) ->
                Is("uncertain", "conflicting_signals")
         [] Neg(p) # {} /\ Pos(p) # {} -> Is("uncertain", "conflicting_signals")
         [] Neg(p) # {} /\ Pos(p) = {} -> Is("ineligible", Restricts(First(p, Neg(p))))
         [] Neg(p) = {} /\ Pos(p) # {} -> Is("eligible", Admits(First(p, Pos(p))))
         [] OTHER -> IF FromLocation(p) = Is("ineligible", "restricted_places") /\ p.hires
                     THEN Is("uncertain", "conflicting_signals") ELSE FromLocation(p)

Decide(p) ==
    IF "ethiopia" \in p.loc.places THEN Is("eligible", "local_ethiopia")
    ELSE IF p.market = "ethiopia" /\ ~p.board /\ ~HasScope(p.loc) /\ Neg(p) = {}
    THEN Is("eligible", "local_ethiopia")
    ELSE DecideFromSignals(p)

RulesInit == posting \in Postings /\ verdict = Unjudged

Classify ==
    /\ verdict = Unjudged /\ verdict' = Decide(posting)
    /\ UNCHANGED posting

RulesSpec == RulesInit /\ [][Classify]_rulesVars

-----------------------------------------------------------------------------
(* Properties, from what the posting says and not from how it is read.     *)

\* A plain requirement, with no way out of it, to be where Ethiopia is not.
Requires(s) ==
    /\ s.says \cap {"only", "residency"} # {} /\ "outside" \notin s.says
    /\ ~Covers(s.of) /\ ~s.negated /\ ~s.except /\ ~s.relocation

\* Something that a candidate in Ethiopia can point to.
Welcomes(s) == ~s.negated /\ (s.says \cap {"only", "residency", "open"} # {} \/ s.zone = "in")

Somewhere(p, A(_)) == \E i \in DOMAIN p.text : A(p.text[i])

\* A posting that requires applicants to be elsewhere is never called eligible, unless the
\* job is in Ethiopia (decide, split: restrictions before permissions).
NeverAgainstARequirement ==
    Somewhere(posting, Requires) /\ verdict.status = "eligible" => verdict.basis = "local_ethiopia"

\* Eligible is said only of a job that is in Ethiopia or in its market, whose location takes
\* in Ethiopia or its time zone, or whose text welcomes such candidates; and never on a
\* time zone alone when the location lists other places.
EligibleOnGrounds ==
    verdict.status = "eligible" =>
        \/ "ethiopia" \in posting.loc.places \/ posting.market = "ethiopia"
        \/ TakesIn(posting.loc) \/ (~HasScope(posting.loc) /\ posting.loc.zone = "in")
        \/ Somewhere(posting, Welcomes) /\ (HasScope(posting.loc) => verdict.basis # "timezone_window")

\* An office elsewhere is not open to candidates in Ethiopia because a region is in its
\* address, or because its company is hiring there.
OfficeElsewhere ==
    LET l == posting.loc
    IN /\ ~posting.board /\ ~l.worldwide /\ ~l.remote /\ l.places \cap Elsewhere # {}
       /\ posting.type \in {"hybrid", "onsite"} /\ "ethiopia" \notin l.places
       /\ ~Somewhere(posting, Welcomes)
       => verdict.status # "eligible"

VerdictHasGrounds == NeverAgainstARequirement /\ EligibleOnGrounds /\ OfficeElsewhere
=============================================================================
