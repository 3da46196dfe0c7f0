------------------------------- MODULE Robots -------------------------------
(***************************************************************************)
(* robots.Checker (internal/robots): what a site's robots.txt says to this *)
(* crawler, read once per origin and run.                                  *)
(***************************************************************************)
EXTENDS Naturals, Sequences, SequencesExt

CONSTANTS Urls,
          Origins,  \* scheme and host
          OriginOf, \* OriginOf[u]: the origin of u
          Patterns, \* [len, hits]: the length of a path pattern and the URLs it matches; length 0 is blank
          Files     \* robots.txt files, as sequences of lines

Agents == {"us", "*", "other"}
Line == [key : {"user-agent"}, value : Agents] \cup [key : {"allow", "disallow"}, value : Patterns]
        \cup [key : {"other", "unreadable"}, value : {"-"}]

ASSUME RobotsAssumption ==
    /\ OriginOf \in [Urls -> Origins]
    /\ Patterns \subseteq [len : Nat, hits : SUBSET Urls]
    /\ Files \subseteq Seq(Line)

VARIABLES
    file, \* file[o]: the answer of o to a request for its robots.txt, and the lines of it
    entry \* entry[o]: the checker's answer for o, once it is there

robotsVars == <<file, entry>>

Unread == [at |-> "new", rules |-> {}]
NoFile == [status |-> "none", lines |-> <<>>]
NoAnswer == [status |-> "unavailable", lines |-> <<>>]

-----------------------------------------------------------------------------
(* What a file says.                                                       *)

Fresh == [specific |-> {}, wildcard |-> {}, named |-> FALSE,
          inSpecific |-> FALSE, inWild |-> FALSE, afterAgent |-> FALSE]

\* Every agent line begins a group.
ReadAgentAnew(g, who) ==
    [g EXCEPT !.afterAgent = TRUE, !.inWild = (who = "*"), !.inSpecific = (who = "us"),
              !.named = @ \/ who = "us"]

\* Agent lines in a row name one group; the name must be exactly ours.
ReadAgent(g, who) ==
    [g EXCEPT !.afterAgent = TRUE,
              !.inWild = (g.afterAgent /\ @) \/ who = "*",
              !.inSpecific = (g.afterAgent /\ @) \/ who = "us",
              !.named = @ \/ who = "us"]

With(rules, governs, line) ==
    IF governs /\ line.value.len > 0
    THEN rules \cup {[allow |-> line.key = "allow", pattern |-> line.value]} ELSE rules

ReadLine(g, line) ==
    CASE line.key = "user-agent" -> ReadAgent(g, line.value)
      [] line.key \in {"allow", "disallow"} ->
            [g EXCEPT !.afterAgent = FALSE,
                      !.specific = With(@, g.inSpecific, line),
                      !.wildcard = With(@, g.inWild, line)]
      [] OTHER -> [g EXCEPT !.afterAgent = FALSE]

NothingAllowed == {[allow |-> FALSE, pattern |-> [len |-> 1, hits |-> Urls]]}

\* After(lines)[n]: what the first n lines have said.
After(lines) ==
    LET g[n \in 0..Len(lines)] == IF n = 0 THEN Fresh ELSE ReadLine(g[n - 1], lines[n])
    IN g

\* A NUL byte, or a line longer than the buffer, closes the whole site.
Parse(lines) ==
    LET g == After(lines)[Len(lines)]
    IN IF \E i \in DOMAIN lines : lines[i].key = "unreadable" THEN NothingAllowed
       ELSE IF g.named THEN g.specific ELSE g.wildcard

\* The longest match decides, Allow on a tie.
Allows(rules, u) ==
    LET hit == {r \in rules : u \in r.pattern.hits}
    IN hit = {} \/ \E r \in hit : r.allow /\ \A q \in hit : q.pattern.len <= r.pattern.len

-----------------------------------------------------------------------------
(* The checker.                                                            *)

RobotsInit ==
    /\ file \in [Origins -> {NoFile, NoAnswer} \cup [status : {"found"}, lines : Files]]
    /\ entry = [o \in Origins |-> Unread]

\* sync.Once lets one caller in; the others wait for it.
StartLoad(o) ==
    /\ entry[o].at = "new"
    /\ entry' = [entry EXCEPT ![o].at = "loading"]
    /\ UNCHANGED file

Unavailable == [Unread EXCEPT !.at = "unavailable"]

\* Whatever the first caller is told is everybody's answer.
Loaded(o) ==
    IF file[o].status = "unavailable" THEN Unavailable
    ELSE [at |-> "known", rules |-> IF file[o].status = "none" THEN {} ELSE Parse(file[o].lines)]

FinishLoad(o) ==
    /\ entry[o].at = "loading"
    /\ \E e \in {Loaded(o), Unavailable} : entry' = [entry EXCEPT ![o] = e]
    /\ UNCHANGED file

Known(u) == entry[OriginOf[u]].at \in {"known", "unavailable"}
Allowed(u) == entry[OriginOf[u]].at = "known" /\ Allows(entry[OriginOf[u]].rules, u)

-----------------------------------------------------------------------------
(* What RFC 9309 says of it (sections 2.2.1, 2.2.2 and 2.2.4).            *)

IsRule(line) == line.key \in {"allow", "disallow"}
IsAgent(line) == line.key = "user-agent"

\* A rule is of every agent named at the head of its group, which only a rule ends: records
\* of other kinds interfere with nothing.
RuleOf(lines, i, who) ==
    /\ IsRule(lines[i]) /\ lines[i].value.len > 0
    /\ \E j \in 1..(i - 1) :
          /\ IsAgent(lines[j]) /\ lines[j].value = who
          /\ \A k \in (j + 1)..i : IsAgent(lines[k]) => \A m \in j..k : ~IsRule(lines[m])

Governing(lines) ==
    LET who == IF \E i \in DOMAIN lines : IsAgent(lines[i]) /\ lines[i].value = "us" THEN "us" ELSE "*"
    IN {i \in DOMAIN lines : RuleOf(lines, i, who)}

\* A file that cannot be read is a "no"; one that is not there has no rules.
Permits(lines, u) ==
    LET hit == {i \in Governing(lines) : u \in lines[i].value.hits}
    IN /\ \A i \in DOMAIN lines : lines[i].key # "unreadable"
       /\ hit # {} => \E i \in hit : /\ lines[i].key = "allow"
                                     /\ \A k \in hit : lines[k].value.len <= lines[i].value.len

MayFetch(u) ==
    LET f == file[OriginOf[u]]
    IN f.status = "none" \/ (f.status = "found" /\ Permits(f.lines, u))

\* No record of another kind stands among the agent lines of a group.
Unbroken(lines) ==
    \A j, k \in DOMAIN lines :
        j < k /\ IsAgent(lines[j]) /\ IsAgent(lines[k]) /\ lines[k - 1].key = "other"
        => \E m \in j..k : IsRule(lines[m])
=============================================================================
