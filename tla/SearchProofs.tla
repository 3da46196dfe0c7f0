---------------------------- MODULE SearchProofs ----------------------------
(* Proofs about Search, for any callers, budget, retries and keywords.     *)
EXTENDS Search, FiniteSetTheorems, TLAPS

USE HttpAssumption, SearchAssumption

Over == {u \in Users : user[u].at = "over"}
Ready == {u \in Users : http[u].at = "check"}

\* The counter shows what was granted and who has yet to undo; while anyone has,
\* or has been refused, the budget is spent.
BudgetInv ==
    /\ used = granted + Cardinality(Over)
    /\ granted <= Max
    /\ Over # {} \/ refused # {} => granted = Max

\* Every request of a user that is still to leave has been paid for, and no user's
\* call has a retry.
WireInv ==
    /\ wire + Cardinality(Ready) <= granted
    /\ \A u \in Users :
          IF user[u].at = "do" THEN http[u].retries = 0 /\ http[u].at \in {"check", "flight"} \cup Done
          ELSE http[u].at = "none"

LEMMA Members == Collector \in Users /\ Searchers \subseteq Users
BY DEF Users

LEMMA SetsFinite ==
    /\ IsFiniteSet(Over) /\ Cardinality(Over) \in Nat
    /\ IsFiniteSet(Ready) /\ Cardinality(Ready) \in Nat
BY FS_Subset, FS_CardinalityType DEF Over, Ready

\* Only these two variables decide who is in those sets.
LEMMA SetsKept ==
    /\ UNCHANGED user => Over' = Over
    /\ UNCHANGED http => Ready' = Ready
BY DEF Over, Ready

\* u alone has moved, to place.
Moved(u, place) ==
    /\ user' \in [Users -> [at : Places, attempt : {0, 1}]]
    /\ user'[u].at = place
    /\ \A v \in Users \ {u} : user'[v] = user[v]

LEMMA UserMoved ==
    ASSUME TypeOK, NEW u \in Users, NEW place \in Places, At(u, place)
    PROVE  Moved(u, place)
<1>1. user[u] \in [at : Places, attempt : {0, 1}]
  BY DEF TypeOK
<1>2. [user[u] EXCEPT !.at = place] \in [at : Places, attempt : {0, 1}]
  BY <1>1
<1>3. [user[u] EXCEPT !.at = place].at = place
  BY <1>1
<1>4. user' = [user EXCEPT ![u] = [user[u] EXCEPT !.at = place]]
  BY DEF At
<1>5. QED BY <1>2, <1>3, <1>4 DEF TypeOK, Moved

LEMMA UserPut ==
    ASSUME TypeOK, NEW u \in Users, NEW place \in Places, NEW n \in {0, 1},
           user' = [user EXCEPT ![u] = [at |-> place, attempt |-> n]]
    PROVE  Moved(u, place)
BY DEF TypeOK, Moved

LEMMA OverKept ==
    ASSUME TypeOK, NEW u \in Users, user[u].at # "over", user'[u].at # "over",
           \A v \in Users \ {u} : user'[v] = user[v]
    PROVE  Over' = Over
BY DEF Over

-----------------------------------------------------------------------------
(* The HTTP client's steps.                                                *)

LEMMA CallMoved ==
    ASSUME HttpTypeOK, NEW c \in Callers,
           NEW at \in {"none", "check", "flight", "wait"} \cup Done, Goto(c, at)
    PROVE  /\ http' \in [Callers -> Call]
           /\ http'[c].at = at /\ http'[c].sent = http[c].sent
           /\ http'[c].retries = http[c].retries
           /\ \A d \in Callers \ {c} : http'[d] = http[d]
<1>1. http[c] \in Call
  BY DEF HttpTypeOK
<1>2. [http[c] EXCEPT !.at = at] \in Call
  BY <1>1 DEF Call
<1>3. /\ [http[c] EXCEPT !.at = at].at = at
      /\ [http[c] EXCEPT !.at = at].sent = http[c].sent
      /\ [http[c] EXCEPT !.at = at].retries = http[c].retries
  BY <1>1 DEF Call
<1>4. http' = [http EXCEPT ![c] = [http[c] EXCEPT !.at = at]]
  BY DEF Goto
<1>5. QED BY <1>2, <1>3, <1>4 DEF HttpTypeOK

\* What a step does to its call.
LEMMA StepEffect ==
    ASSUME HttpTypeOK, NEW c \in Callers, Step(c)
    PROVE  /\ HttpTypeOK'
           /\ \A d \in Callers \ {c} : http'[d] = http[d]
           /\ http'[c].retries = http[c].retries
           /\ \/ /\ http[c].at = "check" /\ http'[c].at \in {"flight"} \cup Done
                 /\ http'[c].sent = http[c].sent \/ http'[c].sent = http[c].sent + 1
              \/ /\ http[c].at = "flight" /\ http'[c].at \in {"wait"} \cup Done
                 /\ http'[c].at = "wait" => http[c].attempt < http[c].retries
                 /\ http'[c].sent = http[c].sent
              \/ http[c].at = "wait"
<1>1. http[c] \in Call /\ ended' = ended
  BY DEF HttpTypeOK, Step, Attempt, Answer, Retry, Interrupted
<1>2. CASE Attempt(c) /\ ended
  BY <1>2, CallMoved DEF Attempt, HttpTypeOK, Done
<1>3. CASE Attempt(c) /\ ~ended
  <2> DEFINE new == [at |-> "flight", attempt |-> http[c].attempt,
                     retries |-> http[c].retries, sent |-> http[c].sent + 1]
  <2>1. new \in Call /\ new.at = "flight" /\ new.sent = http[c].sent + 1
        /\ new.retries = http[c].retries
    BY <1>1 DEF Call
  <2>2. http' = [http EXCEPT ![c] = new]
    BY <1>1, <1>3 DEF Attempt, HttpTypeOK, Call
  <2> HIDE DEF new
  <2>3. http'[c] = new /\ http' \in [Callers -> Call] /\ \A d \in Callers \ {c} : http'[d] = http[d]
    BY <2>1, <2>2 DEF HttpTypeOK
  <2>4. QED BY <1>1, <1>3, <2>1, <2>3 DEF Attempt, HttpTypeOK
<1>4. CASE Answer(c)
  <2>1. PICK at \in {"wait"} \cup Done :
          Goto(c, at) /\ (at = "wait" => ~(http[c].attempt >= http[c].retries))
    BY <1>4 DEF Answer, Again, Done
  <2>2. at = "wait" => http[c].attempt < http[c].retries
    BY <1>1, <2>1 DEF Call
  <2>3. QED BY <1>1, <1>4, <2>1, <2>2, CallMoved DEF Answer, HttpTypeOK
<1>5. CASE Retry(c)
  <2> DEFINE new == [at |-> "check", attempt |-> http[c].attempt + 1,
                     retries |-> http[c].retries, sent |-> http[c].sent]
  <2>1. new \in Call /\ new.retries = http[c].retries
    BY <1>1 DEF Call
  <2>2. http' = [http EXCEPT ![c] = new]
    BY <1>1, <1>5 DEF Retry, HttpTypeOK, Call
  <2> HIDE DEF new
  <2>3. http'[c] = new /\ http' \in [Callers -> Call] /\ \A d \in Callers \ {c} : http'[d] = http[d]
    BY <2>1, <2>2 DEF HttpTypeOK
  <2>4. QED BY <1>1, <1>5, <2>1, <2>3 DEF Retry, HttpTypeOK
<1>6. CASE Interrupted(c)
  BY <1>1, <1>6, CallMoved DEF Interrupted, HttpTypeOK, Done
<1>7. QED BY <1>2, <1>3, <1>4, <1>5, <1>6 DEF Step, Attempt

LEMMA StartedTyped ==
    /\ Started(TRUE) \in Call /\ Started(FALSE) \in Call /\ NoCall \in Call
    /\ Started(TRUE).at = "check" /\ Started(TRUE).retries = 0
BY DEF Started, NoCall, Allowed, Call

-----------------------------------------------------------------------------
(* The invariant.                                                          *)

\* A searcher that is searching holds the lock, and nobody else does; the collector starts
\* when all have returned.
LockInv ==
    /\ lock # Nobody => Searching(lock)
    /\ \A s \in Searchers : Searching(s) => lock = s
    /\ user[Collector].at # "idle" => \A s \in Searchers : user[s].at \in {"returned", "error"}

\* While the collector searches, there is a keyword that it searches for.
ProgressInv == Searching(Collector) => progress.keyword <= Keywords

Inv == TypeOK /\ BudgetInv /\ WireInv /\ LockInv /\ ProgressInv

LEMMA InitHolds == Init => Inv
<1> SUFFICES ASSUME Init PROVE Inv
  OBVIOUS
<1>1. Over = {} /\ Ready = {}
  BY DEF Init, HttpInit, NoCall, Over, Ready
<1>2. TypeOK
  <2>1. HttpTypeOK
    BY StartedTyped DEF Init, HttpInit, HttpTypeOK
  <2>2. user \in [Users -> [at : Places, attempt : {0, 1}]]
    BY DEF Init, Places
  <2>3. progress \in [keyword : 1 .. Keywords + 1, page : 1 .. Pages,
                      searched : BOOLEAN, failed : BOOLEAN]
    <3>1. 1 \in 1 .. Keywords + 1 /\ 1 \in 1 .. Pages
      OBVIOUS
    <3>2. QED BY <3>1 DEF Init
  <2>4. QED BY <2>1, <2>2, <2>3 DEF Init, TypeOK
<1>3. BudgetInv
  BY <1>1, FS_EmptySet DEF Init, BudgetInv
<1>4. WireInv
  BY <1>1, FS_EmptySet DEF Init, HttpInit, NoCall, WireInv
<1>5. LockInv /\ ProgressInv
  BY Members DEF Init, LockInv, ProgressInv, Searching, Outcomes
<1>6. QED BY <1>2, <1>3, <1>4, <1>5 DEF Inv

\* A move between places that are neither a query nor a refusal disturbs no count.
LEMMA CountsKept ==
    ASSUME Inv, NEW u \in Users, NEW place, Moved(u, place),
           user[u].at \notin {"over", "do"}, place \notin {"over", "do"},
           UNCHANGED <<http, used, granted, refused, wire>>
    PROVE  BudgetInv' /\ WireInv'
<1>1. Over' = Over /\ Ready' = Ready
  BY OverKept, SetsKept DEF Inv, Moved
<1>2. BudgetInv'
  BY <1>1 DEF Inv, BudgetInv
<1>3. WireInv'
  BY <1>1 DEF Inv, WireInv, Moved
<1>4. QED BY <1>2, <1>3

\* A user that goes on searching holds whatever it held.
LEMMA LockKept ==
    ASSUME Inv, NEW u \in Users, NEW place, Moved(u, place), Searching(u),
           place \in {"take", "over", "do", "delay"} \cup Outcomes,
           UNCHANGED <<lock, progress>>
    PROVE  LockInv' /\ ProgressInv'
<1>1. \A v \in Users : Searching(v)' <=> Searching(v)
  BY DEF Moved, Searching
<1>2. user[Collector].at = "idle" <=> user'[Collector].at = "idle"
  BY Members DEF Moved, Searching, Outcomes
<1>3. \A s \in Searchers : user[s].at \in {"returned", "error"} => user'[s].at \in {"returned", "error"}
  BY Members DEF Moved, Searching, Outcomes
<1>4. LockInv'
  BY <1>1, <1>2, <1>3, Members DEF Inv, TypeOK, LockInv
<1>5. ProgressInv'
  BY <1>1, Members DEF Inv, ProgressInv
<1>6. QED BY <1>4, <1>5

-----------------------------------------------------------------------------
(* Every step keeps it.                                                    *)

\* Steps that move no user.
LEMMA NobodyMoves ==
    ASSUME Inv, HttpTypeOK', UNCHANGED <<user, used, lock, progress, granted, refused>>,
           wire' \in Nat
    PROVE  TypeOK' /\ BudgetInv' /\ LockInv' /\ ProgressInv'
<1>1. TypeOK' /\ BudgetInv'
  BY SetsKept DEF Inv, TypeOK, BudgetInv
<1>2. LockInv' /\ ProgressInv'
  BY DEF Inv, LockInv, ProgressInv, Searching
<1>3. QED BY <1>1, <1>2

LEMMA ClientKeeps ==
    ASSUME Inv, NEW c \in Callers, ClientStep(c)
    PROVE  Inv'
<1>1. /\ TypeOK /\ WireInv /\ HttpTypeOK
      /\ UNCHANGED <<user, used, lock, progress, granted, refused>>
  BY DEF Inv, TypeOK, ClientStep
<1>2. Step(c) /\ HttpTypeOK' /\ \A d \in Callers \ {c} : http'[d] = http[d]
  BY <1>1, StepEffect DEF ClientStep
<1>3. CASE c \notin Users
  <2>1. wire' = wire /\ Ready' = Ready
    BY <1>2, <1>3, SearchAssumption DEF ClientStep, Ready
  <2>2. WireInv'
    BY <1>1, <1>2, <1>3, <2>1, SearchAssumption DEF WireInv
  <2>3. QED BY <1>1, <1>2, <2>1, <2>2, NobodyMoves DEF Inv, TypeOK
<1>4. CASE c \in Users
  <2>1. /\ user[c].at = "do"
        /\ http[c].retries = 0 /\ http[c].at \in {"check", "flight"} \cup Done
        /\ http[c] \in Call /\ http'[c] \in Call
    BY <1>1, <1>2, <1>4 DEF WireInv, HttpTypeOK, Step, Attempt, Answer, Retry, Interrupted
  <2>2. /\ http'[c].retries = 0
        /\ \/ /\ http[c].at = "check" /\ http'[c].at \in {"flight"} \cup Done
              /\ http'[c].sent = http[c].sent \/ http'[c].sent = http[c].sent + 1
           \/ /\ http[c].at = "flight" /\ http'[c].at \in Done
              /\ http'[c].sent = http[c].sent
    <3>1. http[c].at # "wait"
      BY <2>1 DEF Done
    <3>2. ~ http[c].attempt < http[c].retries
      BY <2>1 DEF Call
    <3>3. QED BY <1>1, <1>2, <2>1, <3>1, <3>2, StepEffect
  <2>3. wire' \in Nat /\ wire' + Cardinality(Ready') <= wire + Cardinality(Ready)
    <3>1. http[c].sent \in Nat /\ wire \in Nat
      BY <1>1, <2>1 DEF Call, TypeOK
    <3>2. CASE http[c].at = "check"
      <4>1. Ready' = Ready \ {c} /\ c \in Ready
        BY <1>2, <1>4, <2>2, <3>2, SearchAssumption DEF Ready, Done
      <4>2. Cardinality(Ready') = Cardinality(Ready) - 1
        BY <4>1, SetsFinite, FS_RemoveElement
      <4>3. wire' = wire \/ wire' = wire + 1
        BY DEF ClientStep
      <4>4. QED BY <3>1, <4>2, <4>3, SetsFinite
    <3>3. CASE http[c].at = "flight"
      <4>1. Ready' = Ready
        BY <1>2, <1>4, <2>2, <3>3, SearchAssumption DEF Ready, Done
      <4>2. wire' = wire
        BY <2>2, <3>1, <3>3 DEF ClientStep
      <4>3. QED BY <3>1, <4>1, <4>2, SetsFinite
    <3>4. QED BY <2>2, <3>2, <3>3
  <2>4. WireInv'
    <3>1. wire' + Cardinality(Ready') <= granted'
      <4>1. granted \in Nat /\ wire \in Nat /\ Cardinality(Ready') \in Nat
        BY <1>1, <2>2, SetsFinite, FS_Subset, FS_CardinalityType, SearchAssumption DEF TypeOK, Ready
      <4>2. QED BY <1>1, <2>3, <4>1, SetsFinite DEF WireInv
    <3>2. \A u \in Users \ {c} : http'[u] = http[u]
      BY <1>2, SearchAssumption
    <3>3. QED BY <1>1, <2>1, <2>2, <3>1, <3>2 DEF WireInv, Done
  <2>5. QED BY <1>1, <1>2, <2>3, <2>4, NobodyMoves DEF Inv, TypeOK
<1>5. QED BY <1>3, <1>4

LEMMA OthersKeep ==
    ASSUME Inv, NEW c \in Callers \ Users, OtherSource(c)
    PROVE  Inv'
<1>1. /\ TypeOK /\ WireInv /\ HttpTypeOK
      /\ UNCHANGED <<user, used, lock, progress, granted, refused, wire, ended>>
  BY DEF Inv, TypeOK, OtherSource, Ask, Returned
<1>2. HttpTypeOK' /\ \A d \in Users : http'[d] = http[d]
  BY <1>1, StartedTyped, SearchAssumption DEF OtherSource, Ask, Returned, HttpTypeOK
<1>3. WireInv'
  BY <1>1, <1>2 DEF WireInv, Ready
<1>4. QED BY <1>1, <1>2, <1>3, NobodyMoves DEF Inv, TypeOK

LEMMA EndKeeps ==
    ASSUME Inv, ContextEnds
    PROVE  Inv'
<1>1. HttpTypeOK' /\ UNCHANGED <<http, user, used, lock, progress, granted, refused, wire>>
  BY DEF Inv, TypeOK, ContextEnds, End, HttpTypeOK
<1>2. WireInv'
  BY <1>1 DEF Inv, WireInv, Ready
<1>3. QED BY <1>1, <1>2, NobodyMoves DEF Inv, TypeOK

\* What Add does, said of the counts before it.
LEMMA AddEffect ==
    ASSUME Inv, NEW u \in Users, Add(u)
    PROVE  \/ /\ granted < Max /\ granted' = granted + 1 /\ refused' = refused
              /\ Over = {} /\ refused = {}
              /\ Moved(u, "do") /\ http' = [http EXCEPT ![u] = Started(TRUE)]
           \/ /\ granted = Max /\ granted' = granted /\ refused' = refused \cup {u}
              /\ Moved(u, "over") /\ http' = http
<1>1. /\ TypeOK /\ BudgetInv /\ granted \in Nat /\ used \in Nat
      /\ used' = used + 1
  BY DEF Inv, TypeOK, Add
<1>2. (Over = {}) <=> (Cardinality(Over) = 0)
  BY SetsFinite, FS_EmptySet
<1>3. CASE used' > Max
  <2>1. granted = Max
    BY <1>1, <1>2, <1>3, SetsFinite DEF BudgetInv
  <2>2. Moved(u, "over")
    BY <1>1, <1>3, UserMoved DEF Add, Places
  <2>3. QED BY <1>3, <2>1, <2>2 DEF Add
<1>4. CASE ~(used' > Max)
  <2>1. granted < Max
    BY <1>1, <1>4, SetsFinite DEF BudgetInv
  <2>2. Over = {} /\ refused = {}
    BY <1>1, <2>1 DEF BudgetInv
  <2>3. Moved(u, "do")
    BY <1>1, <1>4, UserMoved DEF Add, Places
  <2>4. QED BY <1>4, <2>1, <2>2, <2>3 DEF Add
<1>5. QED BY <1>3, <1>4

LEMMA AddKeeps ==
    ASSUME Inv, NEW u \in Users, Add(u)
    PROVE  Inv'
<1>1. /\ TypeOK /\ HttpTypeOK /\ BudgetInv /\ WireInv
      /\ user[u].at = "take" /\ http[u].at = "none" /\ used' = used + 1
      /\ granted \in Nat /\ used \in Nat /\ wire \in Nat
      /\ UNCHANGED <<ended, lock, progress, wire>>
  BY DEF Inv, TypeOK, WireInv, Add
<1>2. CASE /\ granted < Max /\ granted' = granted + 1 /\ refused' = refused
           /\ Over = {} /\ refused = {}
           /\ Moved(u, "do") /\ http' = [http EXCEPT ![u] = Started(TRUE)]
  <2>1. HttpTypeOK' /\ http'[u] = Started(TRUE) /\ \A d \in Users \ {u} : http'[d] = http[d]
    BY <1>1, <1>2, StartedTyped, SearchAssumption DEF HttpTypeOK
  <2>2. Over' = Over
    BY <1>1, <1>2, OverKept DEF Moved
  <2>3. Ready' = Ready \cup {u} /\ u \notin Ready
    BY <1>1, <2>1, StartedTyped DEF Ready
  <2>4. Cardinality(Ready') = Cardinality(Ready) + 1
    BY <2>3, SetsFinite, FS_AddElement
  <2>5. TypeOK'
    BY <1>1, <1>2, <2>1 DEF TypeOK, Moved
  <2>6. BudgetInv'
    BY <1>1, <1>2, <2>2, SetsFinite DEF BudgetInv
  <2>7. WireInv'
    <3>1. wire' + Cardinality(Ready') <= granted'
      BY <1>1, <1>2, <2>4, SetsFinite DEF WireInv
    <3>2. user'[u].at = "do" /\ http'[u].retries = 0 /\ http'[u].at = "check"
      BY <1>2, <2>1, StartedTyped DEF Moved
    <3>3. \A d \in Users \ {u} : user'[d] = user[d] /\ http'[d] = http[d]
      BY <1>2, <2>1 DEF Moved
    <3>4. QED BY <1>1, <3>1, <3>2, <3>3 DEF WireInv
  <2>8. LockInv' /\ ProgressInv'
    BY <1>1, <1>2, LockKept DEF Searching
  <2>9. QED BY <2>5, <2>6, <2>7, <2>8 DEF Inv
<1>3. CASE /\ granted = Max /\ granted' = granted /\ refused' = refused \cup {u}
           /\ Moved(u, "over") /\ http' = http
  <2>1. Over' = Over \cup {u} /\ u \notin Over
    BY <1>1, <1>3 DEF Over, Moved
  <2>2. Cardinality(Over') = Cardinality(Over) + 1
    BY <2>1, SetsFinite, FS_AddElement
  <2>3. TypeOK'
    BY <1>1, <1>3 DEF TypeOK, HttpTypeOK, Moved
  <2>4. BudgetInv'
    BY <1>1, <1>3, <2>2, SetsFinite DEF BudgetInv
  <2>5. WireInv'
    BY <1>1, <1>3, SetsKept DEF WireInv, Moved
  <2>6. LockInv' /\ ProgressInv'
    BY <1>1, <1>3, LockKept DEF Searching
  <2>7. QED BY <2>3, <2>4, <2>5, <2>6 DEF Inv
<1>4. QED BY <1>2, <1>3, AddEffect

LEMMA UndoKeeps ==
    ASSUME Inv, NEW u \in Users, Undo(u)
    PROVE  Inv'
<1>1. /\ TypeOK /\ HttpTypeOK /\ BudgetInv /\ WireInv
      /\ user[u].at = "over" /\ Moved(u, "exhausted") /\ used' = used - 1
      /\ granted \in Nat /\ used \in Nat
      /\ UNCHANGED <<http, ended, lock, progress, granted, refused, wire>>
  BY UserMoved DEF Inv, TypeOK, Undo, Places, Outcomes, httpVars
<1>2. Over' = Over \ {u} /\ u \in Over
  BY <1>1 DEF Over, Moved
<1>3. Cardinality(Over') = Cardinality(Over) - 1 /\ Cardinality(Over') \in Nat
  BY <1>2, SetsFinite, FS_RemoveElement, FS_CardinalityType
<1>4. BudgetInv' /\ used' \in Nat
  BY <1>1, <1>2, <1>3, SetsFinite DEF BudgetInv
<1>5. TypeOK'
  BY <1>1, <1>4 DEF TypeOK, HttpTypeOK, Moved
<1>6. WireInv'
  BY <1>1, SetsKept DEF WireInv, Moved
<1>7. LockInv' /\ ProgressInv'
  BY <1>1, LockKept DEF Searching, Outcomes
<1>8. QED BY <1>4, <1>5, <1>6, <1>7 DEF Inv

LEMMA AnsweredKeeps ==
    ASSUME Inv, NEW u \in Users, Answered(u)
    PROVE  Inv'
<1>1. /\ TypeOK /\ HttpTypeOK /\ BudgetInv /\ WireInv
      /\ user[u].at = "do" /\ http[u].at \in Done
      /\ http' = [http EXCEPT ![u] = NoCall]
      /\ UNCHANGED <<ended, used, lock, progress, granted, refused, wire>>
  BY DEF Inv, TypeOK, Answered
<1>2. PICK place \in {"delay"} \cup Outcomes : At(u, place)
  BY DEF Answered, Failure, Outcomes
<1>3. Moved(u, place) /\ place \notin {"do", "over"}
  BY <1>1, <1>2, UserMoved DEF Places, Outcomes
<1>4. /\ HttpTypeOK' /\ http'[u].at = "none"
      /\ \A d \in Users \ {u} : http'[d] = http[d]
  BY <1>1, StartedTyped, SearchAssumption DEF HttpTypeOK, NoCall
<1>5. Over' = Over /\ Ready' = Ready
  BY <1>1, <1>3, <1>4 DEF Over, Ready, Moved, Done
<1>6. TypeOK'
  BY <1>1, <1>3, <1>4 DEF TypeOK, Moved
<1>7. BudgetInv'
  BY <1>1, <1>5 DEF BudgetInv
<1>8. WireInv'
  BY <1>1, <1>3, <1>4, <1>5 DEF WireInv, Moved
<1>9. LockInv' /\ ProgressInv'
  BY <1>1, <1>2, <1>3, LockKept DEF Searching
<1>10. QED BY <1>6, <1>7, <1>8, <1>9 DEF Inv

\* Moves that are no query and no refusal, and leave all but the lock and the
\* collector's progress alone.
LEMMA QuietMove ==
    ASSUME Inv, NEW u \in Users, NEW place, Moved(u, place),
           user[u].at \notin {"over", "do"}, place \notin {"over", "do"},
           UNCHANGED <<httpVars, used, granted, refused, wire>>,
           lock' \in Searchers \cup {Nobody},
           progress' \in [keyword : 1 .. Keywords + 1, page : 1 .. Pages,
                          searched : BOOLEAN, failed : BOOLEAN],
           LockInv', ProgressInv'
    PROVE  Inv'
<1>1. BudgetInv' /\ WireInv'
  BY CountsKept DEF httpVars
<1>2. TypeOK'
  BY DEF Inv, TypeOK, HttpTypeOK, httpVars, Moved
<1>3. QED BY <1>1, <1>2 DEF Inv

LEMMA DelayKeeps ==
    ASSUME Inv, NEW u \in Users, Delayed(u) \/ CancelledInDelay(u)
    PROVE  Inv'
<1>1. PICK place \in {"take", "cancelled"} : Moved(u, place)
  BY UserPut, UserMoved DEF Inv, Delayed, CancelledInDelay, Places, Outcomes
<1>2. /\ user[u].at = "delay" /\ UNCHANGED <<httpVars, used, lock, progress, granted, refused, wire>>
  BY DEF Delayed, CancelledInDelay
<1>3. LockInv' /\ ProgressInv'
  BY <1>1, <1>2, LockKept DEF Searching, Outcomes
<1>4. QED BY <1>1, <1>2, <1>3, QuietMove DEF Inv, TypeOK

LEMMA LockKeeps ==
    ASSUME Inv, NEW s \in Searchers, Lock(s) \/ Unlock(s)
    PROVE  Inv'
<1>1. s \in Users /\ s # Collector /\ TypeOK /\ LockInv /\ ProgressInv
  BY Members, SearchAssumption DEF Inv
<1>2. UNCHANGED <<httpVars, used, progress, granted, refused, wire>>
  BY DEF Lock, Unlock
<1>3. CASE Lock(s)
  <2>1. Moved(s, "take") /\ user[s].at = "idle" /\ lock = Nobody /\ lock' = s
    BY <1>1, <1>3, UserMoved DEF Lock, Places
  <2>2. user'[Collector].at = "idle"
    BY <1>1, <2>1, Members DEF LockInv, Moved
  <2>3. \A r \in Searchers \ {s} : ~Searching(r)'
    BY <1>1, <2>1, Members, SearchAssumption DEF LockInv, Moved, Searching
  <2>4. LockInv' /\ ProgressInv'
    BY <1>1, <2>1, <2>2, <2>3 DEF LockInv, Moved, ProgressInv, Searching, Outcomes
  <2>5. QED BY <1>1, <1>2, <2>1, <2>4, QuietMove DEF TypeOK
<1>4. CASE Unlock(s)
  <2>1. PICK place \in {"returned", "error"} : Moved(s, place)
    BY <1>1, <1>4, UserMoved DEF Unlock, Places
  <2>2. user[s].at \in Outcomes /\ lock = s /\ lock' = Nobody
    BY <1>1, <1>4 DEF Unlock, LockInv, Searching
  <2>3. \A r \in Searchers : ~Searching(r)'
    BY <1>1, <2>1, <2>2, Members DEF LockInv, Moved, Searching, Outcomes
  <2>4. user'[Collector] = user[Collector]
    BY <1>1, <2>1, Members DEF Moved
  <2>5. LockInv'
    BY <1>1, <2>1, <2>2, <2>3, <2>4, Members DEF LockInv, Moved
  <2>6. ProgressInv'
    BY <1>1, <1>2, <2>4 DEF ProgressInv, Searching
  <2>7. QED BY <1>1, <1>2, <2>1, <2>2, <2>5, <2>6, QuietMove DEF TypeOK, Outcomes
<1>5. QED BY <1>3, <1>4

\* The collector's moves, once every searcher has returned.
LEMMA CollectorMove ==
    ASSUME Inv, NEW place, Moved(Collector, place),
           \A s \in Searchers : user[s].at \in {"returned", "error"},
           UNCHANGED lock
    PROVE  LockInv'
<1>1. \A s \in Searchers : user'[s] = user[s]
  BY Members, SearchAssumption DEF Moved
<1>2. lock = Nobody
  BY DEF Inv, TypeOK, LockInv, Searching, Outcomes
<1>3. QED BY <1>1, <1>2 DEF Inv, LockInv, Searching, Outcomes

LEMMA CollectorKeeps ==
    ASSUME Inv, CollectorStep
    PROVE  Inv'
<1>1. /\ Collector \in Users /\ TypeOK /\ LockInv /\ ProgressInv
      /\ progress \in [keyword : 1 .. Keywords + 1, page : 1 .. Pages,
                       searched : BOOLEAN, failed : BOOLEAN]
  BY Members DEF Inv, TypeOK
<1>2. UNCHANGED <<httpVars, used, lock, granted, refused, wire>>
  BY DEF CollectorStep, Collect, NextPage, TakeIn
<1>3. \A s \in Searchers : user[s].at \in {"returned", "error"}
  BY <1>1 DEF CollectorStep, Collect, NextPage, TakeIn, LockInv, Outcomes
<1>4. CASE Collect
  <2>1. Moved(Collector, "next") /\ user[Collector].at = "idle" /\ progress' = progress
    BY <1>1, <1>4, UserMoved DEF Collect, Places
  <2>2. LockInv' /\ ProgressInv'
    BY <1>2, <1>3, <2>1, CollectorMove DEF ProgressInv, Moved, Searching, Outcomes
  <2>3. QED BY <1>1, <1>2, <2>1, <2>2, QuietMove DEF TypeOK
<1>5. CASE NextPage
  <2>1. PICK place \in {"take", "error", "returned"} :
          Moved(Collector, place) /\ (place = "take" => ~(progress.keyword > Keywords))
    BY <1>1, <1>5, UserMoved, UserPut DEF NextPage, Places
  <2>2. user[Collector].at = "next" /\ progress' = progress
    BY <1>5 DEF NextPage
  <2>3. LockInv'
    BY <1>2, <1>3, <2>1, CollectorMove
  <2>4. ProgressInv'
    BY <1>1, <2>1, <2>2 DEF ProgressInv, Moved, Searching, Outcomes
  <2>5. QED BY <1>1, <1>2, <2>1, <2>2, <2>3, <2>4, QuietMove DEF TypeOK
<1>6. CASE TakeIn
  <2>1. PICK place \in {"next", "error"} : Moved(Collector, place)
    BY <1>1, <1>6, UserMoved DEF TakeIn, Places
  <2>2. user[Collector].at \in Outcomes /\ progress.keyword <= Keywords
    BY <1>1, <1>6 DEF TakeIn, ProgressInv, Searching
  <2>3. LockInv' /\ ProgressInv'
    BY <1>2, <1>3, <2>1, CollectorMove DEF ProgressInv, Moved, Searching, Outcomes
  <2>4. progress' \in [keyword : 1 .. Keywords + 1, page : 1 .. Pages,
                       searched : BOOLEAN, failed : BOOLEAN]
    <3> DEFINE outcome == user[Collector].at
               answered == outcome \in {"found", "empty"}
               heard == [progress EXCEPT !.searched = @ \/ answered, !.failed = @ \/ ~answered]
    <3>1. /\ heard \in [keyword : 1 .. Keywords + 1, page : 1 .. Pages,
                        searched : BOOLEAN, failed : BOOLEAN]
          /\ heard.keyword = progress.keyword /\ heard.page = progress.page
      BY <1>1
    <3>2. /\ progress.keyword + 1 \in 1 .. Keywords + 1 /\ Keywords + 1 \in 1 .. Keywords + 1
          /\ 1 \in 1 .. Pages
      BY <1>1, <2>2
    <3>3. outcome = "found" /\ ~KeywordDone(outcome) => progress.page + 1 \in 1 .. Pages
      BY <1>1 DEF KeywordDone
    <3>4. \/ progress' = progress
          \/ progress' = [heard EXCEPT !.keyword = @ + 1, !.page = 1]
          \/ outcome = "found" /\ ~KeywordDone(outcome) /\ progress' = [heard EXCEPT !.page = @ + 1]
          \/ progress' = [heard EXCEPT !.keyword = Keywords + 1]
      BY <1>6 DEF TakeIn
    <3> HIDE DEF heard
    <3>5. QED BY <1>1, <3>1, <3>2, <3>3, <3>4
  <2>5. QED BY <1>1, <1>2, <2>1, <2>2, <2>3, <2>4, QuietMove DEF TypeOK, Outcomes
<1>7. QED BY <1>4, <1>5, <1>6 DEF CollectorStep

LEMMA StepKeeps == Inv /\ [Next]_vars => Inv'
<1> SUFFICES ASSUME Inv, [Next]_vars PROVE Inv'
  OBVIOUS
<1>1. ASSUME NEW c \in Callers, ClientStep(c) PROVE Inv'
  BY <1>1, ClientKeeps
<1>2. ASSUME NEW c \in Callers \ Users, OtherSource(c) PROVE Inv'
  BY <1>2, OthersKeep
<1>3. ASSUME NEW u \in Users, Metered(u) PROVE Inv'
  BY <1>3, AddKeeps, UndoKeeps, AnsweredKeeps, DelayKeeps DEF Metered
<1>4. ASSUME NEW s \in Searchers, Lock(s) \/ Unlock(s) PROVE Inv'
  BY <1>4, LockKeeps
<1>5. CASE CollectorStep
  BY <1>5, CollectorKeeps
<1>6. CASE ContextEnds
  BY <1>6, EndKeeps
<1>7. CASE UNCHANGED vars
  <2>1. TypeOK' /\ BudgetInv'
    BY <1>7, SetsKept DEF vars, httpVars, Inv, TypeOK, HttpTypeOK, BudgetInv
  <2>2. WireInv'
    BY <1>7, SetsKept DEF vars, httpVars, Inv, WireInv
  <2>3. LockInv' /\ ProgressInv'
    BY <1>7 DEF vars, Inv, LockInv, ProgressInv, Searching
  <2>4. QED BY <2>1, <2>2, <2>3 DEF Inv
<1>8. QED BY <1>1, <1>2, <1>3, <1>4, <1>5, <1>6, <1>7 DEF Next

-----------------------------------------------------------------------------
(* What follows for every run.                                             *)

\* The invariant holds throughout.
THEOREM InvHolds == Spec => []Inv
BY InitHolds, StepKeeps, PTL DEF Spec

\* The variables keep their types; the collector stays within its pages.
THEOREM TypeCorrect == Spec => []TypeOK
<1>1. Inv => TypeOK
  BY DEF Inv
<1>2. QED BY <1>1, InvHolds, PTL

\* Never more search requests than the budget has (Budget.Take, metered,
\* WithoutRetries), for any budget, any number of companies and any retries.
THEOREM NeverOverBudget == Spec => []WithinBudget
<1>1. Inv => WithinBudget
  BY SetsFinite DEF Inv, TypeOK, BudgetInv, WireInv, WithinBudget
<1>2. QED BY <1>1, InvHolds, PTL

\* One search at a time (searchMu, and the collector after the companies).
THEOREM OneByOne == Spec => []OneSearchAtATime
<1>1. Inv => OneSearchAtATime
  BY DEF Inv, LockInv, Searching, OneSearchAtATime, Users, Outcomes
<1>2. QED BY <1>1, InvHolds, PTL

\* Take's two atomic steps implement the counter that is tested and raised in one.
THEOREM TakeImplementsBudget == Spec => TakeIsAtomic
<1>1. Init => Budget!Init
  BY DEF Init, Budget!Init
<1>2. ASSUME Inv, [Next]_vars PROVE [Budget!Next]_<<granted, refused>>
  <2>1. ASSUME NEW u \in Users, Add(u) PROVE Budget!Next
    BY <1>2, <2>1, AddEffect DEF Budget!Next, Budget!Spend, Budget!Refuse
  <2>2. CASE \A u \in Users : ~Add(u)
    BY <1>2, <2>2 DEF Next, ClientStep, OtherSource, Metered, Undo, Answered, Delayed,
       CancelledInDelay, Lock, Unlock, CollectorStep, Collect, NextPage, TakeIn, ContextEnds, vars
  <2>3. QED BY <2>1, <2>2
<1>3. QED BY <1>1, <1>2, InvHolds, PTL DEF Spec, TakeIsAtomic, Budget!Spec

-----------------------------------------------------------------------------
(* What the HTTP client promises, to these callers and to others.          *)

\* Between attempts, as many requests have left as there were attempts.
CallInv(call) ==
    /\ call.at = "check" => call.sent = call.attempt /\ call.attempt <= call.retries
    /\ call.at = "flight" => call.sent = call.attempt + 1 /\ call.attempt <= call.retries
    /\ call.at = "wait" => call.sent = call.attempt + 1 /\ call.attempt < call.retries
    /\ call.sent <= call.retries + 1
    /\ call.at = "busy" => call.sent = call.retries + 1

CallsInv == \A c \in Callers : CallInv(http[c])

LEMMA CallStep ==
    ASSUME HttpTypeOK, CallsInv, NEW c \in Callers, Step(c)
    PROVE  CallInv(http'[c])
<1>1. http[c] \in Call /\ CallInv(http[c])
  BY DEF HttpTypeOK, CallsInv
<1> DEFINE old == http[c]
<1>2. /\ old.at \in {"none", "check", "flight", "wait"} \cup Done
      /\ old.attempt \in Nat /\ old.retries \in Nat /\ old.sent \in Nat
  BY <1>1 DEF Call
<1>3. ASSUME NEW at, Goto(c, at)
      PROVE  /\ http'[c].at = at /\ http'[c].attempt = old.attempt
             /\ http'[c].retries = old.retries /\ http'[c].sent = old.sent
  BY <1>1, <1>3 DEF Goto, HttpTypeOK, Call
<1>4. CASE Attempt(c) /\ ended
  <2>1. old.at = "check" /\ Goto(c, "error")
    BY <1>4 DEF Attempt
  <2>2. QED BY <1>1, <1>2, <1>3, <2>1 DEF CallInv
<1>5. CASE Attempt(c) /\ ~ended
  <2>1. http'[c] = [at |-> "flight", attempt |-> old.attempt, retries |-> old.retries,
                    sent |-> old.sent + 1]
    BY <1>1, <1>5 DEF Attempt, HttpTypeOK, Call
  <2>2. QED BY <1>1, <1>2, <1>5, <2>1 DEF Attempt, CallInv
<1>6. CASE Answer(c)
  <2>1. PICK at \in {"wait"} \cup Done :
          /\ Goto(c, at)
          /\ at = "wait" => ~(old.attempt >= old.retries)
          /\ at = "busy" => old.attempt >= old.retries
    BY <1>6 DEF Answer, Again, Done
  <2>2. old.at = "flight"
    BY <1>6 DEF Answer
  <2>3. /\ http'[c].at = at /\ http'[c].attempt = old.attempt
        /\ http'[c].retries = old.retries /\ http'[c].sent = old.sent
    BY <1>3, <2>1
  <2>4. QED BY <1>1, <1>2, <2>1, <2>2, <2>3 DEF CallInv, Done
<1>7. CASE Retry(c)
  <2>1. http'[c] = [at |-> "check", attempt |-> old.attempt + 1, retries |-> old.retries,
                    sent |-> old.sent]
    BY <1>1, <1>7 DEF Retry, HttpTypeOK, Call
  <2>2. QED BY <1>1, <1>2, <1>7, <2>1 DEF Retry, CallInv
<1>8. CASE Interrupted(c)
  <2>1. old.at = "wait" /\ Goto(c, "error")
    BY <1>8 DEF Interrupted
  <2>2. QED BY <1>1, <1>2, <1>3, <2>1 DEF CallInv
<1>9. QED BY <1>4, <1>5, <1>6, <1>7, <1>8 DEF Step

LEMMA StepSends ==
    ASSUME HttpTypeOK, NEW c \in Callers, Step(c), ended
    PROVE  http'[c].sent <= http[c].sent
<1>1. http[c] \in Call /\ http[c].sent \in Nat
  BY DEF HttpTypeOK, Call
<1>2. ASSUME NEW at, Goto(c, at) PROVE http'[c].sent = http[c].sent
  BY <1>1, <1>2 DEF Goto, HttpTypeOK, Call
<1>3. CASE Retry(c)
  BY <1>1, <1>3 DEF Retry, HttpTypeOK, Call
<1>4. CASE ~Retry(c)
  <2>1. \E at \in {"wait"} \cup Done : Goto(c, at)
    BY <1>4 DEF Step, Attempt, Answer, Again, Interrupted, Done
  <2>2. QED BY <1>1, <1>2, <2>1
<1>5. QED BY <1>3, <1>4

LEMMA FreshCalls ==
    /\ CallInv(NoCall) /\ NoCall.sent = 0
    /\ \A noRetry \in BOOLEAN : CallInv(Started(noRetry)) /\ Started(noRetry).sent = 0
BY DEF CallInv, NoCall, Started, Allowed

\* A step of the search touches a call in one of these ways.
LEMMA CallChange ==
    ASSUME Inv, [Next]_vars, NEW c \in Callers
    PROVE  \/ http'[c] = http[c]
           \/ Step(c)
           \/ http'[c] = NoCall
           \/ \E noRetry \in BOOLEAN : http'[c] = Started(noRetry)
<1>1. TypeOK /\ HttpTypeOK /\ Users \subseteq Callers
  BY SearchAssumption DEF Inv, TypeOK
<1>2. ASSUME NEW d \in Callers, ClientStep(d)
      PROVE  http'[c] = http[c] \/ Step(c)
  BY <1>1, <1>2, StepEffect DEF ClientStep
<1>3. ASSUME NEW d \in Callers \ Users, OtherSource(d)
      PROVE  http'[c] = http[c] \/ http'[c] = NoCall \/ http'[c] = Started(FALSE)
  BY <1>1, <1>3 DEF OtherSource, Ask, Returned, HttpTypeOK
<1>4. ASSUME NEW u \in Users, Metered(u)
      PROVE  http'[c] = http[c] \/ http'[c] = NoCall \/ http'[c] = Started(TRUE)
  <2>1. CASE Add(u)
    BY <1>1, <2>1 DEF Add, HttpTypeOK
  <2>2. CASE Answered(u)
    BY <1>1, <2>2 DEF Answered, HttpTypeOK
  <2>3. CASE Undo(u) \/ Delayed(u) \/ CancelledInDelay(u)
    BY <2>3 DEF Undo, Delayed, CancelledInDelay, httpVars
  <2>4. QED BY <1>4, <2>1, <2>2, <2>3 DEF Metered
<1>5. ASSUME NEW s \in Searchers, Lock(s) \/ Unlock(s) PROVE http' = http
  BY <1>5 DEF Lock, Unlock, httpVars
<1>6. CASE CollectorStep
  BY <1>6 DEF CollectorStep, Collect, NextPage, TakeIn, httpVars
<1>7. CASE ContextEnds
  BY <1>7 DEF ContextEnds, End
<1>8. CASE UNCHANGED vars
  BY <1>8 DEF vars, httpVars
<1>9. QED BY <1>2, <1>3, <1>4, <1>5, <1>6, <1>7, <1>8 DEF Next

\* No call sends more requests than it may, nor gives up on a retryable status
\* early (Client.Do, WithoutRetries).
THEOREM AttemptsBounded == Spec => []AttemptsCounted
<1>1. Init => CallsInv
  BY FreshCalls DEF Init, HttpInit, CallsInv
<1>2. Inv /\ CallsInv /\ [Next]_vars => CallsInv'
  <2> SUFFICES ASSUME Inv, CallsInv, [Next]_vars, NEW c \in Callers PROVE CallInv(http'[c])
    BY DEF CallsInv
  <2>1. HttpTypeOK /\ CallInv(http[c])
    BY DEF Inv, TypeOK, CallsInv
  <2>2. QED BY <2>1, CallChange, CallStep, FreshCalls
<1>3. CallsInv => AttemptsCounted
  BY DEF CallsInv, CallInv, AttemptsCounted
<1>4. QED BY <1>1, <1>2, <1>3, InvHolds, PTL DEF Spec

\* Once the context has ended, no call sends a request (the test before every
\* attempt).
THEOREM SilentAfterEnd == Spec => NothingSentAfterEnd
<1>1. Inv /\ [Next]_vars =>
        [\A c \in Callers : ended => http'[c].sent <= http[c].sent]_httpVars
  <2> SUFFICES ASSUME Inv, [Next]_vars, NEW c \in Callers, ended
               PROVE  http'[c].sent <= http[c].sent
    OBVIOUS
  <2>1. HttpTypeOK /\ http[c].sent \in Nat
    BY DEF Inv, TypeOK, HttpTypeOK, Call
  <2>2. CASE Step(c)
    BY <2>1, <2>2, StepSends
  <2>3. QED BY <2>1, <2>2, CallChange, FreshCalls
<1>2. QED BY <1>1, InvHolds, PTL DEF Spec, NothingSentAfterEnd
=============================================================================
