---------------------------- MODULE RunLogProofs ----------------------------
(* Proofs about RunLog, for any processes, gap and clock.                  *)
EXTENDS RunLog, TLAPS

LEMMA LaterTime ==
    ASSUME NEW s \in Times, NEW t \in Times
    PROVE  Later(s, t) \in Times /\ Later(s, t) >= s /\ Later(s, t) >= t
           /\ Later(s, t) \in {s, t}
BY DEF Later, Times, Never

LEMMA TypeKept == TypeOK /\ [Next]_vars => TypeOK'
<1> SUFFICES ASSUME TypeOK, [Next]_vars PROVE TypeOK' OBVIOUS
<1>1. ASSUME NEW p \in Procs, Start(p) PROVE TypeOK'
  BY <1>1 DEF Start, Goto, TypeOK
<1>2. ASSUME NEW p \in Procs, Read(p) \/ GivesUp(p) PROVE TypeOK'
  BY <1>2 DEF Read, GivesUp, Goto, TypeOK
<1>3. ASSUME NEW p \in Procs, RecordRun(p) PROVE TypeOK'
  <2>1. now[p] \in Times /\ now[p] <= clock /\ last <= clock
    BY DEF TypeOK, Times
  <2>2. last' \in Times /\ last' <= clock
    BY <1>3, <2>1, LaterTime DEF RecordRun, TypeOK
  <2>3. QED BY <1>3, <2>2 DEF RecordRun, Overtake, Goto, TypeOK
<1>4. ASSUME NEW p \in Procs, Request(p) PROVE TypeOK'
  <2>1. asked' \in Times
    BY <1>4, LaterTime DEF Request, TypeOK, Times
  <2>2. QED BY <1>4, <2>1 DEF Request, Goto, TypeOK
<1>5. CASE Tick
  <2>1. clock \in Nat /\ clock' = clock + 1
    BY <1>5 DEF Tick, TypeOK
  <2>2. last <= clock' /\ \A p \in Procs : now[p] <= clock'
    BY <2>1 DEF TypeOK, Times, Never
  <2>3. QED BY <1>5, <2>1, <2>2 DEF Tick, TypeOK
<1>6. CASE UNCHANGED vars
  BY <1>6 DEF vars, TypeOK
<1>7. QED BY <1>1, <1>2, <1>3, <1>4, <1>5, <1>6 DEF Next

LEMMA InitTyped == Init => TypeOK /\ AskedIsRecorded
BY DEF Init, TypeOK, AskedIsRecorded, Times, Never

\* Times and places stay what they are, and nobody's clock runs ahead (RunLog.TypeOK).
THEOREM TypeCorrect == Spec => []TypeOK
<1>1. Init => TypeOK BY InitTyped
<1>2. QED BY <1>1, TypeKept, PTL DEF Spec

LEMMA RecordedKept == TypeOK /\ AskedIsRecorded /\ [Next]_vars => AskedIsRecorded'
<1> SUFFICES ASSUME TypeOK, AskedIsRecorded, [Next]_vars PROVE AskedIsRecorded' OBVIOUS
<1> USE DEF AskedIsRecorded
<1>1. ASSUME NEW p \in Procs, Start(p) \/ Read(p) \/ GivesUp(p) PROVE AskedIsRecorded'
  <2>1. UNCHANGED <<last, asked>>
    BY <1>1 DEF Start, Read, GivesUp
  <2>2. \A q \in Procs : pc'[q] = "request" => pc[q] = "request" /\ now'[q] = now[q]
    BY <1>1 DEF Start, Read, GivesUp, Goto, TypeOK
  <2>3. QED BY <2>1, <2>2
<1>2. ASSUME NEW p \in Procs, RecordRun(p) PROVE AskedIsRecorded'
  <2>1. last' >= last /\ last' >= now[p] /\ last' \in Times
    BY <1>2, LaterTime DEF RecordRun, TypeOK, Times
  <2>2. \A q \in Procs : pc'[q] = "request" => q = p \/ pc[q] = "request"
    BY <1>2 DEF RecordRun, Goto, TypeOK
  <2>3. asked \in Int /\ last \in Int /\ last' \in Int /\ \A q \in Procs : now[q] \in Int
    BY <2>1 DEF TypeOK, Times, Never
  <2>4. UNCHANGED <<now, asked>>
    BY <1>2 DEF RecordRun
  <2>5. QED BY <2>1, <2>2, <2>3, <2>4
<1>3. ASSUME NEW p \in Procs, Request(p) PROVE AskedIsRecorded'
  <2>1. asked' \in {asked, now[p]} /\ UNCHANGED <<last, now>>
    BY <1>3, LaterTime DEF Request, TypeOK, Times
  <2>2. \A q \in Procs : pc'[q] = "request" => pc[q] = "request"
    BY <1>3 DEF Request, Goto, TypeOK
  <2>3. now[p] <= last
    BY <1>3 DEF Request
  <2>4. QED BY <2>1, <2>2, <2>3
<1>4. CASE Tick \/ UNCHANGED vars
  BY <1>4 DEF Tick, vars
<1>5. QED BY <1>1, <1>2, <1>3, <1>4 DEF Next

\* Whatever overlaps or dies, a request that was made is on record.
THEOREM RequestsAreRecorded == Spec => [](TypeOK /\ AskedIsRecorded)
BY InitTyped, TypeKept, RecordedKept, PTL DEF Spec

\* The log only moves forward.
THEOREM LogMovesForward == Spec => NeverLooksOlder
<1>1. TypeOK /\ [Next]_vars => [last' >= last]_vars
  <2> SUFFICES ASSUME TypeOK, Next PROVE last' >= last OBVIOUS
  <2>1. last \in Int
    BY DEF TypeOK, Times, Never
  <2>2. ASSUME NEW p \in Procs, RecordRun(p) PROVE last' >= last
    BY <2>2, LaterTime DEF RecordRun, TypeOK, Times
  <2>3. CASE UNCHANGED last
    BY <2>1, <2>3
  <2>4. QED BY <2>2, <2>3 DEF Next, Start, Read, GivesUp, Request, Tick
<1>2. QED BY <1>1, RequestsAreRecorded, PTL DEF Spec, NeverLooksOlder

-----------------------------------------------------------------------------
(* The gap is kept by whoever was not overtaken.                           *)

\* A process that was let through, and that nobody has overtaken since, looked at
\* the clock late enough after every request, those about to be made included.
LateAfter(p) ==
    /\ asked = Never \/ now[p] - asked >= MinGap
    /\ \A q \in Procs \ {p} : pc[q] = "request" => now[p] - now[q] >= MinGap

LateEnough ==
    \A p \in Procs \ Forcing :
        pc[p] \in {"record", "request"} /\ ~overtaken[p] => LateAfter(p)

\* What the log says lets through those who are late enough after every request.
LEMMA ReadSuffices ==
    ASSUME TypeOK, AskedIsRecorded, NEW p \in Procs, ~TooSoon(p)
    PROVE  LateAfter(p)
<1>1. /\ last \in Int /\ asked \in Int /\ MinGap \in Int /\ last >= Never
      /\ \A q \in Procs : now[q] \in Int /\ now[q] >= 0
  BY RunLogAssumption DEF TypeOK, Times, Never
<1>2. CASE last = Never
  BY <1>1, <1>2 DEF LateAfter, AskedIsRecorded, TypeOK, Times, Never
<1>3. CASE now[p] - last >= MinGap
  BY <1>1, <1>3 DEF LateAfter, AskedIsRecorded
<1>4. QED BY <1>1, <1>2, <1>3 DEF TooSoon

LEMMA LateKept ==
    TypeOK /\ AskedIsRecorded /\ LateEnough /\ [Next]_vars => LateEnough'
<1> SUFFICES ASSUME TypeOK, AskedIsRecorded, LateEnough, [Next]_vars,
                    NEW p \in Procs \ Forcing,
                    pc'[p] \in {"record", "request"}, ~overtaken'[p]
             PROVE  LateAfter(p)'
  BY DEF LateEnough
<1>1. ASSUME NEW q \in Procs, Start(q) PROVE LateAfter(p)'
  <2>1. q # p
    BY <1>1 DEF Start, Goto, TypeOK
  <2>2. LateAfter(p) /\ now'[p] = now[p] /\ asked' = asked
    BY <1>1, <2>1 DEF Start, Goto, TypeOK, LateEnough
  <2>3. \A r \in Procs : pc'[r] = "request" => pc[r] = "request" /\ now'[r] = now[r]
    BY <1>1 DEF Start, Goto, TypeOK
  <2>4. QED BY <2>2, <2>3 DEF LateAfter
<1>2. ASSUME NEW q \in Procs, Read(q) PROVE LateAfter(p)'
  <2>1. UNCHANGED <<now, asked, overtaken>>
    BY <1>2 DEF Read
  <2>2. \A r \in Procs : pc'[r] = "request" => pc[r] = "request"
    BY <1>2 DEF Read, Goto, TypeOK
  <2>3. LateAfter(p)
    <3>1. CASE q = p
      BY <1>2, <3>1, ReadSuffices DEF Read, Goto, TypeOK
    <3>2. CASE q # p
      BY <1>2, <2>1, <3>2 DEF Read, Goto, TypeOK, LateEnough
    <3>3. QED BY <3>1, <3>2
  <2>4. QED BY <2>1, <2>2, <2>3 DEF LateAfter
<1>3. ASSUME NEW q \in Procs, RecordRun(q) PROVE LateAfter(p)'
  <2>1. q = p
    BY <1>3 DEF RecordRun, Overtake, Goto, TypeOK
  <2>2. LateAfter(p) /\ UNCHANGED <<now, asked>>
    BY <1>3, <2>1 DEF RecordRun, Overtake, TypeOK, LateEnough
  <2>3. \A r \in Procs \ {p} : pc'[r] = pc[r]
    BY <1>3, <2>1 DEF RecordRun, Goto, TypeOK
  <2>4. QED BY <2>2, <2>3 DEF LateAfter
<1>4. ASSUME NEW q \in Procs, GivesUp(q) \/ Request(q) PROVE LateAfter(p)'
  <2>1. q # p
    BY <1>4 DEF GivesUp, Request, Goto, TypeOK
  <2>2. LateAfter(p) /\ UNCHANGED now
    BY <1>4, <2>1 DEF GivesUp, Request, Goto, TypeOK, LateEnough
  <2>3. \A r \in Procs : pc'[r] = "request" => pc[r] = "request"
    BY <1>4 DEF GivesUp, Request, Goto, TypeOK
  <2>4. asked' = asked \/ (pc[q] = "request" /\ asked' = now[q])
    BY <1>4 DEF GivesUp, Request, Later
  <2>5. QED BY <2>1, <2>2, <2>3, <2>4 DEF LateAfter
<1>5. CASE Tick \/ UNCHANGED vars
  BY <1>5 DEF Tick, vars, LateEnough, LateAfter
<1>6. QED BY <1>1, <1>2, <1>3, <1>4, <1>5 DEF Next

\* However many processes overlap, forced ones among them: a request that is not
\* forced and was not overtaken comes at least MinGap after every one before it.
THEOREM GapHolds == Spec => GapKept
<1>1. Init => LateEnough
  BY DEF Init, LateEnough
<1>2. LateEnough =>
        [\A p \in Procs \ Forcing :
            (pc[p] = "request" /\ Request(p) /\ ~overtaken[p] /\ asked # Never)
                => now[p] - asked >= MinGap]_vars
  BY DEF LateEnough, LateAfter
<1>3. QED
  BY <1>1, <1>2, LateKept, RequestsAreRecorded, PTL DEF Spec, GapKept
=============================================================================
