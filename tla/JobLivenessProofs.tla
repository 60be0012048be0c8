------------------------- MODULE JobLivenessProofs -------------------------
(***************************************************************************)
(* Proofs about JobLiveness, for every value of its constants. The types   *)
(* hold with any number of checkers. The other theorems are about a        *)
(* posting that one session at a time checks (OneChecker); the runs        *)
(* live_inflight and live_gate show that they fail with two.               *)
(***************************************************************************)
EXTENDS JobLiveness, TLAPS

OneChecker == \A a, b \in Checkers : a = b

-----------------------------------------------------------------------------
(***************************************************************************)
(* The operators of the policy.                                            *)
(***************************************************************************)
LEMMA ConstantTypes ==
    /\ Confirm \in Nat /\ Recheck \in Nat /\ MaxAge \in Nat
    /\ BaseBackoff \in Nat /\ MaxBackoff \in Nat
    /\ MaxLag \in Nat /\ Horizon \in Nat /\ FailCap \in Nat
    /\ MaxLag < Confirm /\ Confirm + MaxLag < Horizon /\ MaxAge < Horizon
    /\ 1 <= FailCap /\ 1 <= Confirm
BY DelaysAssumption, CountersAssumption

LEMMA LeftIsNat ==
    ASSUME NEW delay \in Nat, NEW passed \in Nat
    PROVE  Left(delay, passed) \in Nat
BY DEF Left

LEMMA OlderIsAge ==
    ASSUME NEW age \in Ages
    PROVE  Older(age) \in Ages
BY ConstantTypes DEF Older, Ages, Never

LEMMA BackoffIsNat ==
    ASSUME NEW failures \in 0 .. FailCap
    PROVE  Backoff(failures) \in Nat
<1> DEFINE n == IF failures = 0 THEN 0 ELSE failures - 1
<1>1. n \in 0 .. FailCap
  BY ConstantTypes
<1>2. 2 ^ n \in Nat
  BY <1>1, PowersAssumption
<1> HIDE DEF n
<1>3. \A p \in Nat : BaseBackoff * p \in Nat
  BY ConstantTypes
<1>4. BaseBackoff * 2 ^ n \in Nat
  BY <1>2, <1>3
<1>5. Backoff(failures) = Smaller(BaseBackoff * 2 ^ n, MaxBackoff)
  BY DEF Backoff, n
<1>6. MaxBackoff \in Nat
  BY ConstantTypes
<1> QED
  BY <1>4, <1>5, <1>6 DEF Smaller

LEMMA StageNames ==
    /\ "closed" \notin MoveStages /\ "duplicate" \notin MoveStages
    /\ "discovered" \in MoveStages
BY StagesAssumption DEF InactiveStages

\* A "live" answer.
LEMMA LiveRow ==
    ASSUME NEW row \in Rows, NEW l \in 0 .. MaxLag
    PROVE  /\ OnLive(row, l) \in Rows
           /\ OnLive(row, l).liveness = "live"
           /\ OnLive(row, l).stage # "closed"
           /\ row.stage # "closed" => OnLive(row, l).stage = row.stage
<1>1. Left(Recheck, l) \in Nat
  BY LeftIsNat, ConstantTypes
<1>2. 0 \in 0 .. FailCap
  BY ConstantTypes
<1> QED
  BY <1>1, <1>2, StageNames DEF OnLive, Rows

\* A "gone" answer: only one of its cases closes the posting.
LEMMA GoneRow ==
    ASSUME NEW row \in Rows, NEW l \in 0 .. MaxLag
    PROVE  /\ OnGone(row, l) \in Rows
           /\ OnGone(row, l).failures = row.failures
           /\ Closes(row, l) => /\ OnGone(row, l).stage = "closed"
                                /\ OnGone(row, l).liveness = "closed"
           /\ ~Closes(row, l) =>
                /\ OnGone(row, l).stage = row.stage
                /\ OnGone(row, l).liveness =
                     IF row.stage = "closed" THEN "closed" ELSE "suspect"
<1>a. l \in Nat /\ row.checked \in Nat
  BY ConstantTypes DEF Rows, Ages, Never
<1>1. /\ Left(Recheck, l) \in Nat
      /\ Left(Confirm, l) \in Nat
      /\ Left(Confirm, row.checked) \in Nat
  BY <1>a, LeftIsNat, ConstantTypes
<1>2. CASE row.stage = "closed"
  BY <1>1, <1>2 DEF OnGone, Closes, Rows
<1>3. CASE row.stage # "closed" /\ ~Suspected(row)
  BY <1>1, <1>3 DEF OnGone, Closes, Rows
<1>4. CASE row.stage # "closed" /\ Suspected(row) /\ ~OldEnough(row, l)
  BY <1>1, <1>4 DEF OnGone, Closes, Rows, Suspected
<1>5. CASE Closes(row, l)
  BY <1>1, <1>5 DEF OnGone, Closes, Rows
<1>6. CASE row.stage # "closed" /\ Suspected(row) /\ OldEnough(row, l) /\ ~Closes(row, l)
  BY <1>1, <1>6 DEF OnGone, Rows, Suspected
<1> QED
  BY <1>2, <1>3, <1>4, <1>5, <1>6

\* An "unknown" answer.
LEMMA UnknownRow ==
    ASSUME NEW row \in Rows, NEW l \in 0 .. MaxLag
    PROVE  /\ OnUnknown(row, l) \in Rows
           /\ OnUnknown(row, l).stage = row.stage
           /\ OnUnknown(row, l).liveness =
                IF row.liveness \in {"suspect", "closed"} THEN row.liveness ELSE "unknown"
<1> DEFINE failures == Smaller(row.failures + 1, FailCap)
<1>1. failures \in 0 .. FailCap
  BY ConstantTypes DEF Smaller, Rows
<1>a. l \in Nat /\ Backoff(failures) \in Nat
  BY <1>1, BackoffIsNat, ConstantTypes
<1>2. Left(Backoff(failures), l) \in Nat
  BY <1>a, LeftIsNat
<1>3. OnUnknown(row, l) =
        [row EXCEPT !.failures = failures,
                    !.liveness = IF row.liveness \in {"suspect", "closed"}
                                 THEN row.liveness ELSE "unknown",
                    !.due = Left(Backoff(failures), l)]
  BY DEF OnUnknown
<1> HIDE DEF failures
<1> QED
  BY <1>1, <1>2, <1>3 DEF Rows

\* What any observation makes of a row, short of closing it.
LEMMA ObservedRow ==
    ASSUME NEW row \in Rows, NEW l \in 0 .. MaxLag, NEW outcome \in Outcomes
    PROVE  /\ Observed(row, outcome, l) \in Rows
           /\ ~(outcome = "gone" /\ Closes(row, l)) /\ row.stage # "closed"
                => Observed(row, outcome, l).stage = row.stage
<1>1. CASE outcome = "live"
  BY <1>1, LiveRow DEF Observed
<1>2. CASE outcome = "gone"
  BY <1>2, GoneRow DEF Observed
<1>3. CASE outcome = "unknown"
  BY <1>3, UnknownRow DEF Observed
<1> QED
  BY <1>1, <1>2, <1>3 DEF Outcomes

LEMMA MergeRow ==
    ASSUME job \in Rows, NEW old \in Rows, NEW new \in Rows
    PROVE  /\ Merge(old, new) \in Rows
           /\ Merge(old, new).checked = job.checked
           /\ Merge(old, new).stage = IF new.stage = old.stage THEN job.stage ELSE new.stage
           /\ Merge(old, new).liveness =
                IF new.liveness = old.liveness THEN job.liveness ELSE new.liveness
BY DEF Merge, Rows

LEMMA SeenAfterType ==
    ASSUME TypeOK, NEW outcome \in Outcomes
    PROVE  SeenAfter(outcome) \in [live : Ages, gone : Ages, unknowns : 0 .. FailCap]
<1>1. 0 \in Ages /\ Never \in Ages
  BY ConstantTypes DEF Ages, Never
<1>2. Smaller(seen.unknowns + 1, FailCap) \in 0 .. FailCap /\ 0 \in 0 .. FailCap
  BY ConstantTypes DEF Smaller, TypeOK
<1> QED
  BY <1>1, <1>2 DEF SeenAfter, TypeOK

LEMMA LagOfType ==
    ASSUME TypeOK, NEW c \in Checkers
    PROVE  LagOf(c) \in 0 .. MaxLag /\ LagOf(c) \in Ages /\ LagOf(c) # Never
BY ConstantTypes DEF LagOf, TypeOK, Ages, Never

-----------------------------------------------------------------------------
(***************************************************************************)
(* Types.                                                                  *)
(***************************************************************************)
LEMMA TypeInit == Init => TypeOK
<1> SUFFICES ASSUME Init PROVE TypeOK
  OBVIOUS
<1>2. \A s \in MoveStages : [NewRow EXCEPT !.stage = s] \in Rows
  BY StageNames, ConstantTypes DEF NewRow, Rows, Ages, Never
<1>3. NewRow \in Rows
  BY StageNames, ConstantTypes DEF NewRow, Rows, Ages, Never
<1>4. 0 \in 0 .. MaxLag /\ Never \in Ages /\ 0 \in 0 .. FailCap
  BY ConstantTypes DEF Ages, Never
<1> QED
  BY <1>2, <1>3, <1>4 DEF Init, TypeOK, Outcomes, Kinds

LEMMA TypeStep == TypeOK /\ [Next]_vars => TypeOK'
<1> SUFFICES ASSUME TypeOK, [Next]_vars PROVE TypeOK'
  OBVIOUS
<1>1. ASSUME NEW c \in Checkers, NEW k \in Kinds, Load(c, k) PROVE TypeOK'
  <2>1. 0 \in 0 .. MaxLag
    BY ConstantTypes
  <2> QED
    BY <1>1, <2>1 DEF Load, TypeOK
<1>2. ASSUME NEW c \in Checkers, Decide(c) PROVE TypeOK'
  <2>1. 0 \in 0 .. MaxLag
    BY ConstantTypes
  <2> QED
    BY <1>2, <2>1 DEF Decide, TypeOK
<1>3. ASSUME NEW c \in Checkers, AnswerAndClose(c) PROVE TypeOK'
  <2>1. OnGone(held[c], LagOf(c)) \in Rows
    BY LagOfType, GoneRow DEF TypeOK
  <2>2. Merge(held[c], OnGone(held[c], LagOf(c))) \in Rows
    BY <2>1, MergeRow DEF TypeOK
  <2>3. SeenAfter("gone") \in [live : Ages, gone : Ages, unknowns : 0 .. FailCap]
    BY SeenAfterType DEF Outcomes
  <2> QED
    BY <1>3, <2>2, <2>3 DEF AnswerAndClose, TypeOK
<1>4. ASSUME NEW c \in Checkers, CommitEvidence(c) PROVE TypeOK'
  <2>1. [job EXCEPT !.checked = LagOf(c)] \in Rows
    BY LagOfType DEF TypeOK, Rows
  <2> QED
    BY <1>4, <2>1 DEF CommitEvidence, TypeOK
<1>5. ASSUME NEW c \in Checkers, Answer(c) PROVE TypeOK'
  <2> DEFINE new == Observed(held[c], posting, LagOf(c))
             merged == Merge(held[c], new)
             stamp == Stamped(job, posting, LagOf(c))
  <2>1. new \in Rows
    BY LagOfType, ObservedRow DEF TypeOK
  <2>2. merged \in Rows
    BY <2>1, MergeRow DEF TypeOK
  <2>3. stamp \in Ages
    BY LagOfType DEF Stamped, TypeOK, Rows
  <2>4. SeenAfter(posting) \in [live : Ages, gone : Ages, unknowns : 0 .. FailCap]
    BY SeenAfterType DEF TypeOK
  <2>5. /\ job' = [merged EXCEPT !.checked = stamp]
        /\ review' \in BOOLEAN
        /\ seen' = SeenAfter(posting)
        /\ pc' = [pc EXCEPT ![c] = Verdict(c, posting)]
        /\ UNCHANGED <<posting, kind, held, lag>>
    BY <1>5 DEF Answer, TypeOK
  <2>6. Verdict(c, posting) \in {"idle", "allowed"}
    BY DEF Verdict
  <2> HIDE DEF new, merged, stamp
  <2>7. job' \in Rows
    BY <2>2, <2>3, <2>5 DEF Rows
  <2> QED
    BY <2>4, <2>5, <2>6, <2>7 DEF TypeOK
<1>6. ASSUME NEW c \in Checkers, Proceed(c) \/ Crash(c) PROVE TypeOK'
  BY <1>6 DEF Proceed, Crash, TypeOK
<1>7. CASE Hint
  BY <1>7 DEF Hint, TypeOK, Rows
<1>8. ASSUME NEW s \in MoveStages, Move(s) PROVE TypeOK'
  BY <1>8 DEF Move, TypeOK, Rows
<1>9. CASE ResolveReview
  BY <1>9 DEF ResolveReview, TypeOK
<1>10. ASSUME NEW outcome \in Outcomes, PostingChanges(outcome) PROVE TypeOK'
  BY <1>10 DEF PostingChanges, TypeOK
<1>11. CASE Tick
  <2>1. ASSUME NEW row \in Rows
        PROVE  [row EXCEPT !.checked = Older(row.checked), !.due = Left(row.due, 1)] \in Rows
    <3>1. Older(row.checked) \in Ages /\ Left(row.due, 1) \in Nat
      BY OlderIsAge, LeftIsNat DEF Rows
    <3> QED
      BY <3>1 DEF Rows
  <2>2. job' \in Rows
    BY <1>11, <2>1 DEF Tick, TypeOK
  <2>3. held' \in [Checkers -> Rows]
    BY <1>11, <2>1 DEF Tick, TypeOK
  <2>4. lag' \in [Checkers -> 0 .. MaxLag]
    <3>1. ASSUME NEW c \in Checkers
          PROVE  (IF Busy(c) THEN lag[c] + 1 ELSE lag[c]) \in 0 .. MaxLag
      <4>1. lag[c] \in 0 .. MaxLag /\ (Busy(c) => lag[c] < MaxLag)
        BY <1>11 DEF Tick, TypeOK
      <4> QED
        BY <4>1, ConstantTypes
    <3> QED
      BY <1>11, <3>1 DEF Tick
  <2>5. Older(seen.live) \in Ages /\ Older(seen.gone) \in Ages
    BY OlderIsAge DEF TypeOK
  <2>6. seen' \in [live : Ages, gone : Ages, unknowns : 0 .. FailCap]
    BY <1>11, <2>5 DEF Tick, TypeOK
  <2> QED
    BY <1>11, <2>2, <2>3, <2>4, <2>6 DEF Tick, TypeOK
<1>12. CASE UNCHANGED vars
  BY <1>12 DEF vars, TypeOK
<1> QED
  BY <1>1, <1>2, <1>3, <1>4, <1>5, <1>6, <1>7, <1>8, <1>9, <1>10, <1>11, <1>12
     DEF Next, Scheduled, Gated, World, Kinds

(***************************************************************************)
(* Every reachable state is well typed, with any number of checkers.       *)
(***************************************************************************)
THEOREM LivenessTypes == Spec => []TypeOK
<1> QED
  BY TypeInit, TypeStep, PTL DEF Spec

-----------------------------------------------------------------------------
(***************************************************************************)
(* One checker. The row it holds agrees with the database where the policy *)
(* looks (others only move an open posting from one open stage to          *)
(* another), and what the row says is founded on the answers seen.         *)
(***************************************************************************)
Agrees(row) ==
    /\ row.liveness = job.liveness
    /\ row.checked = job.checked
    /\ row.stage = "closed" <=> job.stage = "closed"

HeldIsCurrent == \A c \in Checkers : pc[c] \in {"holding", "probing"} => Agrees(held[c])

SuspicionIsFounded ==
    job.liveness = "suspect" =>
        seen.gone # Never /\ job.checked # Never /\ job.checked <= seen.gone + MaxLag

LiveIsFounded ==
    job.liveness = "live" =>
        seen.gone = Never /\ job.checked # Never /\ seen.live <= job.checked

EvidenceOfClosed == \A c \in Checkers : pc[c] = "evidence" => job.liveness = "closed"

LivenessInv ==
    /\ TypeOK
    /\ HeldIsCurrent
    /\ SuspicionIsFounded
    /\ LiveIsFounded
    /\ ClosedIsKnown
    /\ EvidenceOfClosed

LEMMA LivenessInvInit == Init => LivenessInv
<1> SUFFICES ASSUME Init PROVE LivenessInv
  OBVIOUS
<1>1. TypeOK
  BY TypeInit
<1>2. job.liveness = "none" /\ job.stage # "closed" /\ \A c \in Checkers : pc[c] = "idle"
  BY StageNames DEF Init, NewRow
<1> QED
  BY <1>1, <1>2 DEF LivenessInv, HeldIsCurrent, SuspicionIsFounded, LiveIsFounded,
                    ClosedIsKnown, EvidenceOfClosed

(***************************************************************************)
(* What the two commits of an answer make of the row.                      *)
(***************************************************************************)
LEMMA CloseEffect ==
    ASSUME LivenessInv, NEW c \in Checkers, AnswerAndClose(c)
    PROVE  /\ job.stage # "closed"
           /\ job'.stage = "closed" /\ job'.liveness = "closed"
           /\ seen'.gone = seen.gone /\ seen.gone \in Confirm - MaxLag .. Horizon
<1> DEFINE l == LagOf(c)
           new == OnGone(held[c], l)
<1>1. pc[c] = "probing" /\ Closes(held[c], l) /\ job' = Merge(held[c], new) /\ seen' = SeenAfter("gone")
  BY DEF AnswerAndClose
<1>2. held[c] \in Rows /\ job \in Rows /\ l \in 0 .. MaxLag
  BY LagOfType DEF LivenessInv, TypeOK
<1>3. Agrees(held[c])
  BY <1>1 DEF LivenessInv, HeldIsCurrent
<1>4. new \in Rows /\ new.stage = "closed" /\ new.liveness = "closed"
  BY <1>1, <1>2, GoneRow
<1>5. /\ held[c].stage # "closed" /\ held[c].liveness = "suspect"
      /\ held[c].checked - l >= Confirm
  BY <1>1 DEF Closes, Suspected, OldEnough
<1>6. job.stage # "closed" /\ job.liveness = "suspect" /\ job.checked - l >= Confirm
  BY <1>3, <1>5 DEF Agrees
<1>7. /\ seen.gone # Never /\ seen.gone \in Ages
      /\ job.checked <= seen.gone + MaxLag /\ job.checked \in Ages
  BY <1>2, <1>6 DEF LivenessInv, SuspicionIsFounded, TypeOK, Rows
<1>8. seen'.gone = seen.gone
  BY <1>1, <1>7 DEF SeenAfter
<1>9. seen.gone \in Confirm - MaxLag .. Horizon
  <2> HIDE DEF l
  <2> QED
    BY <1>2, <1>6, <1>7, ConstantTypes DEF Ages, Never
<1>10. job'.stage = "closed" /\ job'.liveness = "closed"
  <2> HIDE DEF new
  <2> QED
    BY <1>1, <1>2, <1>4, <1>5, MergeRow
<1> QED
  BY <1>6, <1>8, <1>9, <1>10

LEMMA AnswerEffect ==
    ASSUME LivenessInv, NEW c \in Checkers, Answer(c)
    PROVE  /\ job'.stage = "closed" <=> job.stage = "closed" /\ posting # "live"
           /\ posting = "live" => /\ job'.liveness = "live"
                                  /\ job'.checked = LagOf(c)
           /\ posting = "gone" => /\ job'.liveness = IF job.stage = "closed" THEN "closed" ELSE "suspect"
                                  /\ job'.checked = LagOf(c)
           /\ posting = "unknown" =>
                /\ job'.liveness = IF job.liveness \in {"suspect", "closed"}
                                   THEN job.liveness ELSE "unknown"
                /\ job'.checked = job.checked
<1> DEFINE l == LagOf(c)
           new == Observed(held[c], posting, l)
           merged == Merge(held[c], new)
           stamp == Stamped(job, posting, l)
<1>1. /\ pc[c] = "probing"
      /\ ~(posting = "gone" /\ Closes(held[c], l))
      /\ job' = [merged EXCEPT !.checked = stamp]
  BY DEF Answer
<1>2. held[c] \in Rows /\ job \in Rows /\ l \in 0 .. MaxLag /\ posting \in Outcomes
  BY LagOfType DEF LivenessInv, TypeOK
<1>3. Agrees(held[c])
  BY <1>1 DEF LivenessInv, HeldIsCurrent
<1>4. new \in Rows
  BY <1>2, ObservedRow
<1>5. /\ merged \in Rows
      /\ merged.stage = IF new.stage = held[c].stage THEN job.stage ELSE new.stage
      /\ merged.liveness = new.liveness
  <2> HIDE DEF new
  <2> QED
    BY <1>2, <1>3, <1>4, MergeRow DEF Agrees
<1>6. job'.stage = merged.stage /\ job'.liveness = merged.liveness /\ job'.checked = stamp
  <2> HIDE DEF merged, stamp
  <2> QED
    BY <1>1, <1>5 DEF Rows
<1>7. CASE posting = "live"
  <2>1. new = OnLive(held[c], l) /\ stamp = l
    BY <1>7 DEF Observed, Stamped
  <2>2. new.liveness = "live" /\ new.stage # "closed"
        /\ (held[c].stage # "closed" => new.stage = held[c].stage)
    BY <1>2, <2>1, LiveRow
  <2> HIDE DEF new, merged, stamp, l
  <2> QED
    BY <1>3, <1>5, <1>6, <1>7, <2>1, <2>2 DEF Agrees, l
<1>8. CASE posting = "gone"
  <2>1. new = OnGone(held[c], l) /\ stamp = l /\ ~Closes(held[c], l)
    BY <1>1, <1>8 DEF Observed, Stamped
  <2>2. /\ new.stage = held[c].stage
        /\ new.liveness = IF held[c].stage = "closed" THEN "closed" ELSE "suspect"
    BY <1>2, <2>1, GoneRow
  <2> HIDE DEF new, merged, stamp, l
  <2> QED
    BY <1>3, <1>5, <1>6, <1>8, <2>1, <2>2 DEF Agrees, l
<1>9. CASE posting = "unknown"
  <2>1. new = OnUnknown(held[c], l) /\ stamp = job.checked
    BY <1>9 DEF Observed, Stamped
  <2>2. /\ new.stage = held[c].stage
        /\ new.liveness = IF held[c].liveness \in {"suspect", "closed"}
                          THEN held[c].liveness ELSE "unknown"
    BY <1>2, <2>1, UnknownRow
  <2> HIDE DEF new, merged, stamp, l
  <2> QED
    BY <1>3, <1>5, <1>6, <1>9, <2>1, <2>2 DEF Agrees
<1> QED
  BY <1>2, <1>7, <1>8, <1>9 DEF Outcomes

\* What an answer makes of the history.
LEMMA SeenEffect ==
    ASSUME TypeOK, NEW outcome \in Outcomes, seen' = SeenAfter(outcome)
    PROVE  /\ outcome = "live" => seen'.live = 0 /\ seen'.gone = Never
           /\ outcome = "gone" => seen'.gone # Never /\ 0 <= seen'.gone
           /\ outcome # "live" /\ seen.gone # Never => seen'.gone = seen.gone
           /\ outcome = "unknown" => seen'.live = seen.live /\ seen'.gone = seen.gone
<1>1. 0 # Never /\ seen.gone \in Ages
  BY ConstantTypes DEF Never, TypeOK
<1> QED
  BY <1>1, ConstantTypes DEF SeenAfter, Outcomes, Ages, Never

\* A step that leaves the row and the history alone, and gives up a row or keeps it.
LEMMA LivenessKept ==
    ASSUME LivenessInv, TypeOK', UNCHANGED <<job, seen>>,
           \A c \in Checkers : pc'[c] \in {"holding", "probing"} =>
               pc[c] \in {"holding", "probing"} /\ held'[c] = held[c],
           \A c \in Checkers : pc'[c] # "evidence"  \/ pc[c] = "evidence"
    PROVE  LivenessInv'
<1>1. HeldIsCurrent'
  BY DEF LivenessInv, HeldIsCurrent, Agrees
<1>2. EvidenceOfClosed'
  BY DEF LivenessInv, EvidenceOfClosed
<1> QED
  BY <1>1, <1>2 DEF LivenessInv, SuspicionIsFounded, LiveIsFounded, ClosedIsKnown

\* Time ages the row, the rows held and the history alike.
LEMMA LivenessTick ==
    ASSUME LivenessInv, TypeOK', Tick
    PROVE  LivenessInv'
<1> USE DEF LivenessInv
<1>1. /\ job'.stage = job.stage /\ job'.liveness = job.liveness
      /\ job'.checked = Older(job.checked)
      /\ pc' = pc
      /\ seen'.live = Older(seen.live) /\ seen'.gone = Older(seen.gone)
      /\ job.checked \in Ages /\ seen.live \in Ages /\ seen.gone \in Ages
  BY DEF Tick, TypeOK, Rows
<1>2. \A c \in Checkers : /\ held'[c].stage = held[c].stage
                          /\ held'[c].liveness = held[c].liveness
                          /\ held'[c].checked = Older(held[c].checked)
  BY DEF Tick, TypeOK, Rows
<1>3. HeldIsCurrent'
  BY <1>1, <1>2 DEF HeldIsCurrent, Agrees
<1>4. SuspicionIsFounded'
  BY <1>1, ConstantTypes DEF SuspicionIsFounded, Older, Ages, Never
<1>5. LiveIsFounded'
  BY <1>1, ConstantTypes DEF LiveIsFounded, Older, Ages, Never
<1>6. ClosedIsKnown' /\ EvidenceOfClosed'
  BY <1>1 DEF ClosedIsKnown, EvidenceOfClosed
<1> QED
  BY <1>3, <1>4, <1>5, <1>6

\* The commits of the only checker: it no longer holds the row, nor does another.
LEMMA LivenessAnswer ==
    ASSUME OneChecker, LivenessInv, TypeOK', NEW c \in Checkers, Answer(c)
    PROVE  LivenessInv'
<1>1. /\ pc'[c] \in {"idle", "allowed"} /\ seen' = SeenAfter(posting)
      /\ posting \in Outcomes /\ TypeOK
  BY DEF LivenessInv, TypeOK, Answer, Verdict
<1>2. \A d \in Checkers : d = c
  BY DEF OneChecker
<1>3. HeldIsCurrent' /\ EvidenceOfClosed'
  BY <1>1, <1>2 DEF HeldIsCurrent, EvidenceOfClosed
<1>4. LagOf(c) \in 0 .. MaxLag /\ LagOf(c) # Never
  BY <1>1, LagOfType
<1>5. ClosedIsKnown'
  BY <1>1, AnswerEffect DEF ClosedIsKnown, LivenessInv, Outcomes
<1>6. SuspicionIsFounded'
  <2>1. CASE posting = "gone"
    <3>1. job'.checked = LagOf(c) /\ seen'.gone # Never /\ seen'.gone \in Nat
      BY <1>1, <2>1, AnswerEffect, SeenEffect, ConstantTypes DEF TypeOK, Ages, Never
    <3> QED
      BY <3>1, <1>4, ConstantTypes DEF SuspicionIsFounded
  <2>2. CASE posting # "gone"
    BY <1>1, <2>2, AnswerEffect, SeenEffect DEF SuspicionIsFounded, LivenessInv, Outcomes
  <2> QED
    BY <2>1, <2>2
<1>7. LiveIsFounded'
  <2>1. CASE posting = "live"
    <3>1. job'.checked = LagOf(c) /\ seen'.live = 0 /\ seen'.gone = Never
      BY <1>1, <2>1, AnswerEffect, SeenEffect
    <3> QED
      BY <3>1, <1>4, ConstantTypes DEF LiveIsFounded
  <2>2. CASE posting # "live"
    BY <1>1, <2>2, AnswerEffect DEF LiveIsFounded, Outcomes
  <2> QED
    BY <2>1, <2>2
<1> QED
  BY <1>3, <1>5, <1>6, <1>7 DEF LivenessInv

LEMMA LivenessClose ==
    ASSUME OneChecker, LivenessInv, TypeOK', NEW c \in Checkers, AnswerAndClose(c)
    PROVE  LivenessInv'
<1>1. pc'[c] = "evidence" /\ \A d \in Checkers : d = c
  BY DEF OneChecker, AnswerAndClose, LivenessInv, TypeOK
<1>2. job'.stage = "closed" /\ job'.liveness = "closed"
  BY CloseEffect
<1> QED
  BY <1>1, <1>2 DEF LivenessInv, HeldIsCurrent, EvidenceOfClosed, SuspicionIsFounded,
                    LiveIsFounded, ClosedIsKnown

LEMMA LivenessStep ==
    ASSUME OneChecker
    PROVE  LivenessInv /\ [Next]_vars => LivenessInv'
<1> SUFFICES ASSUME LivenessInv, [Next]_vars PROVE LivenessInv'
  OBVIOUS
<1>0. TypeOK /\ TypeOK'
  BY TypeStep DEF LivenessInv
<1>1. ASSUME NEW c \in Checkers, NEW k \in Kinds, Load(c, k) PROVE LivenessInv'
  <2>1. /\ held'[c] = job /\ job' = job /\ seen' = seen
        /\ pc'[c] \in {"holding", "probing"}
        /\ \A d \in Checkers : d = c
    BY <1>0, <1>1 DEF Load, TypeOK, OneChecker
  <2>2. HeldIsCurrent' /\ EvidenceOfClosed'
    BY <2>1 DEF HeldIsCurrent, Agrees, EvidenceOfClosed
  <2> QED
    BY <1>0, <2>1, <2>2 DEF LivenessInv, SuspicionIsFounded, LiveIsFounded, ClosedIsKnown
<1>2. ASSUME NEW c \in Checkers, Decide(c) PROVE LivenessInv'
  BY <1>0, <1>2, LivenessKept DEF Decide, TypeOK
<1>3. ASSUME NEW c \in Checkers, AnswerAndClose(c) PROVE LivenessInv'
  BY <1>0, <1>3, LivenessClose
<1>4. ASSUME NEW c \in Checkers, CommitEvidence(c) PROVE LivenessInv'
  <2>1. /\ pc[c] = "evidence" /\ pc'[c] = "idle" /\ seen' = seen
        /\ job'.stage = job.stage /\ job'.liveness = job.liveness
        /\ \A d \in Checkers : d = c
    BY <1>0, <1>4 DEF CommitEvidence, TypeOK, Rows, OneChecker
  <2>2. job.liveness = "closed"
    BY <2>1 DEF LivenessInv, EvidenceOfClosed
  <2> QED
    BY <1>0, <2>1, <2>2 DEF LivenessInv, HeldIsCurrent, EvidenceOfClosed,
                            SuspicionIsFounded, LiveIsFounded, ClosedIsKnown
<1>5. ASSUME NEW c \in Checkers, Answer(c) PROVE LivenessInv'
  BY <1>0, <1>5, LivenessAnswer
<1>6. ASSUME NEW c \in Checkers, Proceed(c) \/ Crash(c) PROVE LivenessInv'
  BY <1>0, <1>6, LivenessKept DEF Proceed, Crash, TypeOK
<1>7. ASSUME Hint \/ \E s \in MoveStages : Move(s) PROVE LivenessInv'
  <2>1. /\ job'.liveness = job.liveness /\ job'.checked = job.checked
        /\ job'.stage = "closed" <=> job.stage = "closed"
        /\ UNCHANGED <<pc, held, seen>>
    BY <1>0, <1>7, StageNames DEF Hint, Move, TypeOK, Rows, InactiveStages
  <2> QED
    BY <1>0, <2>1 DEF LivenessInv, HeldIsCurrent, Agrees, EvidenceOfClosed,
                      SuspicionIsFounded, LiveIsFounded, ClosedIsKnown
<1>8. ASSUME ResolveReview \/ \E outcome \in Outcomes : PostingChanges(outcome)
      PROVE  LivenessInv'
  BY <1>0, <1>8, LivenessKept DEF ResolveReview, PostingChanges
<1>9. CASE Tick
  BY <1>0, <1>9, LivenessTick
<1>10. CASE UNCHANGED vars
  BY <1>0, <1>10, LivenessKept DEF vars
<1> QED
  BY <1>1, <1>2, <1>3, <1>4, <1>5, <1>6, <1>7, <1>8, <1>9, <1>10
     DEF Next, Scheduled, Gated, World, Kinds

LEMMA LivenessInvariance ==
    ASSUME OneChecker
    PROVE  Spec => []LivenessInv
<1> QED
  BY LivenessInvInit, LivenessStep, PTL DEF Spec

(***************************************************************************)
(* With one checker a closed posting is known to be closed.                *)
(***************************************************************************)
THEOREM ClosedStaysKnown ==
    ASSUME OneChecker
    PROVE  Spec => []ClosedIsKnown
<1>1. LivenessInv => ClosedIsKnown
  BY DEF LivenessInv
<1> QED
  BY <1>1, LivenessInvariance, PTL

(***************************************************************************)
(* With one checker a posting is closed only after two "gone" answers the  *)
(* confirmation delay apart (less the lag of a batch), whatever the delay, *)
(* the moves of the pipeline, the hints and the crashes.                   *)
(***************************************************************************)
THEOREM ClosingIsConfirmed ==
    ASSUME OneChecker
    PROVE  Spec => ClosedOnlyWhenConfirmed
<1> DEFINE Step == job.stage # "closed" /\ job'.stage = "closed"
                     => seen'.gone \in Confirm - MaxLag .. Horizon
<1>1. LivenessInv /\ [Next]_vars => [Step]_vars
  <2> SUFFICES ASSUME LivenessInv, [Next]_vars, job.stage # "closed", job'.stage = "closed"
               PROVE  seen'.gone \in Confirm - MaxLag .. Horizon
    OBVIOUS
  <2>0. TypeOK
    BY DEF LivenessInv
  <2>1. ASSUME NEW c \in Checkers, AnswerAndClose(c)
        PROVE  seen'.gone \in Confirm - MaxLag .. Horizon
    BY <2>1, CloseEffect
  <2>2. ASSUME NEW c \in Checkers, Answer(c) PROVE FALSE
    BY <2>2, AnswerEffect
  <2>3. ASSUME NEW c \in Checkers, CommitEvidence(c) PROVE FALSE
    BY <2>0, <2>3 DEF CommitEvidence, TypeOK, Rows
  <2>4. ASSUME NEW s \in MoveStages, Move(s) PROVE FALSE
    BY <2>0, <2>4, StageNames DEF Move, TypeOK, Rows
  <2>5. ASSUME Hint \/ Tick PROVE FALSE
    BY <2>0, <2>5 DEF Hint, Tick, TypeOK, Rows
  <2> QED
    BY <2>1, <2>2, <2>3, <2>4, <2>5
       DEF Next, Scheduled, Gated, World, vars, Load, Decide, Proceed, Crash,
           ResolveReview, PostingChanges
<1> QED
  BY <1>1, LivenessInvariance, PTL DEF Spec, ClosedOnlyWhenConfirmed

(***************************************************************************)
(* With one checker the gate lets through only what was last reported      *)
(* live, at most MaxAge ago.                                               *)
(***************************************************************************)
THEOREM GateIsFounded ==
    ASSUME OneChecker
    PROVE  Spec => GateMeansLive
<1> DEFINE Step == \A c \in Checkers :
                     pc[c] # "allowed" /\ pc'[c] = "allowed"
                       => seen'.gone = Never /\ seen'.live <= MaxAge
<1>1. LivenessInv /\ [Next]_vars => [Step]_vars
  <2> SUFFICES ASSUME LivenessInv, [Next]_vars,
                      NEW c \in Checkers, pc[c] # "allowed", pc'[c] = "allowed"
               PROVE  seen'.gone = Never /\ seen'.live <= MaxAge
    OBVIOUS
  <2>0. TypeOK /\ \A d \in Checkers : d = c
    BY DEF LivenessInv, OneChecker
  <2>1. CASE Decide(c)
    <3>1. FreshlyLive(held[c]) /\ pc[c] = "holding" /\ seen' = seen
      BY <2>0, <2>1 DEF Decide, TypeOK
    <3>2. job.liveness = "live" /\ job.checked <= MaxAge
      BY <3>1 DEF FreshlyLive, LivenessInv, HeldIsCurrent, Agrees
    <3>3. seen.gone = Never /\ seen.live <= job.checked
      BY <3>2 DEF LivenessInv, LiveIsFounded
    <3>4. seen.live \in Nat /\ job.checked \in Nat
      BY <2>0, ConstantTypes DEF TypeOK, Rows, Ages, Never
    <3> QED
      BY <3>1, <3>2, <3>3, <3>4, ConstantTypes
  <2>2. CASE Answer(c)
    <3>1. posting = "live" /\ seen' = SeenAfter(posting) /\ posting \in Outcomes
      BY <2>0, <2>2 DEF Answer, Verdict, TypeOK
    <3> QED
      BY <2>0, <3>1, SeenEffect, ConstantTypes
  <2>3. ASSUME \/ \E k \in Kinds : Load(c, k)
               \/ AnswerAndClose(c) \/ CommitEvidence(c) \/ Proceed(c) \/ Crash(c)
        PROVE FALSE
    BY <2>0, <2>3 DEF Load, AnswerAndClose, CommitEvidence, Proceed, Crash, TypeOK
  <2>4. pc' # pc
    OBVIOUS
  <2> QED
    BY <2>0, <2>1, <2>2, <2>3, <2>4
       DEF Next, Scheduled, Gated, World, vars, Hint, Move, Tick, ResolveReview,
           PostingChanges, Kinds
<1> QED
  BY <1>1, LivenessInvariance, PTL DEF Spec, GateMeansLive
=============================================================================
