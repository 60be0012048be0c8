------------------------- MODULE DuplicateLinksProofs -------------------------
(***************************************************************************)
(* Theorems about DuplicateLinks, for any number of postings and any texts, *)
(* with crashes, scans and rejection e-mails.  A session holds rows between *)
(* its commits; while one session works at a time they are the database's,  *)
(* so that each commit leaves the links stars with nobody stranded.         *)
(***************************************************************************)
EXTENDS DuplicateLinks, TLAPS

\* One session works at a time.
OneSession == \A s, t \in Sessions : s = t

-----------------------------------------------------------------------------
(* The invariant *)

\* Stages and links that are in order.
InOrder(st, du) ==
  /\ st = [j \in Jobs |-> st[j]]
  /\ du \in [Jobs -> Jobs \cup {NoJob}]
  /\ \A j \in Jobs : du[j] # NoJob => du[j] # j /\ du[du[j]] = NoJob
  /\ \A j \in Jobs : st[j] = "duplicate" => du[j] # NoJob
  /\ \A j \in Jobs : st[j] = NoStage => du[j] = NoJob

\* What a session holds is what the database has, and what it has left to do is
\* about postings.
HeldIsCurrent ==
  \A s \in Sessions :
    /\ task[s].jobs \in SUBSET Jobs /\ \A j \in task[s].jobs : stage[j] # NoStage
    /\ \E H \in SUBSET Jobs :
         held[s] = [stage |-> Restrict(stage, H), dup |-> Restrict(dup, H)]

LinkInv ==
  /\ InOrder(stage, dup) /\ HeldIsCurrent
  /\ DOMAIN held = Sessions /\ DOMAIN task = Sessions

\* Rows as a session computes them, the links of the pairs left open.
IsRows(r) == DOMAIN r = {"stage", "dup", "link"} /\ InOrder(r.stage, r.dup)

\* No posting ceases to exist.
Lasting(st, to) == \A k \in Jobs : st[k] # NoStage => to[k] # NoStage

-----------------------------------------------------------------------------
(* Stages *)

LEMMA StagesAreNamed == NoStage \notin Stages /\ "duplicate" \notin MoveStages /\ NoStage \notin MoveStages
<1>1. NoStage \notin Stages
  BY DEF Stages, StageOrder, NoStage
<1> QED
  BY <1>1, MoveStagesAssumption DEF InactiveStages

LEMMA Regating == \A st : Regated(st) # "duplicate" /\ (st # NoStage => Regated(st) # NoStage)
  BY DEF Regated, InactiveStages, NoStage

LEMMA MovesKeep ==
  ASSUME NEW st, NEW du, InOrder(st, du), NEW j \in Jobs, NEW to,
         to # "duplicate" \/ du[j] # NoJob, to # NoStage
  PROVE  InOrder([ k \in Jobs |-> IF k = j THEN to ELSE st[k] ], du)
  BY DEF InOrder

-----------------------------------------------------------------------------
(* What the operations of dedup.py compute *)

LEMMA WithStageIsRows ==
  ASSUME NEW r, IsRows(r), NEW j \in Jobs, NEW to,
         to # "duplicate" \/ r.dup[j] # NoJob, to # NoStage
  PROVE  /\ IsRows(WithStage(r, j, to)) /\ WithStage(r, j, to).dup = r.dup
         /\ Lasting(r.stage, WithStage(r, j, to).stage)
         /\ WithStage(r, j, to).stage[j] = to
<1> DEFINE moved == [ k \in Jobs |-> IF k = j THEN to ELSE r.stage[k] ]
<1>1. /\ DOMAIN WithStage(r, j, to) = {"stage", "dup", "link"}
      /\ WithStage(r, j, to).dup = r.dup
      /\ WithStage(r, j, to).stage = moved
  BY DEF WithStage, IsRows
<1>2. InOrder(moved, r.dup)
  BY MovesKeep DEF IsRows
<1> QED
  BY <1>1, <1>2 DEF IsRows, Lasting

LEMMA DeactivateIsRows ==
  ASSUME NEW r, IsRows(r), NEW j \in Jobs, NEW to \in {"duplicate", "closed"},
         to = "closed" \/ r.dup[j] # NoJob
  PROVE  /\ IsRows(Deactivate(r, j, to)) /\ Deactivate(r, j, to).dup = r.dup
         /\ Lasting(r.stage, Deactivate(r, j, to).stage)
  BY WithStageIsRows DEF Deactivate, NoStage, Lasting

\* A copy that is linked, with its own copies, to a primary that is linked to nothing.
LEMMA HandOver ==
  ASSUME NEW r, IsRows(r), r.dup = dup, NEW d \in Jobs, NEW p \in Jobs, d # p,
         dup[d] = NoJob, dup[p] = NoJob, r.stage[d] # NoStage, NEW e,
         NEW linked,
         linked = [ r EXCEPT !.link[e] = "linked",
                             !.dup = [ c \in Jobs |-> IF c = d \/ dup[c] = d
                                                      THEN p ELSE r.dup[c] ] ]
  PROVE  /\ IsRows(Deactivate(linked, d, "duplicate"))
         /\ Lasting(r.stage, Deactivate(linked, d, "duplicate").stage)
<1> DEFINE du == [ c \in Jobs |-> IF c = d \/ dup[c] = d THEN p ELSE dup[c] ]
<1>1. DOMAIN linked = {"stage", "dup", "link"} /\ linked.stage = r.stage /\ linked.dup = du
  BY DEF IsRows
<1>2. NoJob \notin Jobs
  BY NoJobAssumption
<1>3. InOrder(r.stage, dup)
  BY DEF IsRows
<1>4. InOrder(r.stage, du)
  <2>1. du \in [Jobs -> Jobs \cup {NoJob}]
    BY <1>3 DEF InOrder
  <2>2. \A j \in Jobs : du[j] # NoJob => du[j] # j /\ du[du[j]] = NoJob
    BY <1>2, <1>3 DEF InOrder
  <2>3. \A j \in Jobs : dup[j] # NoJob => du[j] # NoJob
    BY <1>2
  <2>4. \A j \in Jobs : r.stage[j] = NoStage => du[j] = NoJob
    BY <1>2, <1>3 DEF InOrder
  <2> QED
    BY <2>1, <2>2, <2>3, <2>4, <1>3 DEF InOrder
<1>5. IsRows(linked) /\ linked.dup[d] # NoJob
  BY <1>1, <1>2, <1>4 DEF IsRows
<1> QED
  BY <1>1, <1>5, DeactivateIsRows

LEMMA LinkingIsRows ==
  ASSUME NEW r, IsRows(r), r.dup = dup, NEW j \in Jobs, dup[j] = NoJob, r.stage[j] # NoStage,
         NEW C \in SUBSET Candidates(j), NEW w \in LinkIfDuplicate(r, j, C),
         Lasting(stage, r.stage)
  PROVE  IsRows(w) /\ Lasting(r.stage, w.stage)
<1>1. CASE C = {}
  BY <1>1 DEF LinkIfDuplicate, Lasting
<1>2. CASE C # {}
  <2>1. PICK p \in C : w = LinkDuplicate(r, j, p)
    BY <1>2 DEF LinkIfDuplicate
  <2>2. p \in Jobs /\ p # j /\ dup[p] = NoJob /\ r.stage[p] # NoStage
    BY DEF Candidates, Exists, Lasting
  <2>3. CASE MoreAdvanced(r, j, p)
    BY <2>1, <2>2, <2>3, HandOver DEF LinkDuplicate
  <2>4. CASE ~MoreAdvanced(r, j, p)
    BY <2>1, <2>2, <2>4, HandOver DEF LinkDuplicate
  <2> QED
    BY <2>3, <2>4
<1> QED
  BY <1>1, <1>2

LEMMA ReleasingIsRows ==
  ASSUME NEW r, IsRows(r), r.dup = dup, NEW p \in Jobs
  PROVE  IsRows(ReleaseCopies(r, p)) /\ Lasting(r.stage, ReleaseCopies(r, p).stage)
<1> DEFINE st == [ c \in Jobs |-> IF c \in CopiesOf(p) THEN Regated(r.stage[c]) ELSE r.stage[c] ]
           du == [ c \in Jobs |-> IF c \in CopiesOf(p) THEN NoJob ELSE dup[c] ]
<1>1. /\ DOMAIN ReleaseCopies(r, p) = {"stage", "dup", "link"}
      /\ ReleaseCopies(r, p).stage = st /\ ReleaseCopies(r, p).dup = du
  BY DEF ReleaseCopies
<1>2. InOrder(r.stage, dup) /\ NoJob \notin Jobs
  BY NoJobAssumption DEF IsRows
<1>3. InOrder(st, du)
  BY <1>2, Regating DEF InOrder, CopiesOf
<1>4. Lasting(r.stage, st)
  BY Regating DEF Lasting
<1> QED
  BY <1>1, <1>3, <1>4 DEF IsRows

-----------------------------------------------------------------------------
(* What a commit writes *)

\* A session sees the database's rows.
LEMMA RowsAre ==
  ASSUME LinkInv, NEW s \in Sessions
  PROVE  /\ IsRows(Rows(s))
         /\ Rows(s).stage = stage /\ Rows(s).dup = dup /\ Rows(s).link = link
         /\ DOMAIN held[s].stage \in SUBSET Jobs
<1>1. PICK H \in SUBSET Jobs :
        held[s] = [stage |-> Restrict(stage, H), dup |-> Restrict(dup, H)]
  BY DEF LinkInv, HeldIsCurrent
<1>2. InOrder(stage, dup) /\ DOMAIN stage = Jobs /\ DOMAIN dup = Jobs
  BY DEF LinkInv, InOrder
<1>3. held[s].stage = Restrict(stage, H) /\ held[s].dup = Restrict(dup, H)
  BY <1>1
<1>4. /\ Restrict(stage, H) = [x \in H |-> stage[x]] /\ Restrict(dup, H) = [x \in H |-> dup[x]]
      /\ DOMAIN held[s].stage = H
  BY <1>3 DEF Restrict
<1>5. Over(held[s].stage, stage) = [x \in Jobs |-> stage[x]]
  BY <1>2, <1>3, <1>4 DEF Over
<1>6. Over(held[s].dup, dup) = [x \in Jobs |-> dup[x]]
  BY <1>2, <1>3, <1>4 DEF Over
<1>7. [x \in Jobs |-> stage[x]] = stage /\ [x \in Jobs |-> dup[x]] = dup
  BY <1>2 DEF InOrder
<1>8. Rows(s) = [stage |-> stage, dup |-> dup, link |-> link]
  BY <1>5, <1>6, <1>7 DEF Rows
<1> QED
  BY <1>2, <1>4, <1>8 DEF IsRows

\* The rows a session still holds when t is left to do.
Keep(s, t) == IF t = Idle THEN {} ELSE t.jobs \cup DOMAIN held[s].stage

\* The rows that a session commits become the database's ...
LEMMA Written ==
  ASSUME LinkInv, NEW s \in Sessions, NEW r, InOrder(r.stage, r.dup), NEW t, Finish(s, r, t)
  PROVE  /\ stage' = r.stage /\ dup' = r.dup /\ link' = r.link
         /\ task' = [task EXCEPT ![s] = t]
         /\ held' = [held EXCEPT ![s] = [stage |-> Restrict(stage', Keep(s, t)),
                                         dup |-> Restrict(dup', Keep(s, t))]]
<1>1. Rows(s).stage = stage /\ Rows(s).dup = dup
  BY RowsAre
<1>2. Write(s, r, Keep(s, t))
  BY DEF Finish, Keep
<1>3. stage' = Changed(stage, stage, r.stage) /\ dup' = Changed(dup, dup, r.dup)
  BY <1>1, <1>2 DEF Write
<1>4. stage' = r.stage /\ dup' = r.dup
  <2>1. stage' = [j \in Jobs |-> r.stage[j]] /\ dup' = [j \in Jobs |-> r.dup[j]]
    BY <1>3 DEF Changed
  <2> QED
    BY <2>1 DEF InOrder
<1>5. held' = [held EXCEPT ![s] = [stage |-> Restrict(stage', Keep(s, t)),
                                   dup |-> Restrict(dup', Keep(s, t))]]
  BY <1>2, <1>4 DEF Write
<1> QED
  BY <1>2, <1>4, <1>5 DEF Finish, Write

\* ... and the session's.
LEMMA Commits ==
  ASSUME OneSession, LinkInv, NEW s \in Sessions, NEW r, InOrder(r.stage, r.dup), NEW t,
         t.jobs \in SUBSET Jobs, \A j \in t.jobs : r.stage[j] # NoStage, Finish(s, r, t)
  PROVE  LinkInv'
<1> DEFINE keep == Keep(s, t)
<1>1. held' = [held EXCEPT ![s] = [stage |-> Restrict(stage', keep), dup |-> Restrict(dup', keep)]]
  BY Written
<1>2. keep \in SUBSET Jobs
  BY RowsAre DEF Keep
<1> HIDE DEF keep
<1>3. stage' = r.stage /\ dup' = r.dup /\ task' = [task EXCEPT ![s] = t]
  BY Written
<1>4. HeldIsCurrent'
  <2> SUFFICES ASSUME NEW u \in Sessions
               PROVE  /\ task'[u].jobs \in SUBSET Jobs /\ \A j \in task'[u].jobs : stage'[j] # NoStage
                      /\ \E H \in SUBSET Jobs :
                           held'[u] = [stage |-> Restrict(stage', H), dup |-> Restrict(dup', H)]
    BY DEF HeldIsCurrent
  <2>1. u = s
    BY DEF OneSession
  <2>2. /\ task'[u] = t
        /\ held'[u] = [stage |-> Restrict(stage', keep), dup |-> Restrict(dup', keep)]
    BY <2>1, <1>1, <1>3 DEF LinkInv
  <2> QED
    BY <2>2, <1>2, <1>3
<1> QED
  BY <1>1, <1>3, <1>4 DEF LinkInv

LEMMA TodoJobs ==
  \A op, jobs : Todo(op, jobs).jobs = jobs /\ Idle.jobs = {}
  BY DEF Todo, Idle

-----------------------------------------------------------------------------
(* The operations *)

LEMMA InitLinks == Init => LinkInv
<1> SUFFICES ASSUME Init PROVE LinkInv
  OBVIOUS
<1>1. InOrder(stage, dup)
  BY DEF Init, InOrder, NoStage
<1>2. Restrict(stage, {}) = << >> /\ Restrict(dup, {}) = << >>
  BY DEF Restrict
<1>3. HeldIsCurrent
  BY <1>2, TodoJobs DEF Init, HeldIsCurrent, NothingHeld
<1> QED
  BY <1>1, <1>3 DEF Init, LinkInv

\* What is committed when a posting is inserted.
LEMMA Inserted ==
  ASSUME LinkInv, NEW s \in Sessions, Upsert(s)
  PROVE  \E j \in Jobs : \E r : \E w \in LinkIfDuplicate(r, j, Candidates(j)) :
           /\ r = WithStage(Rows(s), j, "discovered")
           /\ IsRows(r) /\ r.dup = dup /\ r.link = link
           /\ stage[j] = NoStage /\ dup[j] = NoJob
           /\ IsRows(w) /\ Finish(s, w, Idle)
<1>1. PICK j \in Jobs : /\ IsNext(j)
                        /\ \E w \in LinkIfDuplicate(WithStage(Rows(s), j, "discovered"), j, Candidates(j)) :
                             Finish(s, w, Idle)
  BY DEF Upsert
<1> DEFINE r == WithStage(Rows(s), j, "discovered")
<1>2. PICK w \in LinkIfDuplicate(r, j, Candidates(j)) : Finish(s, w, Idle)
  BY <1>1
<1>3. IsRows(Rows(s)) /\ Rows(s).dup = dup /\ Rows(s).stage = stage /\ Rows(s).link = link
  BY RowsAre
<1>4. /\ IsRows(r) /\ r.dup = dup /\ r.stage[j] = "discovered"
      /\ Lasting(stage, r.stage)
  BY <1>3, WithStageIsRows DEF NoStage
<1>5. r.link = link
  BY <1>3 DEF WithStage, IsRows
<1>6. stage[j] = NoStage /\ dup[j] = NoJob
  BY <1>1 DEF IsNext, Exists, LinkInv, InOrder
<1>7. IsRows(w)
  <2> HIDE DEF r
  <2>1. Candidates(j) \in SUBSET Candidates(j) /\ r.stage[j] # NoStage
    BY <1>4 DEF NoStage
  <2> QED
    BY <2>1, <1>2, <1>4, <1>6, LinkingIsRows
<1> QED
  BY <1>2, <1>4, <1>5, <1>6, <1>7

LEMMA UpsertStep ==
  ASSUME OneSession, LinkInv, NEW s \in Sessions, Upsert(s)
  PROVE  LinkInv'
<1>1. PICK w : IsRows(w) /\ Finish(s, w, Idle)
  BY Inserted
<1> QED
  BY <1>1, TodoJobs, Commits DEF IsRows

\* What is committed by a turn of re-grouping.
Left(s, c) == Todo("relink", task[s].jobs \ {c})

LEMMA Regrouped ==
  ASSUME LinkInv, NEW s \in Sessions, Relink(s)
  PROVE  \E c \in task[s].jobs :
           /\ c \in Jobs /\ Left(s, c).jobs \in SUBSET Jobs
           /\ \/ Finish(s, Rows(s), Left(s, c))
              \/ \E w \in LinkIfDuplicate(Rows(s), c, Candidates(c)) :
                   /\ dup[c] = NoJob /\ stage[c] \notin InactiveStages
                   /\ IsRows(w) /\ Finish(s, w, Left(s, c))
                   /\ \A j \in Left(s, c).jobs : w.stage[j] # NoStage
<1> DEFINE r == Rows(s)
<1>1. PICK c \in task[s].jobs :
        IF r.dup[c] = NoJob /\ r.stage[c] \notin InactiveStages
        THEN \E w \in LinkIfDuplicate(r, c, Candidates(c)) : Finish(s, w, Left(s, c))
        ELSE Finish(s, r, Left(s, c))
  BY DEF Relink, Left
<1>2. task[s].jobs \in SUBSET Jobs /\ c \in Jobs /\ \A j \in task[s].jobs : stage[j] # NoStage
  BY DEF LinkInv, HeldIsCurrent
<1>3. IsRows(r) /\ r.dup = dup /\ r.stage = stage /\ Lasting(stage, stage)
  BY RowsAre DEF Lasting
<1> DEFINE t == Left(s, c)
<1>4. t.jobs \in SUBSET Jobs /\ \A j \in t.jobs : stage[j] # NoStage
  BY <1>2, TodoJobs DEF Left
<1>5. CASE Finish(s, r, t)
  BY <1>2, <1>4, <1>5
<1>6. CASE /\ r.dup[c] = NoJob /\ r.stage[c] \notin InactiveStages
           /\ \E w \in LinkIfDuplicate(r, c, Candidates(c)) : Finish(s, w, t)
  <2>1. PICK w \in LinkIfDuplicate(r, c, Candidates(c)) : Finish(s, w, t)
    BY <1>6
  <2> HIDE DEF r, t
  <2>2. IsRows(w) /\ Lasting(r.stage, w.stage)
    <3>1. Candidates(c) \in SUBSET Candidates(c) /\ dup[c] = NoJob /\ r.stage[c] # NoStage
      BY <1>2, <1>3, <1>6
    <3> QED
      BY <3>1, <2>1, <1>2, <1>3, LinkingIsRows
  <2>3. \A j \in t.jobs : w.stage[j] # NoStage
    BY <2>2, <1>3, <1>4 DEF Lasting
  <2> QED
    BY <2>1, <2>2, <2>3, <1>2, <1>3, <1>4, <1>6 DEF r, t
<1> QED
  BY <1>1, <1>5, <1>6

LEMMA RelinkStep ==
  ASSUME OneSession, LinkInv, NEW s \in Sessions, Relink(s)
  PROVE  LinkInv'
<1>1. PICK c \in task[s].jobs : \E w :
        /\ IsRows(w) /\ Finish(s, w, Left(s, c)) /\ Left(s, c).jobs \in SUBSET Jobs
        /\ \A j \in Left(s, c).jobs : w.stage[j] # NoStage
  <2>1. \A c : \A j \in Left(s, c).jobs : Rows(s).stage[j] # NoStage
    BY RowsAre, TodoJobs DEF Left, LinkInv, HeldIsCurrent
  <2> QED
    BY <2>1, RowsAre, Regrouped
<1> QED
  BY <1>1, Commits DEF IsRows

\* A posting is moved, and the session has nothing left but what is about it.
LEMMA MoveStep ==
  ASSUME OneSession, LinkInv, NEW s \in Sessions, NEW j \in Jobs,
         NEW to, to # "duplicate", to # NoStage,
         NEW t, t.jobs \subseteq {j}, Finish(s, WithStage(Rows(s), j, to), t)
  PROVE  LinkInv'
<1>1. IsRows(Rows(s))
  BY RowsAre
<1>2. IsRows(WithStage(Rows(s), j, to)) /\ WithStage(Rows(s), j, to).stage[j] = to
  BY <1>1, WithStageIsRows
<1> QED
  BY <1>2, Commits DEF IsRows

LEMMA MovingStep ==
  ASSUME OneSession, LinkInv, NEW s \in Sessions, NEW j \in Jobs,
         \/ \E to \in MoveStages : Transition(s, j, to)
         \/ Shortlist(s, j) \/ Reopen(s, j) \/ BeginDryRun(s, j) \/ CompleteDryRun(s, j)
         \/ RejectionEmail(s, j)
  PROVE  LinkInv'
<1>1. CASE \E to \in MoveStages : Transition(s, j, to)
  <2>1. PICK to \in MoveStages :
          Finish(s, WithStage(Rows(s), j, to),
                 IF to \in ReleasingStages THEN Todo("release", {j}) ELSE Idle)
    BY <1>1 DEF Transition
  <2>2. to # "duplicate" /\ to # NoStage
    BY StagesAreNamed
  <2> QED
    BY <2>1, <2>2, MoveStep, TodoJobs
<1>2. CASE Shortlist(s, j)
  BY <1>2, MoveStep, TodoJobs DEF Shortlist, NoStage
<1>3. CASE Reopen(s, j)
  BY <1>3, MoveStep, TodoJobs DEF Reopen, Regated, InactiveStages, NoStage
<1>4. CASE BeginDryRun(s, j) \/ CompleteDryRun(s, j) \/ RejectionEmail(s, j)
  BY <1>4, MoveStep, TodoJobs DEF BeginDryRun, CompleteDryRun, RejectionEmail, NoStage
<1> QED
  BY <1>1, <1>2, <1>3, <1>4

LEMMA ReleaseStep ==
  ASSUME OneSession, LinkInv, NEW s \in Sessions, Release(s)
  PROVE  LinkInv'
<1>1. PICK p \in task[s].jobs :
        \/ Finish(s, ReleaseCopies(Rows(s), p), Todo("relink", CopiesOf(p)))
        \/ Finish(s, Rows(s), Idle)
  BY DEF Release
<1>2. IsRows(Rows(s)) /\ Rows(s).dup = dup /\ Rows(s).stage = stage
  BY RowsAre
<1>3. p \in Jobs
  BY DEF LinkInv, HeldIsCurrent
<1>4. IsRows(ReleaseCopies(Rows(s), p)) /\ Lasting(stage, ReleaseCopies(Rows(s), p).stage)
  BY <1>2, <1>3, ReleasingIsRows
<1>5. CopiesOf(p) \in SUBSET Jobs /\ \A c \in CopiesOf(p) : stage[c] # NoStage
  BY <1>3, NoJobAssumption DEF CopiesOf, LinkInv, InOrder
<1> QED
  BY <1>1, <1>2, <1>4, <1>5, TodoJobs, Commits DEF IsRows, Lasting

LEMMA CloseStep ==
  ASSUME OneSession, LinkInv, NEW s \in Sessions, NEW j \in Jobs, Close(s, j)
  PROVE  LinkInv'
<1> DEFINE r == Deactivate(Rows(s), j, "closed")
<1>1. Finish(s, ReleaseCopies(r, j), Todo("relink", CopiesOf(j)))
  BY DEF Close
<1>2. IsRows(r) /\ r.dup = dup /\ Lasting(stage, r.stage)
  BY RowsAre, DeactivateIsRows
<1>3. IsRows(ReleaseCopies(r, j)) /\ Lasting(r.stage, ReleaseCopies(r, j).stage)
  BY <1>2, ReleasingIsRows
<1>4. CopiesOf(j) \in SUBSET Jobs /\ \A c \in CopiesOf(j) : stage[c] # NoStage
  BY NoJobAssumption DEF CopiesOf, LinkInv, InOrder
<1> HIDE DEF r
<1>5. \A c \in CopiesOf(j) : ReleaseCopies(r, j).stage[c] # NoStage
  BY <1>2, <1>3, <1>4 DEF Lasting
<1> QED
  BY <1>1, <1>3, <1>4, <1>5, TodoJobs, Commits DEF IsRows

LEMMA UnlinkStep ==
  ASSUME OneSession, LinkInv, NEW s \in Sessions, NEW j \in Jobs, Unlink(s, j)
  PROVE  LinkInv'
<1> DEFINE st == [stage EXCEPT ![j] = IF @ = "duplicate" THEN Regated(@) ELSE @]
           du == [dup EXCEPT ![j] = NoJob]
<1>1. PICK l : Finish(s, [stage |-> st, dup |-> du, link |-> l], Idle)
  BY DEF Unlink
<1>2. InOrder(stage, dup)
  BY DEF LinkInv
<1>3. InOrder(st, du)
  BY <1>2, Regating DEF InOrder
<1> HIDE DEF st, du
<1>4. [stage |-> st, dup |-> du, link |-> l].stage = st /\ [stage |-> st, dup |-> du, link |-> l].dup = du
  OBVIOUS
<1> QED
  BY <1>1, <1>3, <1>4, TodoJobs, Commits

\* The same rows, and less to do or what the database says.
LEMMA SameRowsStep ==
  ASSUME OneSession, LinkInv, NEW s \in Sessions, CreateApplication(s) \/ Scan(s)
  PROVE  LinkInv'
<1>1. IsRows(Rows(s)) /\ Rows(s).stage = stage
  BY RowsAre
<1>2. CASE CreateApplication(s)
  BY <1>1, <1>2, TodoJobs, Commits DEF CreateApplication, IsRows
<1>3. CASE Scan(s)
  <2>1. PICK todo \in SUBSET Jobs : /\ \A j \in todo : stage[j] # NoStage
                                    /\ Finish(s, Rows(s), Todo("relink", todo))
    BY <1>3 DEF Scan, Exists
  <2> QED
    BY <1>1, <2>1, TodoJobs, Commits DEF IsRows
<1> QED
  BY <1>2, <1>3

LEMMA QuietStep ==
  ASSUME LinkInv, UNCHANGED <<stage, dup, task, held>> \/ Crash
  PROVE  LinkInv'
<1>1. CASE UNCHANGED <<stage, dup, task, held>>
  BY <1>1 DEF LinkInv, HeldIsCurrent
<1>2. CASE Crash
  <2>1. stage' = stage /\ dup' = dup
    BY <1>2 DEF Crash, db
  <2>2. Restrict(stage', {}) = << >> /\ Restrict(dup', {}) = << >>
    BY DEF Restrict
  <2>3. HeldIsCurrent'
    BY <2>2, <1>2, TodoJobs DEF Crash, HeldIsCurrent, NothingHeld
  <2> QED
    BY <2>1, <2>3, <1>2 DEF Crash, LinkInv
<1> QED
  BY <1>1, <1>2

\* Every step keeps the invariant.
LEMMA NextLinks ==
  ASSUME OneSession, LinkInv, [NextWithAll]_vars
  PROVE  LinkInv'
<1>1. CASE UNCHANGED vars \/ Crash \/ \E j \in Refreshable : Refresh(j)
  BY <1>1, QuietStep DEF vars, Refresh
<1>2. CASE \E s \in Sessions : Work(s)
  <2>1. PICK s \in Sessions : Work(s)
    BY <1>2
  <2>2. CASE Upsert(s) \/ Release(s) \/ Relink(s) \/ CreateApplication(s)
    BY <2>2, UpsertStep, ReleaseStep, RelinkStep, SameRowsStep
  <2>3. CASE \E j \in Jobs : \/ \E to \in MoveStages : Transition(s, j, to)
                             \/ Shortlist(s, j) \/ Close(s, j) \/ Reopen(s, j)
                             \/ BeginDryRun(s, j) \/ CompleteDryRun(s, j)
    BY <2>3, MovingStep, CloseStep
  <2> QED
    BY <2>1, <2>2, <2>3 DEF Work, Continue
<1>3. CASE \E s \in Sessions, j \in Jobs : Unlink(s, j) \/ RejectionEmail(s, j)
  BY <1>3, UnlinkStep, MovingStep
<1>4. CASE \E s \in Sessions : Scan(s)
  BY <1>4, SameRowsStep
<1> QED
  BY <1>1, <1>2, <1>3, <1>4 DEF NextWithAll, NextWithScan, NextWithMail, NextWithCrash, Next

LEMMA LinkInvHolds ==
  ASSUME OneSession
  PROVE  FullSpec => []LinkInv
<1>1. Init => LinkInv
  BY InitLinks
<1>2. LinkInv /\ [NextWithAll]_vars => LinkInv'
  BY NextLinks
<1> QED
  BY <1>1, <1>2, PTL DEF FullSpec

\* While one session works at a time, a primary is linked to nothing: whatever is
\* discovered, changed, scanned, closed, rejected or unlinked, and wherever the
\* process dies (dedup.py: link_duplicate, release_duplicates, unlink).
THEOREM StarsHold ==
  ASSUME OneSession
  PROVE  FullSpec => []LinksAreStars
<1>1. LinkInv => LinksAreStars
  BY DEF LinkInv, InOrder, LinksAreStars
<1> QED
  BY <1>1, LinkInvHolds, PTL

\* Under the same condition a posting in stage "duplicate" has a primary, from
\* which a release or an unlink gets it back.
THEOREM NobodyStranded ==
  ASSUME OneSession
  PROVE  FullSpec => []NoStrandedDuplicate
<1>1. LinkInv => NoStrandedDuplicate
  BY DEF LinkInv, InOrder, NoStrandedDuplicate
<1> QED
  BY <1>1, LinkInvHolds, PTL
-----------------------------------------------------------------------------
(* Roles of two postings: the owner's overrides *)

\* Two postings that match or are linked.
Tied(a, b) == {a, b} \in similar \/ dup[a] = b \/ dup[b] = a

\* No posting matches, or is linked with, two others.
RolesArePairs == \A a, b, c \in Jobs : Tied(a, b) /\ Tied(a, c) => b = c

\* The rows of links say what the postings point to, and of a pair that the owner
\* took apart neither points to the other.
InRows(du, li) ==
  /\ \A a, b \in Jobs : li[<<a, b>>] = "linked" <=> du[a] = b
  /\ \A a, b \in Jobs : li[<<a, b>>] = "unlinked" => li[<<b, a>>] # "linked"

RowInv == DOMAIN link = Jobs \X Jobs /\ InRows(dup, link)

\* A session's rows with links in order.
IsLinked(r) == IsRows(r) /\ DOMAIN r.link = Jobs \X Jobs /\ InRows(r.dup, r.link)

LEMMA RowsAreLinked ==
  ASSUME LinkInv, RowInv, NEW s \in Sessions
  PROVE  IsLinked(Rows(s))
  BY RowsAre DEF RowInv, IsLinked

\* Only the stage of a posting is moved.
LEMMA MovingLeavesLinks ==
  ASSUME NEW r, IsRows(r), NEW j \in Jobs, NEW to
  PROVE  /\ WithStage(r, j, to).dup = r.dup /\ WithStage(r, j, to).link = r.link
         /\ Deactivate(r, j, to).dup = r.dup /\ Deactivate(r, j, to).link = r.link
  BY DEF WithStage, Deactivate, IsRows

\* In the rows w, d is linked to p and so are its copies.
LinkMade(w, r, d, p) ==
  /\ DOMAIN w.link = Jobs \X Jobs
  /\ \A a, b \in Jobs : w.link[<<a, b>>] = IF a = d /\ b = p THEN "linked" ELSE r.link[<<a, b>>]
  /\ \A a \in Jobs : w.dup[a] = IF a = d \/ dup[a] = d THEN p ELSE dup[a]

\* In a role of two postings a link that is made is the only change.
LEMMA LinkingPair ==
  ASSUME RolesArePairs, NEW r, IsLinked(r), r.dup = dup, NEW d \in Jobs, NEW p \in Jobs,
         dup[d] = NoJob, dup[p] = NoJob, Tied(d, p),
         r.link[<<d, p>>] # "unlinked", r.link[<<p, d>>] # "unlinked",
         NEW w, LinkMade(w, r, d, p)
  PROVE  InRows(w.dup, w.link)
<1>1. NoJob \notin Jobs /\ InRows(dup, r.link)
  BY NoJobAssumption DEF IsLinked
<1>2. \A c \in Jobs : dup[c] # d
  <2> SUFFICES ASSUME NEW c \in Jobs, dup[c] = d PROVE FALSE
    OBVIOUS
  <2>1. Tied(d, c)
    BY DEF Tied
  <2> QED
    BY <2>1, <1>1 DEF RolesArePairs
<1>3. ASSUME NEW a \in Jobs, NEW b \in Jobs PROVE w.link[<<a, b>>] = "linked" <=> w.dup[a] = b
  <2>1. r.link[<<a, b>>] = "linked" <=> dup[a] = b
    BY <1>1 DEF InRows
  <2>2. CASE a = d
    BY <2>1, <2>2, <1>1 DEF LinkMade
  <2>3. CASE a # d
    BY <2>1, <2>3, <1>2 DEF LinkMade
  <2> QED
    BY <2>2, <2>3
<1>4. \A a, b \in Jobs : w.link[<<a, b>>] = "unlinked" => w.link[<<b, a>>] # "linked"
  BY <1>1 DEF InRows, LinkMade
<1> QED
  BY <1>3, <1>4 DEF InRows

LEMMA LinkingIsLinked ==
  ASSUME RolesArePairs, NEW r, IsLinked(r), r.dup = dup, r.link = link, NEW j \in Jobs,
         dup[j] = NoJob, NEW w \in LinkIfDuplicate(r, j, Candidates(j))
  PROVE  DOMAIN w.link = Jobs \X Jobs /\ InRows(w.dup, w.link)
<1>1. CASE Candidates(j) = {}
  BY <1>1 DEF LinkIfDuplicate, IsLinked
<1>2. CASE Candidates(j) # {}
  <2>1. PICK p \in Candidates(j) : w = LinkDuplicate(r, j, p)
    BY <1>2 DEF LinkIfDuplicate
  <2>2. /\ p \in Jobs /\ dup[p] = NoJob /\ Tied(j, p) /\ Tied(p, j)
        /\ r.link[<<j, p>>] # "unlinked" /\ r.link[<<p, j>>] # "unlinked"
    <3>1. {j, p} = {p, j}
      OBVIOUS
    <3> QED
      BY <3>1 DEF Candidates, Tied
  <2>3. CASE MoreAdvanced(r, j, p)
    <3> DEFINE linked == [ r EXCEPT !.link[<<p, j>>] = "linked",
                                    !.dup = [ c \in Jobs |-> IF c = p \/ dup[c] = p
                                                             THEN j ELSE r.dup[c] ] ]
    <3>1. w = Deactivate(linked, p, "duplicate")
      BY <2>1, <2>3 DEF LinkDuplicate
    <3>2. w.link = linked.link /\ w.dup = linked.dup
      BY <3>1 DEF Deactivate, WithStage, IsLinked, IsRows
    <3>3. LinkMade(w, r, p, j)
      BY <3>2 DEF LinkMade, IsLinked, IsRows
    <3>4. InRows(w.dup, w.link)
      BY <3>3, <2>2, LinkingPair
    <3> QED
      BY <3>3, <3>4 DEF LinkMade
  <2>4. CASE ~MoreAdvanced(r, j, p)
    <3> DEFINE linked == [ r EXCEPT !.link[<<j, p>>] = "linked",
                                    !.dup = [ c \in Jobs |-> IF c = j \/ dup[c] = j
                                                             THEN p ELSE r.dup[c] ] ]
    <3>1. w = Deactivate(linked, j, "duplicate")
      BY <2>1, <2>4 DEF LinkDuplicate
    <3>2. w.link = linked.link /\ w.dup = linked.dup
      BY <3>1 DEF Deactivate, WithStage, IsLinked, IsRows
    <3>3. LinkMade(w, r, j, p)
      BY <3>2 DEF LinkMade, IsLinked, IsRows
    <3>4. InRows(w.dup, w.link)
      BY <3>3, <2>2, LinkingPair
    <3> QED
      BY <3>3, <3>4 DEF LinkMade
  <2> QED
    BY <2>3, <2>4
<1> QED
  BY <1>1, <1>2

LEMMA ReleasingIsLinked ==
  ASSUME NEW r, IsLinked(r), r.dup = dup, r.link = link, NEW p \in Jobs,
         NEW w, w = ReleaseCopies(r, p)
  PROVE  DOMAIN w.link = Jobs \X Jobs /\ InRows(w.dup, w.link)
<1> DEFINE du == [ c \in Jobs |-> IF c \in CopiesOf(p) THEN NoJob ELSE dup[c] ]
           li == [ e \in Jobs \X Jobs |-> IF e[1] \in CopiesOf(p) /\ link[e] = "linked"
                                          THEN "none" ELSE link[e] ]
<1>1. ReleaseCopies(r, p).dup = du /\ ReleaseCopies(r, p).link = li
  BY DEF ReleaseCopies
<1>2. InRows(dup, link) /\ NoJob \notin Jobs
  BY NoJobAssumption DEF IsLinked
<1>3. \A a, b \in Jobs : li[<<a, b>>] = IF a \in CopiesOf(p) /\ link[<<a, b>>] = "linked"
                                        THEN "none" ELSE link[<<a, b>>]
  OBVIOUS
<1>4. DOMAIN li = Jobs \X Jobs
  OBVIOUS
<1>5. \A a \in Jobs : du[a] = IF a \in CopiesOf(p) THEN NoJob ELSE dup[a]
  OBVIOUS
<1> HIDE DEF du, li
<1>6. InRows(du, li)
  BY <1>2, <1>3, <1>5 DEF InRows
<1> QED
  BY <1>1, <1>4, <1>6

\* What is committed is what the links are.
LEMMA CommitsLinks ==
  ASSUME LinkInv, NEW s \in Sessions, NEW r, IsRows(r), NEW t, Finish(s, r, t),
         DOMAIN r.link = Jobs \X Jobs, InRows(r.dup, r.link)
  PROVE  RowInv'
<1>1. dup' = r.dup /\ link' = r.link
  BY Written DEF IsRows
<1> QED
  BY <1>1 DEF RowInv, InRows

\* Stages move and links stay.
LEMMA MovesKeepLinks ==
  ASSUME LinkInv, RowInv, NEW s \in Sessions, NEW j \in Jobs, NEW to,
         to # "duplicate", to # NoStage, NEW t, Finish(s, WithStage(Rows(s), j, to), t)
  PROVE  RowInv'
<1>1. IsRows(WithStage(Rows(s), j, to))
  BY RowsAre, WithStageIsRows
<1>2. WithStage(Rows(s), j, to).dup = dup /\ WithStage(Rows(s), j, to).link = link
  BY RowsAre, MovingLeavesLinks
<1> QED
  BY <1>1, <1>2, CommitsLinks DEF RowInv

LEMMA LinkingSteps ==
  ASSUME LinkInv, RowInv, RolesArePairs, NEW s \in Sessions, Upsert(s) \/ Relink(s)
  PROVE  RowInv'
<1>1. CASE Upsert(s)
  <2>1. PICK j, r :
           /\ j \in Jobs
           /\ \E w \in LinkIfDuplicate(r, j, Candidates(j)) :
              /\ IsRows(r) /\ r.dup = dup /\ r.link = link /\ dup[j] = NoJob
              /\ IsRows(w) /\ Finish(s, w, Idle)
    BY <1>1, Inserted
  <2> j \in Jobs
    BY <2>1
  <2>2. PICK w \in LinkIfDuplicate(r, j, Candidates(j)) : IsRows(w) /\ Finish(s, w, Idle)
    BY <2>1
  <2>3. IsLinked(r)
    BY <2>1 DEF IsLinked, RowInv
  <2>4. DOMAIN w.link = Jobs \X Jobs /\ InRows(w.dup, w.link)
    BY <2>1, <2>2, <2>3, LinkingIsLinked
  <2> QED
    BY <2>2, <2>4, CommitsLinks
<1>2. CASE Relink(s)
  <2>1. IsLinked(Rows(s)) /\ Rows(s).dup = dup /\ Rows(s).link = link
    BY RowsAre, RowsAreLinked
  <2>2. PICK c \in Jobs : \E t :
          \/ Finish(s, Rows(s), t)
          \/ \E w \in LinkIfDuplicate(Rows(s), c, Candidates(c)) :
               dup[c] = NoJob /\ IsRows(w) /\ Finish(s, w, t)
    BY <1>2, Regrouped
  <2>3. CASE \E t : Finish(s, Rows(s), t)
    BY <2>1, <2>3, CommitsLinks DEF IsLinked
  <2>4. ASSUME NEW t, NEW w \in LinkIfDuplicate(Rows(s), c, Candidates(c)),
               dup[c] = NoJob, IsRows(w), Finish(s, w, t)
        PROVE  RowInv'
    <3>1. DOMAIN w.link = Jobs \X Jobs /\ InRows(w.dup, w.link)
      BY <2>1, <2>4, LinkingIsLinked
    <3> QED
      BY <2>4, <3>1, CommitsLinks
  <2> QED
    BY <2>2, <2>3, <2>4
<1> QED
  BY <1>1, <1>2

LEMMA ReleasingSteps ==
  ASSUME LinkInv, RowInv, NEW s \in Sessions, Release(s) \/ \E j \in Jobs : Close(s, j)
  PROVE  RowInv'
<1>1. IsLinked(Rows(s)) /\ IsRows(Rows(s)) /\ Rows(s).dup = dup /\ Rows(s).link = link
  BY RowsAre, RowsAreLinked
<1>2. CASE Release(s)
  <2>1. PICK p, t :
           /\ p \in task[s].jobs
           /\ Finish(s, ReleaseCopies(Rows(s), p), t) \/ Finish(s, Rows(s), t)
    BY <1>2 DEF Release
  <2> p \in task[s].jobs
    BY <2>1
  <2>2. p \in Jobs
    BY DEF LinkInv, HeldIsCurrent
  <2>3. IsRows(ReleaseCopies(Rows(s), p))
    BY <1>1, <2>2, ReleasingIsRows
  <2>4. /\ DOMAIN ReleaseCopies(Rows(s), p).link = Jobs \X Jobs
        /\ InRows(ReleaseCopies(Rows(s), p).dup, ReleaseCopies(Rows(s), p).link)
    BY <1>1, <2>2, ReleasingIsLinked
  <2> QED
    BY <2>1, <2>3, <2>4, <1>1, CommitsLinks DEF IsLinked
<1>3. ASSUME NEW j \in Jobs, Close(s, j) PROVE RowInv'
  <2> DEFINE r == Deactivate(Rows(s), j, "closed")
             w == ReleaseCopies(r, j)
  <2>1. PICK t : Finish(s, w, t)
    BY <1>3 DEF Close
  <2>2. IsRows(r) /\ r.dup = dup /\ r.link = link
    BY <1>1, DeactivateIsRows, MovingLeavesLinks
  <2>3. IsLinked(r)
    BY <2>2 DEF IsLinked, RowInv
  <2> HIDE DEF r
  <2>4. IsRows(w)
    BY <2>2, ReleasingIsRows
  <2>5. DOMAIN w.link = Jobs \X Jobs /\ InRows(w.dup, w.link)
    BY <2>2, <2>3, ReleasingIsLinked
  <2> HIDE DEF w
  <2> QED
    BY <2>1, <2>4, <2>5, CommitsLinks
<1> QED
  BY <1>2, <1>3

LEMMA UnlinkingStep ==
  ASSUME LinkInv, RowInv, NEW s \in Sessions, NEW j \in Jobs, Unlink(s, j)
  PROVE  /\ RowInv' /\ dup[j] \in Jobs /\ link'[<<j, dup[j]>>] = "unlinked"
<1> DEFINE st == [stage EXCEPT ![j] = IF @ = "duplicate" THEN Regated(@) ELSE @]
           du == [dup EXCEPT ![j] = NoJob]
           li == [ e \in Jobs \X Jobs |->
                     IF e[1] = j /\ link[e] = "linked" THEN "unlinked" ELSE link[e] ]
           r  == [stage |-> st, dup |-> du, link |-> li]
<1>1. Finish(s, r, Idle) /\ dup[j] # NoJob
  BY DEF Unlink
<1>2. InOrder(stage, dup) /\ InRows(dup, link) /\ NoJob \notin Jobs
  BY NoJobAssumption DEF LinkInv, RowInv
<1>3. InOrder(st, du)
  BY <1>2, Regating DEF InOrder
<1>4. \A a, b \in Jobs : li[<<a, b>>] = IF a = j /\ link[<<a, b>>] = "linked" THEN "unlinked"
                                        ELSE link[<<a, b>>]
  OBVIOUS
<1>5. \A a \in Jobs : du[a] = IF a = j THEN NoJob ELSE dup[a]
  BY <1>2 DEF InOrder
<1>6. DOMAIN li = Jobs \X Jobs
  OBVIOUS
<1>7. DOMAIN r = {"stage", "dup", "link"} /\ r.stage = st /\ r.dup = du /\ r.link = li
  OBVIOUS
<1> HIDE DEF st, du, li, r
<1>8. ASSUME NEW a \in Jobs, NEW b \in Jobs PROVE li[<<a, b>>] = "linked" <=> du[a] = b
  <2>1. link[<<a, b>>] = "linked" <=> dup[a] = b
    BY <1>2 DEF InRows
  <2>2. CASE a = j
    BY <2>1, <2>2, <1>2, <1>4, <1>5
  <2>3. CASE a # j
    BY <2>1, <2>3, <1>4, <1>5
  <2> QED
    BY <2>2, <2>3
<1>9. ASSUME NEW a \in Jobs, NEW b \in Jobs, li[<<a, b>>] = "unlinked" PROVE li[<<b, a>>] # "linked"
  <2>1. CASE link[<<a, b>>] = "unlinked"
    BY <2>1, <1>2, <1>4 DEF InRows
  <2>2. CASE a = j /\ link[<<a, b>>] = "linked"
    <3>1. dup[j] = b /\ dup[b] = NoJob
      BY <2>2, <1>1, <1>2 DEF InRows, InOrder
    <3>2. link[<<b, a>>] # "linked"
      BY <3>1, <1>2 DEF InRows
    <3> QED
      BY <3>2, <1>4
  <2> QED
    BY <2>1, <2>2, <1>4, <1>9
<1>10. InRows(du, li)
  BY <1>8, <1>9 DEF InRows
<1>11. RowInv' /\ link' = li
  BY <1>1, <1>3, <1>6, <1>7, <1>10, CommitsLinks, Written DEF IsRows
<1>12. dup[j] \in Jobs
  BY <1>1, <1>2 DEF InOrder
<1> QED
  BY <1>2, <1>4, <1>11, <1>12 DEF InRows

\* Every step keeps the rows of links in order while roles are of two postings.
LEMMA NextRows ==
  ASSUME LinkInv, RowInv, RolesArePairs, [NextWithAll]_vars
  PROVE  RowInv'
<1>1. CASE UNCHANGED vars \/ Crash \/ \E j \in Refreshable : Refresh(j)
  <2>1. dup' = dup /\ link' = link
    BY <1>1 DEF vars, db, Crash, Refresh
  <2> QED
    BY <2>1 DEF RowInv, InRows
<1>2. ASSUME NEW s \in Sessions, CreateApplication(s) \/ Scan(s) PROVE RowInv'
  <2>1. PICK t : Finish(s, Rows(s), t)
    BY <1>2 DEF CreateApplication, Scan
  <2> QED
    BY <2>1, RowsAre, CommitsLinks DEF RowInv
<1>3. ASSUME NEW s \in Sessions, NEW j \in Jobs,
             \/ \E to \in MoveStages : Transition(s, j, to)
             \/ Shortlist(s, j) \/ Reopen(s, j) \/ BeginDryRun(s, j) \/ CompleteDryRun(s, j)
             \/ RejectionEmail(s, j)
      PROVE  RowInv'
  <2>1. PICK to, t : /\ to \in MoveStages \cup {"shortlisted", "applying", "validated", "rejected",
                                                Regated("closed")}
                     /\ Finish(s, WithStage(Rows(s), j, to), t)
    BY <1>3 DEF Transition, Shortlist, Reopen, BeginDryRun, CompleteDryRun, RejectionEmail
  <2>2. to # "duplicate" /\ to # NoStage
    BY <2>1, StagesAreNamed, Regating DEF NoStage
  <2> QED
    BY <2>1, <2>2, MovesKeepLinks
<1> QED
  BY <1>1, <1>2, <1>3, LinkingSteps, ReleasingSteps, UnlinkingStep
     DEF NextWithAll, NextWithScan, NextWithMail, NextWithCrash, Next, Work, Continue

LEMMA RowInvHolds ==
  ASSUME OneSession
  PROVE  FullSpec /\ []RolesArePairs => []RowInv
<1>1. Init => RowInv
  BY NoJobAssumption DEF Init, RowInv, InRows
<1>2. LinkInv /\ RowInv /\ RolesArePairs /\ [NextWithAll]_vars => RowInv'
  BY NextRows
<1> QED
  BY <1>1, <1>2, LinkInvHolds, PTL DEF FullSpec

\* Where a role has two postings at most, an override leaves a row that says so, whether
\* the postings still match or not, with scans, mails and crashes (dedup.py: unlink).
\* With a third posting a copy that was handed over has no row to say it in.
THEOREM OverrideStaysRecorded ==
  ASSUME OneSession
  PROVE  FullSpec /\ []RolesArePairs => OverrideIsRecorded
<1>1. ASSUME LinkInv, RowInv, [NextWithAll]_vars
      PROVE  [\A s \in Sessions, j \in Jobs :
                Unlink(s, j) /\ {j, dup[j]} \in similar
                  => \/ link'[<<j, dup[j]>>] = "unlinked"
                     \/ link'[<<dup[j], j>>] = "unlinked"]_vars
  BY <1>1, UnlinkingStep
<1>2. FullSpec => []LinkInv
  BY LinkInvHolds
<1>3. FullSpec /\ []RolesArePairs => []RowInv
  BY RowInvHolds
<1> QED
  BY <1>1, <1>2, <1>3, PTL DEF FullSpec, OverrideIsRecorded

\* Two postings make no role of three.
LEMMA TwoArePairs ==
  ASSUME OneSession, NumJobs <= 2
  PROVE  FullSpec => []RolesArePairs
<1>1. Init => similar \subseteq Pairs
  BY DEF Init
<1>2. similar \subseteq Pairs /\ [NextWithAll]_vars => (similar \subseteq Pairs)'
  <2> SUFFICES ASSUME similar \subseteq Pairs, [NextWithAll]_vars PROVE similar' \subseteq Pairs
    OBVIOUS
  <2>1. CASE \E j \in Refreshable : Refresh(j)
    BY <2>1 DEF Refresh
  <2>2. CASE similar' = similar
    BY <2>2
  <2> QED
    BY <2>1, <2>2 DEF NextWithAll, NextWithScan, NextWithMail, NextWithCrash, Next, Work, Continue,
       vars, db, Crash, Scan, RejectionEmail, Unlink, Upsert, CreateApplication, Release, Relink,
       Transition, Shortlist, Close, Reopen, BeginDryRun, CompleteDryRun
<1>3. LinkInv /\ similar \subseteq Pairs => RolesArePairs
  <2> SUFFICES ASSUME LinkInv, similar \subseteq Pairs, NEW a \in Jobs, NEW b \in Jobs, NEW c \in Jobs,
                      Tied(a, b), Tied(a, c)
               PROVE  b = c
    BY DEF RolesArePairs
  <2>1. \A x \in Jobs : Tied(a, x) => a # x
    BY NoJobAssumption DEF Tied, Pairs, LinkInv, InOrder
  <2>2. \A x \in Jobs : x = 1 \/ x = 2
    BY NumJobsAssumption DEF Jobs
  <2> QED
    BY <2>1, <2>2
<1> QED
  BY <1>1, <1>2, <1>3, LinkInvHolds, PTL DEF FullSpec

-----------------------------------------------------------------------------
(* Roles of any number of postings: how long an override lasts *)

\* The rows of overrides stay, and a pair with one comes together by a hand-over only.
Lasts(du, li, to, lj) ==
  \A j, p \in Jobs :
    /\ li[<<j, p>>] = "unlinked" => lj[<<j, p>>] = "unlinked"
    /\ "unlinked" \in {li[<<j, p>>], li[<<p, j>>]} /\ du[j] # p /\ to[j] = p
         => \E d \in Jobs \ {j, p} : du[j] = d /\ to[d] = p

PairsHaveRows == DOMAIN link = Jobs \X Jobs

\* What rows w do to the overrides of the database.
LeavesOverrides(w) == DOMAIN w.link = Jobs \X Jobs /\ Lasts(dup, link, w.dup, w.link)

\* A step that leaves the overrides.
OverridesStep == PairsHaveRows' /\ Lasts(dup, link, dup', link')

LEMMA SameLinksLast ==
  ASSUME PairsHaveRows, NEW w, w.dup = dup, w.link = link
  PROVE  LeavesOverrides(w)
  BY DEF PairsHaveRows, LeavesOverrides, Lasts

LEMMA CommitsOverrides ==
  ASSUME LinkInv, NEW s \in Sessions, NEW r, IsRows(r), NEW t, Finish(s, r, t), LeavesOverrides(r)
  PROVE  OverridesStep
<1>1. dup' = r.dup /\ link' = r.link
  BY Written DEF IsRows
<1> QED
  BY <1>1 DEF OverridesStep, PairsHaveRows, LeavesOverrides

\* A link is made between two postings without an override; others come along.
LEMMA LinkMadeLasts ==
  ASSUME NEW r, r.link = link, NEW d \in Jobs, NEW p \in Jobs, d # p,
         link[<<d, p>>] # "unlinked", link[<<p, d>>] # "unlinked",
         NEW w, LinkMade(w, r, d, p)
  PROVE  LeavesOverrides(w)
<1>1. ASSUME NEW a \in Jobs, NEW b \in Jobs, link[<<a, b>>] = "unlinked"
      PROVE  w.link[<<a, b>>] = "unlinked"
  BY <1>1 DEF LinkMade
<1>2. ASSUME NEW a \in Jobs, NEW b \in Jobs, "unlinked" \in {link[<<a, b>>], link[<<b, a>>]},
             dup[a] # b, w.dup[a] = b
      PROVE  \E c \in Jobs \ {a, b} : dup[a] = c /\ w.dup[c] = b
  <2>1. b = p /\ a # d
    BY <1>2 DEF LinkMade
  <2>2. dup[a] = d /\ w.dup[d] = p
    BY <1>2, <2>1 DEF LinkMade
  <2>3. d \in Jobs \ {a, b}
    BY <2>1
  <2> QED
    BY <2>1, <2>2, <2>3
<1> QED
  BY <1>1, <1>2 DEF LeavesOverrides, Lasts, LinkMade

LEMMA LinkingLasts ==
  ASSUME PairsHaveRows, NEW r, IsRows(r), r.dup = dup, r.link = link, NEW j \in Jobs,
         NEW w \in LinkIfDuplicate(r, j, Candidates(j))
  PROVE  LeavesOverrides(w)
<1>1. CASE Candidates(j) = {}
  BY <1>1, SameLinksLast DEF LinkIfDuplicate
<1>2. CASE Candidates(j) # {}
  <2>1. PICK p \in Candidates(j) : w = LinkDuplicate(r, j, p)
    BY <1>2 DEF LinkIfDuplicate
  <2>2. p \in Jobs /\ p # j /\ link[<<j, p>>] # "unlinked" /\ link[<<p, j>>] # "unlinked"
    BY DEF Candidates
  <2>3. CASE MoreAdvanced(r, j, p)
    <3> DEFINE linked == [ r EXCEPT !.link[<<p, j>>] = "linked",
                                    !.dup = [ c \in Jobs |-> IF c = p \/ dup[c] = p
                                                             THEN j ELSE r.dup[c] ] ]
    <3>1. w = Deactivate(linked, p, "duplicate")
      BY <2>1, <2>3 DEF LinkDuplicate
    <3>2. w.link = linked.link /\ w.dup = linked.dup
      BY <3>1 DEF Deactivate, WithStage, IsRows
    <3>3. LinkMade(w, r, p, j)
      BY <2>2, <3>2 DEF LinkMade, IsRows, PairsHaveRows
    <3> QED
      BY <2>2, <3>3, LinkMadeLasts
  <2>4. CASE ~MoreAdvanced(r, j, p)
    <3> DEFINE linked == [ r EXCEPT !.link[<<j, p>>] = "linked",
                                    !.dup = [ c \in Jobs |-> IF c = j \/ dup[c] = j
                                                             THEN p ELSE r.dup[c] ] ]
    <3>1. w = Deactivate(linked, j, "duplicate")
      BY <2>1, <2>4 DEF LinkDuplicate
    <3>2. w.link = linked.link /\ w.dup = linked.dup
      BY <3>1 DEF Deactivate, WithStage, IsRows
    <3>3. LinkMade(w, r, j, p)
      BY <2>2, <3>2 DEF LinkMade, IsRows, PairsHaveRows
    <3> QED
      BY <2>2, <3>3, LinkMadeLasts
  <2> QED
    BY <2>3, <2>4
<1> QED
  BY <1>1, <1>2

\* Pointers that are cleared bring nobody together.
LEMMA ReleasingLasts ==
  ASSUME NEW r, r.dup = dup, r.link = link, NEW p \in Jobs, NEW w, w = ReleaseCopies(r, p)
  PROVE  LeavesOverrides(w)
<1> DEFINE du == [ c \in Jobs |-> IF c \in CopiesOf(p) THEN NoJob ELSE dup[c] ]
           li == [ e \in Jobs \X Jobs |-> IF e[1] \in CopiesOf(p) /\ link[e] = "linked"
                                          THEN "none" ELSE link[e] ]
<1>1. w.dup = du /\ w.link = li /\ NoJob \notin Jobs
  BY NoJobAssumption DEF ReleaseCopies
<1>2. \A a, b \in Jobs : link[<<a, b>>] = "unlinked" => li[<<a, b>>] = "unlinked"
  OBVIOUS
<1>3. \A a \in Jobs : du[a] = NoJob \/ du[a] = dup[a]
  OBVIOUS
<1>4. DOMAIN li = Jobs \X Jobs
  OBVIOUS
<1> HIDE DEF du, li
<1>5. Lasts(dup, link, du, li)
  BY <1>1, <1>2, <1>3 DEF Lasts
<1> QED
  BY <1>1, <1>4, <1>5 DEF LeavesOverrides

LEMMA MovesLeaveOverrides ==
  ASSUME LinkInv, PairsHaveRows, NEW s \in Sessions, NEW j \in Jobs, NEW to,
         to # "duplicate", to # NoStage, NEW t, Finish(s, WithStage(Rows(s), j, to), t)
  PROVE  OverridesStep
<1>1. IsRows(WithStage(Rows(s), j, to))
  BY RowsAre, WithStageIsRows
<1>2. WithStage(Rows(s), j, to).dup = dup /\ WithStage(Rows(s), j, to).link = link
  BY RowsAre, MovingLeavesLinks
<1> QED
  BY <1>1, <1>2, SameLinksLast, CommitsOverrides

LEMMA LinkingLeavesOverrides ==
  ASSUME LinkInv, PairsHaveRows, NEW s \in Sessions, Upsert(s) \/ Relink(s)
  PROVE  OverridesStep
<1>1. CASE Upsert(s)
  <2>1. PICK j, r :
           /\ j \in Jobs
           /\ \E w \in LinkIfDuplicate(r, j, Candidates(j)) :
              IsRows(r) /\ r.dup = dup /\ r.link = link /\ IsRows(w) /\ Finish(s, w, Idle)
    BY <1>1, Inserted
  <2> j \in Jobs
    BY <2>1
  <2>2. PICK w \in LinkIfDuplicate(r, j, Candidates(j)) : IsRows(w) /\ Finish(s, w, Idle)
    BY <2>1
  <2>3. LeavesOverrides(w)
    BY <2>1, <2>2, LinkingLasts
  <2> QED
    BY <2>2, <2>3, CommitsOverrides
<1>2. CASE Relink(s)
  <2>1. IsRows(Rows(s)) /\ Rows(s).dup = dup /\ Rows(s).link = link
    BY RowsAre
  <2>2. PICK c \in Jobs : \E t :
          \/ Finish(s, Rows(s), t)
          \/ \E w \in LinkIfDuplicate(Rows(s), c, Candidates(c)) : IsRows(w) /\ Finish(s, w, t)
    BY <1>2, Regrouped
  <2>3. CASE \E t : Finish(s, Rows(s), t)
    BY <2>1, <2>3, SameLinksLast, CommitsOverrides
  <2>4. ASSUME NEW t, NEW w \in LinkIfDuplicate(Rows(s), c, Candidates(c)),
               IsRows(w), Finish(s, w, t)
        PROVE  OverridesStep
    <3>1. LeavesOverrides(w)
      BY <2>1, LinkingLasts
    <3> QED
      BY <2>4, <3>1, CommitsOverrides
  <2> QED
    BY <2>2, <2>3, <2>4
<1> QED
  BY <1>1, <1>2

LEMMA ReleasingLeavesOverrides ==
  ASSUME LinkInv, PairsHaveRows, NEW s \in Sessions, Release(s) \/ \E j \in Jobs : Close(s, j)
  PROVE  OverridesStep
<1>1. IsRows(Rows(s)) /\ Rows(s).dup = dup /\ Rows(s).link = link
  BY RowsAre
<1>2. CASE Release(s)
  <2>1. PICK p, t :
           /\ p \in task[s].jobs
           /\ Finish(s, ReleaseCopies(Rows(s), p), t) \/ Finish(s, Rows(s), t)
    BY <1>2 DEF Release
  <2> p \in task[s].jobs
    BY <2>1
  <2>2. p \in Jobs
    BY DEF LinkInv, HeldIsCurrent
  <2>3. IsRows(ReleaseCopies(Rows(s), p)) /\ LeavesOverrides(ReleaseCopies(Rows(s), p))
    BY <1>1, <2>2, ReleasingIsRows, ReleasingLasts
  <2> QED
    BY <1>1, <2>1, <2>3, SameLinksLast, CommitsOverrides
<1>3. ASSUME NEW j \in Jobs, Close(s, j) PROVE OverridesStep
  <2> DEFINE r == Deactivate(Rows(s), j, "closed")
             w == ReleaseCopies(r, j)
  <2>1. PICK t : Finish(s, w, t)
    BY <1>3 DEF Close
  <2>2. IsRows(r) /\ r.dup = dup /\ r.link = link
    BY <1>1, DeactivateIsRows, MovingLeavesLinks
  <2> HIDE DEF r
  <2>3. IsRows(w) /\ LeavesOverrides(w)
    BY <2>2, ReleasingIsRows, ReleasingLasts
  <2> HIDE DEF w
  <2> QED
    BY <2>1, <2>3, CommitsOverrides
<1> QED
  BY <1>2, <1>3

LEMMA UnlinkLeavesOverrides ==
  ASSUME LinkInv, PairsHaveRows, NEW s \in Sessions, NEW j \in Jobs, Unlink(s, j)
  PROVE  OverridesStep
<1> DEFINE st == [stage EXCEPT ![j] = IF @ = "duplicate" THEN Regated(@) ELSE @]
           du == [dup EXCEPT ![j] = NoJob]
           li == [ e \in Jobs \X Jobs |->
                     IF e[1] = j /\ link[e] = "linked" THEN "unlinked" ELSE link[e] ]
           r  == [stage |-> st, dup |-> du, link |-> li]
<1>1. Finish(s, r, Idle)
  BY DEF Unlink
<1>2. InOrder(stage, dup) /\ NoJob \notin Jobs
  BY NoJobAssumption DEF LinkInv
<1>3. InOrder(st, du)
  BY <1>2, Regating DEF InOrder
<1>4. \A a, b \in Jobs : link[<<a, b>>] = "unlinked" => li[<<a, b>>] = "unlinked"
  OBVIOUS
<1>5. \A a \in Jobs : du[a] = NoJob \/ du[a] = dup[a]
  BY <1>2 DEF InOrder
<1>6. DOMAIN li = Jobs \X Jobs
  OBVIOUS
<1>7. DOMAIN r = {"stage", "dup", "link"} /\ r.stage = st /\ r.dup = du /\ r.link = li
  OBVIOUS
<1> HIDE DEF st, du, li, r
<1>8. Lasts(dup, link, du, li)
  BY <1>2, <1>4, <1>5 DEF Lasts
<1> QED
  BY <1>1, <1>3, <1>6, <1>7, <1>8, CommitsOverrides DEF IsRows, LeavesOverrides

LEMMA NextLeavesOverrides ==
  ASSUME LinkInv, PairsHaveRows, [NextWithAll]_vars
  PROVE  OverridesStep
<1>1. CASE UNCHANGED vars \/ Crash \/ \E j \in Refreshable : Refresh(j)
  <2>1. dup' = dup /\ link' = link
    BY <1>1 DEF vars, db, Crash, Refresh
  <2> QED
    BY <2>1 DEF OverridesStep, PairsHaveRows, Lasts
<1>2. ASSUME NEW s \in Sessions, CreateApplication(s) \/ Scan(s) PROVE OverridesStep
  <2>1. PICK t : Finish(s, Rows(s), t)
    BY <1>2 DEF CreateApplication, Scan
  <2> QED
    BY <2>1, RowsAre, SameLinksLast, CommitsOverrides
<1>3. ASSUME NEW s \in Sessions, NEW j \in Jobs,
             \/ \E to \in MoveStages : Transition(s, j, to)
             \/ Shortlist(s, j) \/ Reopen(s, j) \/ BeginDryRun(s, j) \/ CompleteDryRun(s, j)
             \/ RejectionEmail(s, j)
      PROVE  OverridesStep
  <2>1. PICK to, t : /\ to \in MoveStages \cup {"shortlisted", "applying", "validated", "rejected",
                                                Regated("closed")}
                     /\ Finish(s, WithStage(Rows(s), j, to), t)
    BY <1>3 DEF Transition, Shortlist, Reopen, BeginDryRun, CompleteDryRun, RejectionEmail
  <2>2. to # "duplicate" /\ to # NoStage
    BY <2>1, StagesAreNamed, Regating DEF NoStage
  <2> QED
    BY <2>1, <2>2, MovesLeaveOverrides
<1> QED
  BY <1>1, <1>2, <1>3, LinkingLeavesOverrides, ReleasingLeavesOverrides, UnlinkLeavesOverrides
     DEF NextWithAll, NextWithScan, NextWithMail, NextWithCrash, Next, Work, Continue

\* For roles of any number of postings, while one session works at a time: the row of an
\* override is never overwritten, and the pair it takes apart comes together again only
\* where one of the two is handed over with its primary, through discovery, scans,
\* releases, mails and crashes (dedup.py: find_duplicate, link_duplicate, unlink).
THEOREM OverridesStay ==
  ASSUME OneSession
  PROVE  FullSpec => OverridesLast
<1>1. Init => PairsHaveRows
  BY DEF Init, PairsHaveRows
<1>2. LinkInv /\ PairsHaveRows /\ [NextWithAll]_vars => PairsHaveRows'
  BY NextLeavesOverrides DEF OverridesStep
<1>3. ASSUME LinkInv, PairsHaveRows, [NextWithAll]_vars
      PROVE  [\A j, p \in Jobs :
                /\ link[<<j, p>>] = "unlinked" => link'[<<j, p>>] = "unlinked"
                /\ "unlinked" \in {link[<<j, p>>], link[<<p, j>>]} /\ dup[j] # p /\ dup'[j] = p
                     => HandedOver(j, p)]_vars
  BY <1>3, NextLeavesOverrides DEF OverridesStep, Lasts, HandedOver
<1>4. FullSpec => []LinkInv
  BY LinkInvHolds
<1> QED
  BY <1>1, <1>2, <1>3, <1>4, PTL DEF FullSpec, OverridesLast

-----------------------------------------------------------------------------
(* The stages that commits write *)

LEMMA Reactivations ==
  /\ CanTransition("duplicate", "discovered") /\ CanTransition("closed", "discovered")
  /\ CanTransition("applying", "validated")
<1>1. {"duplicate", "closed", "applying"} \subseteq Stages
  <2>1. StageOrder[22] = "duplicate" /\ StageOrder[23] = "closed" /\ StageOrder[12] = "applying"
    BY DEF StageOrder
  <2>2. {22, 23, 12} \subseteq DOMAIN StageOrder
    BY DEF StageOrder
  <2> QED
    BY <2>1, <2>2 DEF Stages
<1>2. "discovered" \in BaseAllowed["duplicate"] /\ "discovered" \in BaseAllowed["closed"]
      /\ "validated" \in BaseAllowed["applying"]
  BY DEF BaseAllowed
<1>3. \A st \in Stages : BaseAllowed[st] \subseteq Allowed[st]
  BY DEF Allowed
<1> QED
  BY <1>1, <1>2, <1>3 DEF CanTransition

\* A posting stays where it is or is sent back to the start.
LEMMA RegatingIsLegal == \A st : CanTransition(st, Regated(st)) /\ CanTransition(st, st)
  BY Reactivations DEF Regated, InactiveStages, CanTransition

\* Only legal moves lead from one assignment of stages to another.
LegalMoves(from, to) == \A k \in Jobs : CanTransition(from[k], to[k])

LEMMA MovingIsLegal ==
  ASSUME NEW r, IsRows(r), NEW j \in Jobs, NEW to, CanTransition(r.stage[j], to)
  PROVE  LegalMoves(r.stage, WithStage(r, j, to).stage)
<1>1. WithStage(r, j, to).stage = [ k \in Jobs |-> IF k = j THEN to ELSE r.stage[k] ]
  BY DEF WithStage, IsRows
<1> QED
  BY <1>1, RegatingIsLegal DEF LegalMoves

LEMMA DeactivatingIsLegal ==
  ASSUME NEW r, IsRows(r), NEW j \in Jobs, NEW to
  PROVE  LegalMoves(r.stage, Deactivate(r, j, to).stage)
  BY MovingIsLegal, RegatingIsLegal DEF Deactivate, LegalMoves

\* A link that is made moves the demoted posting alone, if its stage allows it.
LEMMA LinkingIsLegal ==
  ASSUME NEW r, DOMAIN r = {"stage", "dup", "link"}, DOMAIN r.stage = Jobs, NEW j \in Jobs,
         NEW C \in SUBSET Jobs, NEW w \in LinkIfDuplicate(r, j, C)
  PROVE  LegalMoves(r.stage, w.stage)
<1>1. CASE w = r
  BY <1>1, RegatingIsLegal DEF LegalMoves
<1>2. ASSUME NEW p \in C, w = LinkDuplicate(r, j, p) PROVE LegalMoves(r.stage, w.stage)
  <2>1. PICK d, linked :
          /\ d \in Jobs
          /\ DOMAIN linked = {"stage", "dup", "link"} /\ linked.stage = r.stage
          /\ w = Deactivate(linked, d, "duplicate")
    <3> DEFINE d == IF MoreAdvanced(r, j, p) THEN p ELSE j
               q == IF MoreAdvanced(r, j, p) THEN j ELSE p
               linked == [ r EXCEPT !.link[<<d, q>>] = "linked",
                                    !.dup = [ c \in Jobs |-> IF c = d \/ dup[c] = d
                                                             THEN q ELSE r.dup[c] ] ]
    <3>1. w = Deactivate(linked, d, "duplicate")
      BY <1>2 DEF LinkDuplicate
    <3>2. DOMAIN linked = {"stage", "dup", "link"} /\ linked.stage = r.stage
      OBVIOUS
    <3> HIDE DEF linked
    <3> QED
      BY <3>1, <3>2
  <2> d \in Jobs
    BY <2>1
  <2>2. Deactivate(linked, d, "duplicate").stage =
          IF CanTransition(r.stage[d], "duplicate")
          THEN [ k \in Jobs |-> IF k = d THEN "duplicate" ELSE r.stage[k] ] ELSE r.stage
    BY <2>1 DEF Deactivate, WithStage
  <2> QED
    BY <2>1, <2>2, RegatingIsLegal DEF LegalMoves
<1> QED
  BY <1>1, <1>2 DEF LinkIfDuplicate

LEMMA ReleasingIsLegal ==
  ASSUME NEW r, NEW p \in Jobs
  PROVE  LegalMoves(r.stage, ReleaseCopies(r, p).stage)
<1>1. ReleaseCopies(r, p).stage =
        [ c \in Jobs |-> IF c \in CopiesOf(p) THEN Regated(r.stage[c]) ELSE r.stage[c] ]
  BY DEF ReleaseCopies
<1> QED
  BY <1>1, RegatingIsLegal DEF LegalMoves

LEMMA CommitIsLegal ==
  ASSUME LinkInv, NEW s \in Sessions, NEW r, IsRows(r), NEW t, Finish(s, r, t),
         LegalMoves(stage, r.stage)
  PROVE  LegalMoves(stage, stage')
  BY Written DEF IsRows

LEMMA MoveIsLegal ==
  ASSUME LinkInv, NEW s \in Sessions, NEW j \in Jobs, NEW to, CanTransition(stage[j], to),
         to # "duplicate", to # NoStage, NEW t, Finish(s, WithStage(Rows(s), j, to), t)
  PROVE  LegalMoves(stage, stage')
<1>1. IsRows(Rows(s)) /\ Rows(s).stage = stage
  BY RowsAre
<1>2. IsRows(WithStage(Rows(s), j, to)) /\ LegalMoves(stage, WithStage(Rows(s), j, to).stage)
  BY <1>1, WithStageIsRows, MovingIsLegal
<1> QED
  BY <1>2, CommitIsLegal

LEMMA UpsertIsLegal ==
  ASSUME LinkInv, NEW s \in Sessions, Upsert(s)
  PROVE  LegalMoves(stage, stage')
<1>1. PICK j, r :
         /\ j \in Jobs
         /\ \E w \in LinkIfDuplicate(r, j, Candidates(j)) :
            /\ r = WithStage(Rows(s), j, "discovered") /\ IsRows(r)
            /\ stage[j] = NoStage /\ IsRows(w) /\ Finish(s, w, Idle)
  BY Inserted
<1> j \in Jobs
  BY <1>1
<1>2. PICK w \in LinkIfDuplicate(r, j, Candidates(j)) : IsRows(w) /\ Finish(s, w, Idle)
  BY <1>1
<1>3. r.stage = [ k \in Jobs |-> IF k = j THEN "discovered" ELSE stage[k] ]
  BY <1>1, RowsAre DEF WithStage, IsRows
<1>4. LegalMoves(r.stage, w.stage)
  <2>1. DOMAIN r = {"stage", "dup", "link"} /\ DOMAIN r.stage = Jobs /\ Candidates(j) \in SUBSET Jobs
    BY <1>1, <1>3 DEF IsRows, Candidates
  <2> QED
    BY <2>1, <1>2, LinkingIsLegal
<1>5. LegalMoves(stage, w.stage)
  BY <1>1, <1>3, <1>4 DEF LegalMoves, CanTransition
<1> QED
  BY <1>2, <1>5, CommitIsLegal

LEMMA RelinkIsLegal ==
  ASSUME LinkInv, NEW s \in Sessions, Relink(s)
  PROVE  LegalMoves(stage, stage')
<1>1. IsRows(Rows(s)) /\ Rows(s).stage = stage /\ LegalMoves(stage, stage)
  BY RowsAre, RegatingIsLegal DEF LegalMoves
<1>2. PICK c, t :
        /\ c \in Jobs
        /\ \/ Finish(s, Rows(s), t)
           \/ \E w \in LinkIfDuplicate(Rows(s), c, Candidates(c)) : IsRows(w) /\ Finish(s, w, t)
  BY Regrouped
<1> c \in Jobs
  BY <1>2
<1>3. ASSUME NEW w \in LinkIfDuplicate(Rows(s), c, Candidates(c)), IsRows(w), Finish(s, w, t)
      PROVE  LegalMoves(stage, stage')
  <2>1. DOMAIN Rows(s) = {"stage", "dup", "link"} /\ DOMAIN Rows(s).stage = Jobs
        /\ Candidates(c) \in SUBSET Jobs
    BY <1>1 DEF IsRows, InOrder, Candidates
  <2>2. LegalMoves(stage, w.stage)
    BY <1>1, <1>3, <2>1, LinkingIsLegal
  <2> QED
    BY <1>3, <2>2, CommitIsLegal
<1> QED
  BY <1>1, <1>2, <1>3, CommitIsLegal

LEMMA ReleaseIsLegal ==
  ASSUME LinkInv, NEW s \in Sessions, Release(s) \/ \E j \in Jobs : Close(s, j)
  PROVE  LegalMoves(stage, stage')
<1>1. /\ IsRows(Rows(s)) /\ Rows(s).stage = stage /\ Rows(s).dup = dup /\ LegalMoves(stage, stage)
      /\ InOrder(stage, dup)
  BY RowsAre, RegatingIsLegal DEF LegalMoves, LinkInv
<1>2. CASE Release(s)
  <2>1. PICK p, t :
           /\ p \in task[s].jobs
           /\ Finish(s, ReleaseCopies(Rows(s), p), t) \/ Finish(s, Rows(s), t)
    BY <1>2 DEF Release
  <2> p \in task[s].jobs
    BY <2>1
  <2>2. p \in Jobs
    BY DEF LinkInv, HeldIsCurrent
  <2>3. IsRows(ReleaseCopies(Rows(s), p)) /\ LegalMoves(stage, ReleaseCopies(Rows(s), p).stage)
    BY <1>1, <2>2, ReleasingIsRows, ReleasingIsLegal
  <2> QED
    BY <1>1, <2>1, <2>3, CommitIsLegal
<1>3. ASSUME NEW j \in Jobs, Close(s, j) PROVE LegalMoves(stage, stage')
  <2> DEFINE r == Deactivate(Rows(s), j, "closed")
             w == ReleaseCopies(r, j)
  <2>1. PICK t : Finish(s, w, t)
    BY <1>3 DEF Close
  <2>2. IsRows(r) /\ r.dup = dup /\ LegalMoves(stage, r.stage)
    BY <1>1, DeactivateIsRows, DeactivatingIsLegal
  <2>3. \A k \in Jobs \ {j} : r.stage[k] = stage[k]
    BY <1>1 DEF Deactivate, WithStage, IsRows
  <2> HIDE DEF r
  <2>4. IsRows(w)
    BY <2>2, ReleasingIsRows
  <2>5. w.stage = [ c \in Jobs |-> IF c \in CopiesOf(j) THEN Regated(r.stage[c]) ELSE r.stage[c] ]
    BY DEF ReleaseCopies
  <2>6. j \notin CopiesOf(j)
    BY <1>1, NoJobAssumption DEF CopiesOf, InOrder
  <2> HIDE DEF w
  <2>7. LegalMoves(stage, w.stage)
    BY <2>2, <2>3, <2>5, <2>6, RegatingIsLegal DEF LegalMoves
  <2> QED
    BY <2>1, <2>4, <2>7, CommitIsLegal
<1> QED
  BY <1>2, <1>3

LEMMA UnlinkIsLegal ==
  ASSUME LinkInv, NEW s \in Sessions, NEW j \in Jobs, Unlink(s, j)
  PROVE  LegalMoves(stage, stage')
<1> DEFINE st == [stage EXCEPT ![j] = IF @ = "duplicate" THEN Regated(@) ELSE @]
           du == [dup EXCEPT ![j] = NoJob]
<1>1. PICK l : Finish(s, [stage |-> st, dup |-> du, link |-> l], Idle)
  BY DEF Unlink
<1>2. InOrder(stage, dup)
  BY DEF LinkInv
<1>3. InOrder(st, du) /\ LegalMoves(stage, st)
  BY <1>2, Regating, RegatingIsLegal DEF InOrder, LegalMoves
<1> HIDE DEF st, du
<1>4. IsRows([stage |-> st, dup |-> du, link |-> l])
  BY <1>3 DEF IsRows
<1> QED
  BY <1>1, <1>3, <1>4, CommitIsLegal

\* The moves of one step, the rejection e-mails aside.
LEMMA NextIsLegal ==
  ASSUME LinkInv, [NextWithScan \/ NextWithCrash]_vars
  PROVE  LegalMoves(stage, stage')
<1>1. CASE stage' = stage
  BY <1>1, RegatingIsLegal DEF LegalMoves
<1>2. ASSUME NEW s \in Sessions, CreateApplication(s) \/ Scan(s) PROVE LegalMoves(stage, stage')
  <2>1. PICK t : Finish(s, Rows(s), t)
    BY <1>2 DEF CreateApplication, Scan
  <2>2. LegalMoves(stage, stage)
    BY RegatingIsLegal DEF LegalMoves
  <2> QED
    BY <2>1, <2>2, RowsAre, CommitIsLegal
<1>3. ASSUME NEW s \in Sessions, NEW j \in Jobs,
             \/ \E to \in MoveStages : Transition(s, j, to)
             \/ Shortlist(s, j) \/ Reopen(s, j) \/ BeginDryRun(s, j) \/ CompleteDryRun(s, j)
      PROVE  LegalMoves(stage, stage')
  <2>1. PICK to, t : /\ to \in MoveStages \cup {"shortlisted", "applying", "validated", Regated("closed")}
                     /\ CanTransition(stage[j], to) /\ Finish(s, WithStage(Rows(s), j, to), t)
    BY <1>3, Reactivations, RegatingIsLegal
       DEF Transition, Shortlist, Reopen, BeginDryRun, CompleteDryRun
  <2>2. to # "duplicate" /\ to # NoStage
    BY <2>1, StagesAreNamed, Regating DEF NoStage
  <2> QED
    BY <2>1, <2>2, MoveIsLegal
<1>4. UNCHANGED vars \/ Crash \/ (\E j \in Refreshable : Refresh(j)) => stage' = stage
  BY DEF vars, db, Crash, Refresh
<1> QED
  BY <1>1, <1>2, <1>3, <1>4, UpsertIsLegal, RelinkIsLegal, ReleaseIsLegal, UnlinkIsLegal
     DEF NextWithScan, NextWithCrash, Next, Work, Continue

\* A rejection mail moves the posting of its application alone.
LEMMA MailMovesOne ==
  ASSUME LinkInv, NEW s \in Sessions, NEW j \in Jobs, RejectionEmail(s, j), NEW k \in Jobs, k # j
  PROVE  CanTransition(stage[k], stage'[k])
<1>1. Finish(s, WithStage(Rows(s), j, "rejected"), Idle)
  BY DEF RejectionEmail
<1>2. IsRows(Rows(s)) /\ Rows(s).stage = stage
  BY RowsAre
<1>3. IsRows(WithStage(Rows(s), j, "rejected"))
  BY <1>2, WithStageIsRows DEF NoStage
<1>4. stage' = WithStage(Rows(s), j, "rejected").stage
  BY <1>1, <1>3, Written DEF IsRows
<1>5. stage'[k] = stage[k]
  BY <1>2, <1>4 DEF WithStage, IsRows
<1> QED
  BY <1>5, RegatingIsLegal

\* While one session works at a time, every stage that a commit writes is one the
\* state machine allows from the stage before, though deactivate and regate write
\* stages themselves, but for the stage a rejection mail writes; with scans, mails and
\* wherever the process dies (dedup.py, inbox_matcher.py).
THEOREM StagesFollow ==
  ASSUME OneSession
  PROVE  FullSpec => StagesFollowMachine
<1>1. ASSUME LinkInv, [NextWithAll]_vars
      PROVE  [\A j \in Jobs : \/ CanTransition(stage[j], stage'[j])
                              \/ \E s \in Sessions : RejectionEmail(s, j)]_vars
  <2>1. CASE [NextWithScan \/ NextWithCrash]_vars
    BY <1>1, <2>1, NextIsLegal DEF LegalMoves
  <2>2. ASSUME NEW s \in Sessions, NEW j \in Jobs, RejectionEmail(s, j)
        PROVE  \A k \in Jobs : \/ CanTransition(stage[k], stage'[k])
                               \/ \E u \in Sessions : RejectionEmail(u, k)
    BY <1>1, <2>2, MailMovesOne
  <2>3. \/ [NextWithScan \/ NextWithCrash]_vars
        \/ \E s \in Sessions, j \in Jobs : RejectionEmail(s, j)
    BY <1>1 DEF NextWithAll, NextWithScan, NextWithMail
  <2> QED
    BY <2>1, <2>2, <2>3
<1>2. FullSpec => []LinkInv
  BY LinkInvHolds
<1> QED
  BY <1>1, <1>2, PTL DEF FullSpec, StagesFollowMachine

-----------------------------------------------------------------------------
(* Copies of a primary that is out *)

\* Nobody points to a posting that is out.
NoneBehind(st, du) == \A j \in Jobs : du[j] # NoJob => st[du[j]] \notin ReleasingStages

\* A release is about one posting, and nobody is behind a posting that is out but
\* the copies that this release is about.
KeepUpInv ==
  /\ LinkNeverOutlivesPrimary
  /\ \A s \in Sessions : task[s].op = "release" => \A a, b \in task[s].jobs : a = b

\* Out for good: a re-grouping makes no primary of a closed posting, but it does not
\* ask whether one was rejected or withdrawn.
OutStages == {"rejected", "withdrawn"}

\* When the turn of a posting that is out for good comes, nothing else stands for its
\* role: no match of it is left.
NoOneElse ==
  \A s \in Sessions : task[s].op = "relink" =>
    \A c \in task[s].jobs : stage[c] \in OutStages => Candidates(c) = {}

LEMMA TodoOps ==
  \A op, jobs : Todo(op, jobs).op \in {op, "idle"} /\ Idle.op = "idle"
  BY DEF Todo, Idle

LEMMA NobodyBehind ==
  ASSUME OneSession, LinkInv, KeepUpInv, NEW s \in Sessions, task[s].op # "release"
  PROVE  NoneBehind(stage, dup)
  BY DEF OneSession, KeepUpInv, LinkNeverOutlivesPrimary, NoneBehind

LEMMA NobodyLeftBehind ==
  ASSUME OneSession, LinkInv, NEW s \in Sessions, NEW r, InOrder(r.stage, r.dup), NEW t,
         Finish(s, r, t), NoneBehind(r.stage, r.dup), t.op # "release"
  PROVE  KeepUpInv'
<1>1. stage' = r.stage /\ dup' = r.dup /\ task' = [task EXCEPT ![s] = t]
  BY Written
<1>2. \A u \in Sessions : task'[u] = t
  BY <1>1 DEF OneSession, LinkInv
<1> QED
  BY <1>1, <1>2 DEF KeepUpInv, LinkNeverOutlivesPrimary, NoneBehind

LEMMA MovingLeavesNone ==
  ASSUME OneSession, LinkInv, KeepUpInv, NEW s \in Sessions, task[s] = Idle, NEW j \in Jobs,
         NEW to, to \notin ReleasingStages, to # "duplicate", to # NoStage,
         NEW t, t.op # "release", Finish(s, WithStage(Rows(s), j, to), t)
  PROVE  KeepUpInv'
<1> DEFINE w == WithStage(Rows(s), j, to)
<1>1. IsRows(w) /\ w.dup = dup
  BY RowsAre, WithStageIsRows
<1>2. w.stage = [ k \in Jobs |-> IF k = j THEN to ELSE stage[k] ]
  BY RowsAre DEF WithStage, IsRows
<1>3. NoneBehind(stage, dup)
  BY TodoOps, NobodyBehind
<1> HIDE DEF w
<1>4. NoneBehind(w.stage, w.dup)
  BY <1>1, <1>2, <1>3 DEF NoneBehind, LinkInv, InOrder
<1> QED
  BY <1>1, <1>4, NobodyLeftBehind DEF IsRows, w

\* A link leads to one of the two postings that are compared, which are not out.
LEMMA LinkingLeavesNone ==
  ASSUME NEW r, IsRows(r), r.dup = dup, NEW j \in Jobs, NoneBehind(r.stage, dup),
         \A k \in Jobs \ {j} : r.stage[k] = stage[k],
         Candidates(j) = {} \/ r.stage[j] \notin ReleasingStages,
         NEW w \in LinkIfDuplicate(r, j, Candidates(j))
  PROVE  NoneBehind(w.stage, w.dup)
<1>1. CASE Candidates(j) = {}
  BY <1>1 DEF LinkIfDuplicate
<1>2. CASE Candidates(j) # {}
  <2>1. PICK p \in Candidates(j) : w = LinkDuplicate(r, j, p)
    BY <1>2 DEF LinkIfDuplicate
  <2>2. p \in Jobs /\ r.stage[p] \notin ReleasingStages /\ r.stage[j] \notin ReleasingStages
    BY <1>2 DEF Candidates
  <2>3. PICK d, q, linked :
          /\ d \in Jobs /\ q \in Jobs
          /\ q \in {j, p} /\ DOMAIN linked = {"stage", "dup", "link"} /\ linked.stage = r.stage
          /\ linked.dup = [ c \in Jobs |-> IF c = d \/ dup[c] = d THEN q ELSE dup[c] ]
          /\ w = Deactivate(linked, d, "duplicate")
    <3> DEFINE d == IF MoreAdvanced(r, j, p) THEN p ELSE j
               q == IF MoreAdvanced(r, j, p) THEN j ELSE p
               linked == [ r EXCEPT !.link[<<d, q>>] = "linked",
                                    !.dup = [ c \in Jobs |-> IF c = d \/ dup[c] = d
                                                             THEN q ELSE r.dup[c] ] ]
    <3>1. w = Deactivate(linked, d, "duplicate")
      BY <2>1 DEF LinkDuplicate
    <3>2. /\ DOMAIN linked = {"stage", "dup", "link"} /\ linked.stage = r.stage
          /\ linked.dup = [ c \in Jobs |-> IF c = d \/ dup[c] = d THEN q ELSE dup[c] ]
      BY DEF IsRows
    <3>3. d \in Jobs /\ q \in Jobs /\ q \in {j, p}
      BY <2>2
    <3> HIDE DEF linked, d, q
    <3> QED
      BY <3>1, <3>2, <3>3
  <2> d \in Jobs /\ q \in Jobs
    BY <2>3
  <2>4. /\ w.dup = linked.dup
        /\ \A k \in Jobs : w.stage[k] = r.stage[k] \/ w.stage[k] = "duplicate"
    BY <2>3 DEF Deactivate, WithStage
  <2>5. r.stage[q] \notin ReleasingStages
    BY <2>2, <2>3
  <2>6. ASSUME NEW c \in Jobs, w.dup[c] # NoJob
        PROVE  w.dup[c] \in Jobs /\ r.stage[w.dup[c]] \notin ReleasingStages
    BY <2>3, <2>4, <2>5, <2>6 DEF NoneBehind, IsRows, InOrder
  <2> QED
    BY <2>4, <2>6 DEF NoneBehind, ReleasingStages
<1> QED
  BY <1>1, <1>2

\* Once its copies are released nobody is behind p.
LEMMA ReleasingLeavesNone ==
  ASSUME NEW r, IsRows(r), r.dup = dup, NEW p \in Jobs,
         \A j \in Jobs : dup[j] # NoJob /\ r.stage[dup[j]] \in ReleasingStages => dup[j] = p,
         NEW w, w = ReleaseCopies(r, p)
  PROVE  NoneBehind(w.stage, w.dup)
<1>1. /\ w.stage = [ c \in Jobs |-> IF c \in CopiesOf(p) THEN Regated(r.stage[c]) ELSE r.stage[c] ]
      /\ w.dup = [ c \in Jobs |-> IF c \in CopiesOf(p) THEN NoJob ELSE dup[c] ]
  BY DEF ReleaseCopies
<1>2. \A k \in Jobs : w.stage[k] \in ReleasingStages => r.stage[k] \in ReleasingStages
  BY <1>1 DEF Regated, InactiveStages, ReleasingStages
<1>3. ASSUME NEW j \in Jobs, w.dup[j] # NoJob PROVE w.stage[w.dup[j]] \notin ReleasingStages
  <2>1. w.dup[j] = dup[j] /\ dup[j] \in Jobs /\ dup[j] # p
    BY <1>1, <1>3 DEF CopiesOf, IsRows, InOrder
  <2> QED
    BY <2>1, <1>2, <1>3
<1> QED
  BY <1>3 DEF NoneBehind

LEMMA TransitionKeepsUp ==
  ASSUME OneSession, LinkInv, KeepUpInv, NEW s \in Sessions, NEW j \in Jobs,
         NEW to \in MoveStages, Transition(s, j, to)
  PROVE  KeepUpInv'
<1>1. to # "duplicate" /\ to # NoStage /\ task[s] = Idle
  BY StagesAreNamed DEF Transition
<1>2. CASE to \notin ReleasingStages
  <2>1. Finish(s, WithStage(Rows(s), j, to), Idle)
    BY <1>2 DEF Transition
  <2> QED
    BY <2>1, <1>1, <1>2, TodoOps, MovingLeavesNone
<1>3. CASE to \in ReleasingStages
  <2> DEFINE w == WithStage(Rows(s), j, to)
             t == Todo("release", {j})
  <2>1. Finish(s, w, t)
    BY <1>3 DEF Transition
  <2>2. t = [op |-> "release", jobs |-> {j}]
    BY DEF Todo
  <2>3. IsRows(w) /\ w.dup = dup
    BY <1>1, RowsAre, WithStageIsRows
  <2>4. w.stage = [ k \in Jobs |-> IF k = j THEN to ELSE stage[k] ]
    BY RowsAre DEF WithStage, IsRows
  <2>5. NoneBehind(stage, dup)
    BY <1>1, TodoOps, NobodyBehind
  <2> HIDE DEF w, t
  <2>6. stage' = w.stage /\ dup' = dup /\ task' = [task EXCEPT ![s] = t]
    BY <2>1, <2>3, Written DEF IsRows
  <2>7. \A u \in Sessions : task'[u] = t
    BY <2>6 DEF OneSession, LinkInv
  <2>8. \A k \in Jobs : dup[k] # NoJob /\ w.stage[dup[k]] \in ReleasingStages => dup[k] = j
    BY <2>4, <2>5 DEF NoneBehind, LinkInv, InOrder
  <2> QED
    BY <2>2, <2>6, <2>7, <2>8 DEF KeepUpInv, LinkNeverOutlivesPrimary
<1> QED
  BY <1>2, <1>3

LEMMA LinkingKeepsUp ==
  ASSUME OneSession, LinkInv, KeepUpInv, NoOneElse, NEW s \in Sessions, Upsert(s) \/ Relink(s)
  PROVE  KeepUpInv'
<1>1. CASE Upsert(s)
  <2>1. PICK j, r :
           /\ j \in Jobs
           /\ \E w \in LinkIfDuplicate(r, j, Candidates(j)) :
              /\ r = WithStage(Rows(s), j, "discovered") /\ IsRows(r) /\ r.dup = dup
              /\ IsRows(w) /\ Finish(s, w, Idle)
    BY <1>1, Inserted
  <2> j \in Jobs
    BY <2>1
  <2>2. PICK w \in LinkIfDuplicate(r, j, Candidates(j)) : IsRows(w) /\ Finish(s, w, Idle)
    BY <2>1
  <2>3. r.stage = [ k \in Jobs |-> IF k = j THEN "discovered" ELSE stage[k] ]
    BY <2>1, RowsAre DEF WithStage, IsRows
  <2>4. NoneBehind(stage, dup)
    BY <1>1, TodoOps, NobodyBehind DEF Upsert
  <2>5. NoneBehind(r.stage, dup)
    BY <2>3, <2>4 DEF NoneBehind, LinkInv, InOrder, ReleasingStages
  <2>6. r.stage[j] \notin ReleasingStages /\ \A k \in Jobs \ {j} : r.stage[k] = stage[k]
    BY <2>3 DEF ReleasingStages
  <2>7. NoneBehind(w.stage, w.dup)
    BY <2>1, <2>2, <2>5, <2>6, LinkingLeavesNone
  <2> QED
    BY <2>2, <2>7, TodoOps, NobodyLeftBehind DEF IsRows
<1>2. CASE Relink(s)
  <2>1. task[s].op = "relink" /\ NoneBehind(stage, dup)
    BY <1>2, NobodyBehind DEF Relink
  <2>2. IsRows(Rows(s)) /\ Rows(s).dup = dup /\ Rows(s).stage = stage
    BY RowsAre
  <2>3. PICK c \in task[s].jobs :
           /\ c \in Jobs
           /\ \/ Finish(s, Rows(s), Left(s, c))
              \/ \E w \in LinkIfDuplicate(Rows(s), c, Candidates(c)) :
                   /\ stage[c] \notin InactiveStages
                   /\ IsRows(w) /\ Finish(s, w, Left(s, c))
    BY <1>2, Regrouped
  <2>4. Left(s, c).op # "release"
    BY TodoOps DEF Left
  <2>5. CASE Finish(s, Rows(s), Left(s, c))
    BY <2>1, <2>2, <2>4, <2>5, NobodyLeftBehind DEF IsRows
  <2>6. ASSUME NEW w \in LinkIfDuplicate(Rows(s), c, Candidates(c)),
               stage[c] \notin InactiveStages, IsRows(w), Finish(s, w, Left(s, c))
        PROVE  KeepUpInv'
    <3>1. Candidates(c) = {} \/ stage[c] \notin ReleasingStages
      BY <2>1, <2>6 DEF NoOneElse, OutStages, ReleasingStages, InactiveStages
    <3>2. NoneBehind(w.stage, w.dup)
      BY <2>1, <2>2, <2>3, <2>6, <3>1, LinkingLeavesNone
    <3> QED
      BY <2>4, <2>6, <3>2, NobodyLeftBehind DEF IsRows
  <2> QED
    BY <2>3, <2>5, <2>6
<1> QED
  BY <1>1, <1>2

LEMMA ReleasingKeepsUp ==
  ASSUME OneSession, LinkInv, KeepUpInv, NEW s \in Sessions, Release(s) \/ \E j \in Jobs : Close(s, j)
  PROVE  KeepUpInv'
<1>1. IsRows(Rows(s)) /\ Rows(s).stage = stage /\ Rows(s).dup = dup /\ InOrder(stage, dup)
  BY RowsAre DEF LinkInv
<1>2. CASE Release(s)
  <2>1. PICK p \in task[s].jobs :
          IF stage[p] \in ReleasingStages
          THEN Finish(s, ReleaseCopies(Rows(s), p), Todo("relink", CopiesOf(p)))
          ELSE Finish(s, Rows(s), Idle)
    BY <1>1, <1>2 DEF Release
  <2>2. p \in Jobs
    BY DEF LinkInv, HeldIsCurrent
  <2>3. \A j \in Jobs : dup[j] # NoJob /\ stage[dup[j]] \in ReleasingStages => dup[j] = p
    BY <1>2 DEF KeepUpInv, LinkNeverOutlivesPrimary, OneSession, Release
  <2>4. CASE stage[p] \in ReleasingStages
    <3> DEFINE w == ReleaseCopies(Rows(s), p)
    <3>1. Finish(s, w, Todo("relink", CopiesOf(p)))
      BY <2>1, <2>4
    <3>2. IsRows(w)
      BY <1>1, <2>2, ReleasingIsRows
    <3>3. NoneBehind(w.stage, w.dup)
      BY <1>1, <2>2, <2>3, ReleasingLeavesNone
    <3> HIDE DEF w
    <3> QED
      BY <3>1, <3>2, <3>3, TodoOps, NobodyLeftBehind DEF IsRows
  <2>5. CASE stage[p] \notin ReleasingStages
    <3>1. NoneBehind(stage, dup)
      BY <2>3, <2>5 DEF NoneBehind
    <3> QED
      BY <1>1, <2>1, <2>5, <3>1, TodoOps, NobodyLeftBehind
  <2> QED
    BY <2>4, <2>5
<1>3. ASSUME NEW j \in Jobs, Close(s, j) PROVE KeepUpInv'
  <2> DEFINE r == Deactivate(Rows(s), j, "closed")
             w == ReleaseCopies(r, j)
  <2>1. Finish(s, w, Todo("relink", CopiesOf(j)))
    BY <1>3 DEF Close
  <2>2. IsRows(r) /\ r.dup = dup
    BY <1>1, DeactivateIsRows
  <2>3. \A k \in Jobs \ {j} : r.stage[k] = stage[k]
    BY <1>1 DEF Deactivate, WithStage, IsRows
  <2> HIDE DEF r
  <2>4. NoneBehind(stage, dup)
    BY <1>3, TodoOps, NobodyBehind DEF Close
  <2>5. \A k \in Jobs : dup[k] # NoJob /\ r.stage[dup[k]] \in ReleasingStages => dup[k] = j
    BY <1>1, <2>3, <2>4 DEF NoneBehind, InOrder
  <2>6. IsRows(w) /\ NoneBehind(w.stage, w.dup)
    BY <2>2, <2>5, ReleasingIsRows, ReleasingLeavesNone
  <2> HIDE DEF w
  <2> QED
    BY <2>1, <2>6, TodoOps, NobodyLeftBehind DEF IsRows
<1> QED
  BY <1>2, <1>3

LEMMA UnlinkKeepsUp ==
  ASSUME OneSession, LinkInv, KeepUpInv, NEW s \in Sessions, NEW j \in Jobs, Unlink(s, j)
  PROVE  KeepUpInv'
<1> DEFINE st == [stage EXCEPT ![j] = IF @ = "duplicate" THEN Regated(@) ELSE @]
           du == [dup EXCEPT ![j] = NoJob]
<1>1. PICK l : Finish(s, [stage |-> st, dup |-> du, link |-> l], Idle)
  BY DEF Unlink
<1>2. InOrder(stage, dup) /\ NoneBehind(stage, dup)
  BY TodoOps, NobodyBehind DEF LinkInv, Unlink
<1>3. InOrder(st, du)
  BY <1>2, Regating DEF InOrder
<1>4. NoneBehind(st, du)
  <2>1. \A k \in Jobs : st[k] \in ReleasingStages => stage[k] \in ReleasingStages
    BY <1>2 DEF InOrder, Regated, InactiveStages, ReleasingStages
  <2>2. \A k \in Jobs : du[k] # NoJob => du[k] = dup[k] /\ dup[k] \in Jobs
    BY <1>2 DEF InOrder
  <2> QED
    BY <2>1, <2>2, <1>2 DEF NoneBehind
<1> HIDE DEF st, du
<1>5. [stage |-> st, dup |-> du, link |-> l].stage = st /\ [stage |-> st, dup |-> du, link |-> l].dup = du
  OBVIOUS
<1> QED
  BY <1>1, <1>3, <1>4, <1>5, TodoOps, NobodyLeftBehind

\* What a step neither moves nor links leaves every copy where it is.
LEMMA QuietKeepsUp ==
  ASSUME OneSession, LinkInv, KeepUpInv,
         \/ UNCHANGED <<stage, dup, task>>
         \/ \E s \in Sessions : CreateApplication(s) \/ Scan(s)
  PROVE  KeepUpInv'
<1>1. CASE UNCHANGED <<stage, dup, task>>
  BY <1>1 DEF KeepUpInv, LinkNeverOutlivesPrimary
<1>2. ASSUME NEW s \in Sessions, CreateApplication(s) \/ Scan(s) PROVE KeepUpInv'
  <2>1. PICK t : Finish(s, Rows(s), t) /\ t.op # "release"
    BY <1>2, TodoOps DEF CreateApplication, Scan
  <2>2. NoneBehind(stage, dup)
    BY <1>2, TodoOps, NobodyBehind DEF CreateApplication, Scan
  <2> QED
    BY <2>1, <2>2, RowsAre, NobodyLeftBehind DEF IsRows
<1> QED
  BY <1>1, <1>2

LEMMA NextKeepsUp ==
  ASSUME OneSession, LinkInv, KeepUpInv, NoOneElse, [NextWithScan]_vars
  PROVE  KeepUpInv'
<1>1. CASE UNCHANGED vars \/ \E j \in Refreshable : Refresh(j)
  BY <1>1, QuietKeepsUp DEF vars, Refresh
<1>2. ASSUME NEW s \in Sessions, NEW j \in Jobs,
             Shortlist(s, j) \/ Reopen(s, j) \/ BeginDryRun(s, j) \/ CompleteDryRun(s, j)
      PROVE  KeepUpInv'
  <2>1. PICK to, t :
           /\ to \in {"shortlisted", "applying", "validated", "discovered"}
           /\ task[s] = Idle /\ t.op # "release" /\ Finish(s, WithStage(Rows(s), j, to), t)
    BY <1>2, TodoOps DEF Shortlist, Reopen, BeginDryRun, CompleteDryRun, Regated, InactiveStages
  <2> to \in {"shortlisted", "applying", "validated", "discovered"}
    BY <2>1
  <2>2. to \notin ReleasingStages /\ to # "duplicate" /\ to # NoStage
    BY DEF ReleasingStages, NoStage
  <2> QED
    BY <2>1, <2>2, MovingLeavesNone
<1> QED
  BY <1>1, <1>2, TransitionKeepsUp, LinkingKeepsUp, ReleasingKeepsUp, UnlinkKeepsUp, QuietKeepsUp
     DEF NextWithScan, Next, Work, Continue

\* "A link never outlives its primary" (dedup.py:22) as long as a re-grouping meets no
\* rejected or withdrawn copy that something else could stand for; with scans, while
\* one session works at a time and lives to make its commits.
THEOREM ReleasesKeepUp ==
  ASSUME OneSession
  PROVE  ScanSpec /\ []NoOneElse => []LinkNeverOutlivesPrimary
<1>1. Init => KeepUpInv
  BY TodoOps DEF Init, KeepUpInv, LinkNeverOutlivesPrimary
<1>2. LinkInv /\ KeepUpInv /\ NoOneElse /\ [NextWithScan]_vars => KeepUpInv'
  BY NextKeepsUp
<1>3. [NextWithScan]_vars => [NextWithAll]_vars
  BY DEF NextWithAll
<1>4. KeepUpInv => LinkNeverOutlivesPrimary
  BY DEF KeepUpInv
<1>5. FullSpec => []LinkInv
  BY LinkInvHolds
<1> QED
  BY <1>1, <1>2, <1>3, <1>4, <1>5, PTL DEF FullSpec, ScanSpec

-----------------------------------------------------------------------------
(* Two postings: whoever is re-grouped has been released by the other one *)

RegroupedInv ==
  \A s \in Sessions : task[s].op = "relink" =>
    \E p \in Jobs : stage[p] \in ReleasingStages /\ p \notin task[s].jobs

LEMMA OneOfTwo ==
  ASSUME NumJobs <= 2, LinkInv, RegroupedInv
  PROVE  /\ NoOneElse
         /\ \A s \in Sessions : task[s].op = "relink" => \A c \in task[s].jobs : Candidates(c) = {}
<1> SUFFICES ASSUME NEW s \in Sessions, task[s].op = "relink", NEW c \in task[s].jobs
             PROVE  Candidates(c) = {}
  BY DEF NoOneElse
<1>1. \A x \in Jobs : x = 1 \/ x = 2
  BY NumJobsAssumption DEF Jobs
<1>2. PICK p \in Jobs : stage[p] \in ReleasingStages /\ p # c
  BY DEF RegroupedInv
<1>3. c \in Jobs
  BY DEF LinkInv, HeldIsCurrent
<1> QED
  BY <1>1, <1>2, <1>3 DEF Candidates

LEMMA OtherTask ==
  ASSUME OneSession, LinkInv, NEW s \in Sessions, NEW t, task' = [task EXCEPT ![s] = t],
         t.op = "relink" => \E p \in Jobs : stage'[p] \in ReleasingStages /\ p \notin t.jobs
  PROVE  RegroupedInv'
<1>1. \A u \in Sessions : task'[u] = t
  BY DEF OneSession, LinkInv
<1> QED
  BY <1>1 DEF RegroupedInv

LEMMA ReleasedTask ==
  ASSUME OneSession, LinkInv, NEW s \in Sessions, NEW p \in Jobs, NEW C, p \notin C,
         stage'[p] \in ReleasingStages, task' = [task EXCEPT ![s] = Todo("relink", C)]
  PROVE  RegroupedInv'
<1> DEFINE t == Todo("relink", C)
<1>1. p \notin t.jobs
  BY TodoJobs
<1> HIDE DEF t
<1> QED
  BY <1>1, OtherTask DEF t

LEMMA RegroupedStep ==
  ASSUME OneSession, NumJobs <= 2, LinkInv, RegroupedInv, NEW s \in Sessions, Relink(s)
  PROVE  RegroupedInv'
<1>1. IsRows(Rows(s)) /\ Rows(s).stage = stage /\ InOrder(stage, dup) /\ Rows(s).dup = dup
  BY RowsAre DEF LinkInv
<1>2. PICK c \in task[s].jobs :
         \/ Finish(s, Rows(s), Left(s, c))
         \/ \E w \in LinkIfDuplicate(Rows(s), c, Candidates(c)) : Finish(s, w, Left(s, c))
  BY Regrouped
<1>3. Candidates(c) = {} /\ task[s].op = "relink"
  BY OneOfTwo DEF Relink
<1>4. Finish(s, Rows(s), Left(s, c))
  BY <1>2, <1>3 DEF LinkIfDuplicate
<1>5. stage' = stage /\ task' = [task EXCEPT ![s] = Left(s, c)]
  BY <1>1, <1>4, Written
<1>6. PICK p \in Jobs : stage[p] \in ReleasingStages /\ p \notin task[s].jobs
  BY <1>3 DEF RegroupedInv
<1>7. p \notin Left(s, c).jobs
  BY <1>6, TodoJobs DEF Left
<1> QED
  BY <1>5, <1>6, <1>7, OtherTask

LEMMA ReleasedStep ==
  ASSUME OneSession, LinkInv, RegroupedInv, NEW s \in Sessions, Release(s) \/ \E j \in Jobs : Close(s, j)
  PROVE  RegroupedInv'
<1>1. IsRows(Rows(s)) /\ Rows(s).stage = stage /\ InOrder(stage, dup) /\ Rows(s).dup = dup
      /\ \A p \in Jobs : p \notin CopiesOf(p)
  BY RowsAre, NoJobAssumption DEF LinkInv, InOrder, CopiesOf
<1>2. CASE Release(s)
  <2>1. PICK p \in task[s].jobs :
          IF stage[p] \in ReleasingStages
          THEN Finish(s, ReleaseCopies(Rows(s), p), Todo("relink", CopiesOf(p)))
          ELSE Finish(s, Rows(s), Idle)
    BY <1>1, <1>2 DEF Release
  <2>2. p \in Jobs
    BY DEF LinkInv, HeldIsCurrent
  <2>3. CASE stage[p] \in ReleasingStages
    <3> DEFINE w == ReleaseCopies(Rows(s), p)
    <3>1. Finish(s, w, Todo("relink", CopiesOf(p)))
      BY <2>1, <2>3
    <3>2. IsRows(w)
      BY <1>1, <2>2, ReleasingIsRows
    <3>3. w.stage[p] = stage[p]
      BY <1>1, <2>2 DEF ReleaseCopies
    <3> HIDE DEF w
    <3>4. stage' = w.stage /\ task' = [task EXCEPT ![s] = Todo("relink", CopiesOf(p))]
      BY <3>1, <3>2, Written DEF IsRows
    <3> QED
      BY <1>1, <2>2, <2>3, <3>3, <3>4, ReleasedTask
  <2>4. CASE stage[p] \notin ReleasingStages
    <3>1. task' = [task EXCEPT ![s] = Idle]
      BY <1>1, <2>1, <2>4, Written
    <3> QED
      BY <3>1, TodoOps, OtherTask
  <2> QED
    BY <2>3, <2>4
<1>3. ASSUME NEW j \in Jobs, Close(s, j) PROVE RegroupedInv'
  <2> DEFINE r == Deactivate(Rows(s), j, "closed")
             w == ReleaseCopies(r, j)
  <2>1. Finish(s, w, Todo("relink", CopiesOf(j))) /\ CanTransition(stage[j], "closed")
    BY <1>3 DEF Close
  <2>2. IsRows(r) /\ r.dup = dup
    BY <1>1, DeactivateIsRows
  <2>3. r.stage[j] = "closed"
    BY <1>1, <2>1, WithStageIsRows DEF Deactivate, NoStage
  <2> HIDE DEF r
  <2>4. IsRows(w)
    BY <2>2, ReleasingIsRows
  <2>5. w.stage[j] = "closed"
    BY <1>1, <2>3 DEF ReleaseCopies
  <2> HIDE DEF w
  <2>6. stage' = w.stage /\ task' = [task EXCEPT ![s] = Todo("relink", CopiesOf(j))]
    BY <2>1, <2>4, Written DEF IsRows
  <2>7. stage'[j] \in ReleasingStages
    BY <2>5, <2>6 DEF ReleasingStages
  <2> QED
    BY <1>1, <2>6, <2>7, ReleasedTask
<1> QED
  BY <1>2, <1>3

LEMMA OtherSteps ==
  ASSUME OneSession, LinkInv, NEW s \in Sessions, NEW t, t.op # "relink", NEW r, Finish(s, r, t)
  PROVE  RegroupedInv'
  BY OtherTask DEF Finish

LEMMA NextRegrouped ==
  ASSUME OneSession, NumJobs <= 2, LinkInv, RegroupedInv, [Next]_vars
  PROVE  RegroupedInv'
<1>1. CASE UNCHANGED vars \/ \E j \in Refreshable : Refresh(j)
  BY <1>1 DEF vars, Refresh, RegroupedInv
<1>2. ASSUME NEW s \in Sessions, Upsert(s) \/ CreateApplication(s) PROVE RegroupedInv'
  BY <1>2, TodoOps, OtherSteps DEF Upsert, CreateApplication
<1>3. ASSUME NEW s \in Sessions, NEW j \in Jobs,
             \/ \E to \in MoveStages : Transition(s, j, to)
             \/ Shortlist(s, j) \/ Reopen(s, j) \/ BeginDryRun(s, j) \/ CompleteDryRun(s, j)
             \/ Unlink(s, j)
      PROVE  RegroupedInv'
  <2>1. PICK t, r : t.op # "relink" /\ Finish(s, r, t)
    BY <1>3, TodoOps DEF Transition, Shortlist, Reopen, BeginDryRun, CompleteDryRun, Unlink
  <2> QED
    BY <2>1, OtherSteps
<1> QED
  BY <1>1, <1>2, <1>3, RegroupedStep, ReleasedStep DEF Next, Work, Continue

\* With two postings nothing else is asked: a copy's primary is never out but while its
\* own release is under way (dedup.py:22).
THEOREM PairsKeepUp ==
  ASSUME OneSession, NumJobs <= 2
  PROVE  Spec => []LinkNeverOutlivesPrimary
<1>1. Init => RegroupedInv
  BY TodoOps DEF Init, RegroupedInv
<1>2. LinkInv /\ RegroupedInv /\ [Next]_vars => RegroupedInv'
  BY NextRegrouped
<1>3. [Next]_vars => [NextWithAll]_vars /\ [NextWithScan]_vars
  BY DEF NextWithAll, NextWithScan
<1>4. LinkInv /\ RegroupedInv => NoOneElse
  BY OneOfTwo
<1>5. FullSpec => []LinkInv
  BY LinkInvHolds
<1>6. ScanSpec /\ []NoOneElse => []LinkNeverOutlivesPrimary
  BY ReleasesKeepUp
<1> QED
  BY <1>1, <1>2, <1>3, <1>4, <1>5, <1>6, PTL DEF FullSpec, ScanSpec, Spec

===============================================================================
