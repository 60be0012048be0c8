-------------------------- MODULE ImprovementKernel --------------------------
(***************************************************************************)
(* The self-improvement kernel (v2/improvement_kernel and "hunterx         *)
(* improve"): failed runs are grouped into defect clusters, each open       *)
(* cluster yields a challenger (the champion's harness with one patch), a   *)
(* tournament on the golden cases compares challengers with the champion    *)
(* and a gate promotes or rejects them.  The steps read the database afresh *)
(* and may run in any order, as the CLI's commands do; "improve run" is one  *)
(* order of them.  Only the tournament keeps what it read across commits.   *)
(*                                                                          *)
(* A harness is the set of patches it holds, a run is the defect it shows,  *)
(* scores are in units of 1/10000 and are those of the heuristic judge (no   *)
(* local language model answers).  Latencies, costs, texts and the          *)
(* occurrence counts (which count the same run again in every cycle and     *)
(* only order the synthesis) are left out: synthesis takes any open cluster. *)
(***************************************************************************)
EXTENDS Integers, Sequences, FiniteSets, FiniteSetsExt

CONSTANTS
  Procs,        \* processes that may run "hunterx improve" at the same time
  Projects,     \* the improved systems
  Traced,       \* pairs of a project and a defect that its traced runs may show
  LastErrors,   \* what the error of a failed application may say: "unmatched" (fields),
                \* "bad_location", "cpa" (a credential), "other"
  Seeded,       \* the audit defects that are seeded, of those in the code
  MaxVersions   \* bound: agent versions that are ever made

VARIABLES
  versions,  \* the agent versions in order of creation
  clusters,  \* the defect clusters
  runs,      \* per project: defects of graded or failed runs of the last 48 h
  traces,    \* per project: defects of runs that nobody graded yet
  apps,      \* a failed application that was not recorded as a run yet
  records,   \* the promotion records
  pc,        \* per process: where its tournament stands
  tour       \* per process: the tournament under way

vars == <<versions, clusters, runs, traces, apps, records, pc, tour>>

Statuses == {"candidate", "champion", "canary", "rejected", "rolled_back"}
Steps == {"idle", "play", "recorded"}
NoTour == [project |-> "none", champion |-> 0, queue |-> {}, measured |-> << >>]

-----------------------------------------------------------------------------
(* Golden cases and what a harness scores on them *)

\* How many golden cases of each kind a project has.  "plain": a form that is
\* not Ashby's; "skipped": a posting the agent must not apply to.
Golden(p) ==
  CASE p = "hunterxjob" -> [ashby |-> 1, skipped |-> 1, plain |-> 10]
    [] p = "allo"       -> [plain |-> 28]
    [] p = "agent_gang" -> [plain |-> 3]
    [] p = "pedit"      -> [edit |-> 24]
    [] p = "fidelis"    -> [image |-> 24]

\* The defects of a sandboxed application.  The first champion of every project
\* keeps its selectors outside "global" and the platforms, where the sandbox looks.
FormDefects(kind, patches) ==
  CASE kind = "ashby"   -> {"fill_location" : x \in {"location"} \ patches}
                           \cup {"attach_resume" : x \in {"resume"} \ patches}
    [] kind = "skipped" -> {}
    [] OTHER            -> {"attach_resume" : x \in {"resume"} \ patches}

\* The defects of a sandboxed edit: the worst golden case overflows by 0.35 pt
\* and misses its font by 0.10 (units of 1/100), within the limits even unpatched.
EditDefects(patches) ==
  LET overflow == 35  distance == 10
  IN {d \in {"overflow"} : "wrap" \notin patches /\ overflow > 50}
     \cup {d \in {"font"} : "font" \notin patches /\ distance > 15}

Failures(kind, patches) ==
  IF kind = "edit" THEN EditDefects(patches) ELSE FormDefects(kind, patches)

\* Tier 1: the defects that stop a grading with 0.
Invariants == {"unverified", "dry_run_submitted", "no_receipt", "secret", "california",
               "corrupted"}

\* Tier 2 sees no field report in these runs and gives full marks.
DomainScore == 10000

\* Tier 3 without a language model: what was completed, correct, grounded, done
\* with the right tools (an error that names a selector costs more) and safe.
JudgeScore(defects) ==
  CASE defects = {}                 -> 9800
    [] "attach_resume" \in defects  -> 6900
    [] OTHER                        -> 7425

\* An image run is graded from values that the sandbox does not write: the defaults.
ImageScore == 9720

Graded(kind, defects) ==
  IF kind = "image" THEN ImageScore
  ELSE IF defects \cap Invariants # {} THEN 0
  ELSE (4 * DomainScore + 6 * JudgeScore(defects)) \div 10

\* Every golden case scores above 7500, but the judge fails a run below 7500.
Fails(kind, defects) == kind # "image" /\ JudgeScore(defects) < 7500

Score(p, patches) ==
  [kind \in DOMAIN Golden(p) |-> Graded(kind, Failures(kind, patches))]

\* The failed runs a benchmark leaves behind, by their earliest failing span.
BenchmarkDefects(p, patches) ==
  {IF "fill_location" \in Failures(kind, patches) THEN "fill_location"
   ELSE "attach_resume" :
     kind \in {k \in DOMAIN Golden(p) : Fails(k, Failures(k, patches))}}

\* Adapters that grade a trace themselves, on whether it was safe, smooth and
\* natural: what makes its run a success.
AlloVerdict(trace) == trace.safe /\ trace.smooth /\ trace.natural
ImageVerdict(trace) == trace.safe /\ trace.smooth /\ trace.natural
PdfVerdict(trace) == trace.safe /\ trace.smooth

-----------------------------------------------------------------------------
(* The promotion gate *)

Kinds(p) == DOMAIN Golden(p)
Total(p, value) == MapThenSumSet(LAMBDA k : value[k] * Golden(p)[k], Kinds(p))

Magnitude(x) == IF x < 0 THEN -x ELSE x

\* Twice the rank that a difference has among the nonzero ones, ties averaged.
TwiceRank(p, diff, kind) ==
  1 + Total(p, [k \in Kinds(p) |-> IF diff[k] = 0 THEN 0
                          ELSE IF Magnitude(diff[k]) < Magnitude(diff[kind]) THEN 2
                          ELSE IF Magnitude(diff[k]) = Magnitude(diff[kind]) THEN 1 ELSE 0])

\* Wilcoxon's signed-rank test at p < 0.05, in whole numbers.
Significant(p, diff) ==
  LET m == Total(p, [k \in Kinds(p) |-> IF diff[k] = 0 THEN 0 ELSE 1])
      up == Total(p, [k \in Kinds(p) |-> IF diff[k] > 0 THEN TwiceRank(p, diff, k) ELSE 0])
      down == Total(p, [k \in Kinds(p) |-> IF diff[k] < 0 THEN TwiceRank(p, diff, k) ELSE 0])
      centred == 2 * Min({up, down}) - m * (m + 1) + 2
  IN IF m < 5 THEN m > 0 /\ down = 0
     ELSE 1000 * centred * centred > 2561 * m * (m + 1) * (2 * m + 1)

Difference(champion, challenger) ==
  [k \in DOMAIN champion |-> challenger[k] - champion[k]]

Regresses(champion, challenger) ==
  \E k \in DOMAIN champion : champion[k] >= 7000 /\ champion[k] - challenger[k] > 500

Superior(p, champion, challenger) ==
  LET diff == Difference(champion, challenger)
      n == Total(p, [k \in Kinds(p) |-> 1])
      gain == Total(p, [k \in Kinds(p) |-> diff[k]])
  IN /\ gain > 50 * n
     /\ \/ Significant(p, diff)
        \/ n >= 4 /\ gain >= 200 * n /\ \A k \in DOMAIN diff : diff[k] >= 0

\* Mutant for NeverWorse: as good as the champion is good enough.
AsGood(p, champion, challenger) == ~Regresses(champion, challenger)

Promotes(p, champion, challenger) ==
  ~Regresses(champion, challenger) /\ Superior(p, champion, challenger)

-----------------------------------------------------------------------------
(* Versions and clusters *)

Of(p) == {v \in DOMAIN versions : versions[v].project = p}
With(p, status) == {v \in Of(p) : versions[v].status = status}
Champions(p) == With(p, "champion")
TheChampion(p) == CHOOSE v \in Champions(p) : TRUE

\* get_current_champion raises when there are two, and makes the baseline when
\* there is none.
Readable(p) == Cardinality(Champions(p)) = 1
Baseline(p) == [project |-> p, patches |-> {}, status |-> "champion"]

SeedNames(p) ==
  Seeded \cap IF p = "pedit" THEN {"overflow", "font", "drift"}
              ELSE {"bad_location", "cpa", "ashby_selector", "prescreen"}

\* The patch for a defect, by the first key word that its code or its signature
\* contains: the prescreen seed names a location policy and gets the location patch.
\* (A safety failure without a credential has none; no run here shows one.)
HarnessPatch(name) ==
  CASE name \in {"bad_location", "ashby_selector", "prescreen", "fill_location"} -> "location"
    [] name \in {"attach_resume", "resume_timeout"} -> "resume"
    [] name = "first_name" -> "names"
    [] name = "cpa"        -> "guard"
    [] name = "unmatched"  -> "field"
    [] OTHER               -> "routing"

TuningPatch(name) ==
  CASE name = "font"  -> "font"
    [] name = "drift" -> "tracking"
    [] OTHER          -> "wrap"

PatchFor(p, name) ==
  CASE p = "pedit"   -> TuningPatch(name)
    [] p = "fidelis" -> "profile"
    [] OTHER         -> HarnessPatch(name)

\* apply_patch merges lists and replaces maps: two patches of selectors.global
\* do not add up.
GlobalSelectors == {"resume", "names", "field"}
Patched(patches, patch) ==
  (IF patch \in GlobalSelectors THEN patches \ GlobalSelectors ELSE patches) \cup {patch}

\* Seeds carry the project in their signature, clusters of runs do not.
Signatures == {c.name : c \in {d \in clusters : ~d.seed}}

Become(v, status) == [versions EXCEPT ![v].status = status]
\* Mutant for OneChampion: the old champion keeps its status.
CrownOnly(old, new, oldStatus) == Become(new, "champion")

Crown(old, new, oldStatus) ==
  [v \in DOMAIN versions |->
     IF v = new THEN [versions[v] EXCEPT !.status = "champion"]
     ELSE IF v = old THEN [versions[v] EXCEPT !.status = oldStatus]
     ELSE versions[v]]

Init ==
  /\ versions = << >>
  /\ clusters = {}
  /\ runs = [p \in Projects |-> {}]
  /\ traces = [p \in Projects |-> {}]
  /\ apps \in BOOLEAN
  /\ records = {}
  /\ pc = [s \in Procs |-> "idle"]
  /\ tour = [s \in Procs |-> NoTour]

-----------------------------------------------------------------------------
(* Runs that arrive *)

\* A traced run ends: it failed, or it "succeeded" with a failing span and only
\* the grading will fail it.
Trace ==
  /\ \E t \in Traced :
       \/ runs' = [runs EXCEPT ![t[1]] = @ \cup {t[2]}] /\ UNCHANGED traces
       \/ traces' = [traces EXCEPT ![t[1]] = @ \cup {t[2]}] /\ UNCHANGED runs
  /\ UNCHANGED <<versions, clusters, apps, records, pc, tour>>

\* An adapter grades a finished trace and writes run and grades together.  The
\* one for swarms does not name the trace to record_run and always raises.
SelfGraded ==
  /\ \E p \in Projects \cap {"allo", "pedit", "fidelis"},
        trace \in [safe : BOOLEAN, smooth : BOOLEAN, natural : BOOLEAN] :
       /\ \/ p = "allo" /\ ~AlloVerdict(trace)
          \/ p = "pedit" /\ ~PdfVerdict(trace)
          \/ p = "fidelis" /\ ~ImageVerdict(trace)
       /\ Readable(p)
       /\ runs' = [runs EXCEPT ![p] = @ \cup {IF trace.safe THEN "unknown" ELSE "unsafe"}]
  /\ UNCHANGED <<versions, clusters, traces, apps, records, pc, tour>>

-----------------------------------------------------------------------------
(* The steps of a cycle before the tournament *)

\* The first reader of the champion makes the baseline (a traced run, a status).
Create ==
  /\ \E p \in Projects :
       /\ Champions(p) = {} /\ Len(versions) < MaxVersions
       /\ versions' = Append(versions, Baseline(p))
  /\ UNCHANGED <<clusters, runs, traces, apps, records, pc, tour>>

\* "run" records applications as runs of its own project, whichever it is.
Backfill ==
  /\ apps /\ apps' = FALSE
  /\ \E p \in Projects, e \in LastErrors : runs' = [runs EXCEPT ![p] = @ \cup {e}]
  /\ UNCHANGED <<versions, clusters, traces, records, pc, tour>>

Seed ==
  /\ \E p \in Projects :
       /\ \A c \in clusters : c.project # p
       /\ clusters' = clusters \cup
            {[project |-> p, name |-> n, seed |-> TRUE, open |-> TRUE] : n \in SeedNames(p)}
  /\ UNCHANGED <<versions, runs, traces, apps, records, pc, tour>>

\* Grading an image run writes the grades on a new run: the old one stays ungraded.
Evaluate ==
  /\ \E p \in Projects :
       /\ runs' = [runs EXCEPT ![p] = @ \cup traces[p]]
       /\ traces' = [traces EXCEPT ![p] = IF p = "fidelis" THEN @ ELSE {}]
  /\ UNCHANGED <<versions, clusters, apps, records, pc, tour>>

\* A signature that has a cluster, open or not and of whatever project, only
\* counts one more.
Cluster ==
  /\ \E p \in Projects :
       clusters' = clusters \cup
         {[project |-> p, name |-> n, seed |-> FALSE, open |-> TRUE] :
            n \in runs[p] \ Signatures}
  /\ UNCHANGED <<versions, runs, traces, apps, records, pc, tour>>

\* One open cluster: a challenger from the champion of this moment; the cluster
\* is closed, for good, with the same commit.
Synthesize ==
  /\ Len(versions) < MaxVersions
  /\ \E c \in clusters :
       /\ c.open /\ Readable(c.project)
       /\ clusters' = (clusters \ {c}) \cup {[c EXCEPT !.open = FALSE]}
       /\ versions' = Append(versions,
            [project |-> c.project, status |-> "candidate",
             patches |-> Patched(versions[TheChampion(c.project)].patches, PatchFor(c.project, c.name))])
  /\ UNCHANGED <<runs, traces, apps, records, pc, tour>>

\* A benchmark of the champion alone ("benchmark" begins, "run" ends with one):
\* its failures are runs like any other.
Measure ==
  /\ \E p \in Projects :
       /\ Readable(p)
       /\ runs' = [runs EXCEPT ![p] = @ \cup
                     BenchmarkDefects(p, versions[TheChampion(p)].patches)]
  /\ UNCHANGED <<versions, clusters, traces, apps, records, pc, tour>>

-----------------------------------------------------------------------------
(* The tournament and the rollback *)

\* The next of a queue that is ordered by age.
Oldest(queue) == {c \in queue : \A d \in queue : c =< d}

\* The candidates of this moment are queued by age and the champion is measured
\* once, for all of them.
Enter(s) ==
  /\ pc[s] = "idle"
  /\ \E p \in Projects :
       LET patches == versions[TheChampion(p)].patches
       IN /\ Readable(p) /\ With(p, "candidate") # {}
          /\ tour' = [tour EXCEPT ![s] = [project |-> p,
                                          champion |-> TheChampion(p),
                                          queue |-> With(p, "candidate"),
                                          measured |-> Score(p, patches)]]
          /\ runs' = [runs EXCEPT ![p] = @ \cup BenchmarkDefects(p, patches)]
  /\ pc' = [pc EXCEPT ![s] = "play"]
  /\ UNCHANGED <<versions, clusters, traces, apps, records>>

\* One challenger: benchmarked, then rejected, or its promotion is recorded,
\* in a commit of its own.
Play(s) ==
  /\ pc[s] = "play"
  /\ \E c \in Oldest(tour[s].queue) :
       LET p == tour[s].project
           score == Score(p, versions[c].patches)
       IN /\ runs' = [runs EXCEPT ![p] = @ \cup BenchmarkDefects(p, versions[c].patches)]
          /\ IF Promotes(p, tour[s].measured, score)
             THEN /\ records' = records \cup {[new |-> c, by |-> "gate"]}
                  /\ pc' = [pc EXCEPT ![s] = "recorded"]
                  /\ UNCHANGED <<versions, tour>>
             ELSE /\ versions' = Become(c, "rejected")
                  /\ tour' = [tour EXCEPT ![s].queue = @ \ {c}]
                  /\ UNCHANGED <<records, pc>>
  /\ UNCHANGED <<clusters, traces, apps>>

\* The second commit.  The next challenger plays against the new champion's
\* name and the old champion's scores.
Promote(s) ==
  /\ pc[s] = "recorded"
  /\ \E c \in Oldest(tour[s].queue) :
       /\ versions' = Crown(tour[s].champion, c, "canary")
       /\ tour' = [tour EXCEPT ![s].queue = @ \ {c}, ![s].champion = c]
  /\ pc' = [pc EXCEPT ![s] = "play"]
  /\ UNCHANGED <<clusters, runs, traces, apps, records>>

EndTournament(s) ==
  /\ pc[s] = "play" /\ tour[s].queue = {}
  /\ pc' = [pc EXCEPT ![s] = "idle"]
  /\ tour' = [tour EXCEPT ![s] = NoTour]
  /\ UNCHANGED <<versions, clusters, runs, traces, apps, records>>

\* "rollback": to the version asked for, whatever became of it, or to the
\* youngest one that was champion before.
Rollback(s) ==
  /\ pc[s] = "idle"
  /\ \E p \in Projects : \E v \in Of(p) :
       /\ Readable(p)
       /\ v # TheChampion(p)
       /\ versions' = Crown(TheChampion(p), v, "rolled_back")
       /\ records' = records \cup {[new |-> v, by |-> "owner"]}
  /\ UNCHANGED <<clusters, runs, traces, apps, pc, tour>>

\* The process dies, or two champions make get_current_champion raise.
Abort(s) ==
  /\ pc[s] # "idle"
  /\ pc' = [pc EXCEPT ![s] = "idle"]
  /\ tour' = [tour EXCEPT ![s] = NoTour]
  /\ UNCHANGED <<versions, clusters, runs, traces, apps, records>>

Next ==
  \/ Trace \/ SelfGraded \/ Create \/ Backfill \/ Seed \/ Evaluate \/ Cluster \/ Synthesize \/ Measure
  \/ \E s \in Procs :
       Enter(s) \/ Play(s) \/ Promote(s) \/ EndTournament(s) \/ Rollback(s) \/ Abort(s)

Spec == Init /\ [][Next]_vars

-----------------------------------------------------------------------------
TypeOK ==
  /\ \A v \in DOMAIN versions :
       /\ versions[v].project \in Projects /\ versions[v].status \in Statuses
  /\ \A c \in clusters : c.project \in Projects /\ c.open \in BOOLEAN
  /\ pc \in [Procs -> Steps]
  /\ \A s \in Procs : tour[s].queue \subseteq DOMAIN versions

\* A project has one champion at most (get_current_champion raises for ever
\* after when it finds two), and one that is not the baseline got there by a
\* promotion or a rollback that is on record, wherever a command dies.
OneChampion ==
  \A p \in Projects :
    /\ Cardinality(Champions(p)) <= 1
    /\ \A v \in Champions(p) :
         versions[v].patches = {} \/ \E r \in records : r.new = v

\* What NeverWorse says of one step.
PromotionHelps ==
  \A p \in Projects :
    Champions(p) # {} /\ Champions(p)' # {} /\ (\A r \in records' : r.by = "gate") =>
      LET old == Score(p, versions[TheChampion(p)].patches)
          new == Score(p, versions'[TheChampion(p)'].patches)
      IN \A k \in DOMAIN old : new[k] >= old[k]

\* As long as the owner rolls nothing back, no golden case scores worse under a
\* new champion than under the one it replaces, although the gate compares
\* challengers with scores that may be an older champion's.
NeverWorse == [][PromotionHelps]_vars

\* "Zero-regression enforcement" (loop.py:8), rollbacks included.
GateNeverRegresses ==
  [][\A s \in Procs : pc[s] = "recorded" /\ pc'[s] = "play" =>
       LET p == tour[s].project
           old == Score(p, versions[TheChampion(p)].patches)
           new == Score(p, versions'[TheChampion(p)'].patches)
       IN ~Regresses(old, new)]_vars
=============================================================================
