------------------------ MODULE ImprovementKernelProofs ------------------------
(***************************************************************************)
(* A theorem about ImprovementKernel, for any defects, systems and number   *)
(* of versions.  A tournament names the champion it replaces from what it   *)
(* read at its start; while one process runs "hunterx improve", nobody      *)
(* crowns another version in between, so that it is still the champion.     *)
(***************************************************************************)
EXTENDS ImprovementKernel, TLAPS, FiniteSetTheorems

\* One process improves at a time.
OneProcess == \A s, t \in Procs : s = t

-----------------------------------------------------------------------------
(* The invariant *)

Patches == {"location", "resume", "names", "field", "guard", "routing",
            "font", "tracking", "wrap", "profile"}

Version == [project : Projects, patches : SUBSET Patches, status : Statuses]

\* What is needed of the clusters.
ClustersType == \A c \in clusters : "project" \in DOMAIN c /\ c.project \in Projects

VersionsType == versions \in Seq(Version) /\ ClustersType

\* One champion at most, and a patched one has its record.
Crowned ==
  \A p \in Projects :
    /\ \A v, w \in Champions(p) : v = w
    /\ \A v \in Champions(p) : versions[v].patches = {} \/ \E r \in records : r.new = v

\* A tournament knows the champion, its queue is of candidates, and what it has
\* recorded it is about to crown.
TourInv ==
  \A s \in Procs :
    /\ DOMAIN tour[s] = {"project", "champion", "queue", "measured"}
    /\ pc[s] \in {"play", "recorded"} =>
         /\ tour[s].project \in Projects /\ Champions(tour[s].project) = {tour[s].champion}
         /\ tour[s].queue \subseteq With(tour[s].project, "candidate")
    /\ pc[s] = "recorded" =>
         \A c \in Oldest(tour[s].queue) : \E r \in records : r.new = c

KernelInv ==
  /\ VersionsType /\ Crowned /\ TourInv
  /\ DOMAIN pc = Procs /\ DOMAIN tour = Procs

-----------------------------------------------------------------------------
(* Counting champions and versions *)

LEMMA AtMostOneCounts ==
  ASSUME NEW S, \A v, w \in S : v = w
  PROVE  /\ Cardinality(S) <= 1
         /\ Cardinality(S) = 1 => \E v \in S : S = {v}
<1>1. CASE S = {}
  BY <1>1, FS_EmptySet
<1>2. CASE S # {}
  <2>1. PICK v : v \in S
    BY <1>2
  <2>2. S = {v}
    BY <2>1
  <2> QED
    BY <2>2, FS_Singleton
<1> QED
  BY <1>1, <1>2

LEMMA VersionsAre ==
  ASSUME VersionsType
  PROVE  /\ Len(versions) \in Nat /\ DOMAIN versions = 1..Len(versions)
         /\ \A v \in DOMAIN versions : versions[v] \in Version
         /\ \A v \in DOMAIN versions : v \in Nat
  BY DEF VersionsType

LEMMA InitKernel == Init => KernelInv
<1> SUFFICES ASSUME Init PROVE KernelInv
  OBVIOUS
<1>1. versions = << >> /\ clusters = {} /\ \A p \in Projects : Champions(p) = {}
  BY DEF Init, Champions, With, Of
<1>2. << >> \in Seq(Version)
  OBVIOUS
<1>3. DOMAIN NoTour = {"project", "champion", "queue", "measured"}
  BY DEF NoTour
<1> QED
  BY <1>1, <1>2, <1>3 DEF Init, KernelInv, VersionsType, ClustersType, Crowned, TourInv

-----------------------------------------------------------------------------
(* What a change of the versions leaves *)

\* A new version takes the next number and is nobody's candidate yet.
LEMMA Appended ==
  ASSUME VersionsType, NEW e \in Version, versions' = Append(versions, e),
         NEW p \in Projects, NEW status
  PROVE  /\ versions' \in Seq(Version)
         /\ \A v \in DOMAIN versions : v \in DOMAIN versions' /\ versions'[v] = versions[v]
         /\ With(p, status)' = With(p, status) \cup
              {v \in {Len(versions) + 1} : e.project = p /\ e.status = status}
<1>1. /\ versions' \in Seq(Version) /\ Len(versions') = Len(versions) + 1
      /\ \A v \in 1..Len(versions) : versions'[v] = versions[v]
      /\ versions'[Len(versions) + 1] = e
  BY DEF VersionsType
<1>2. DOMAIN versions = 1..Len(versions) /\ DOMAIN versions' = 1..(Len(versions) + 1)
      /\ Len(versions) \in Nat
  BY <1>1 DEF VersionsType
<1>3. DOMAIN versions' = DOMAIN versions \cup {Len(versions) + 1}
  BY <1>2
<1>4. \A v \in DOMAIN versions : versions'[v] = versions[v]
  BY <1>1, <1>2
<1>5. With(p, status)' = With(p, status) \cup
              {v \in {Len(versions) + 1} : e.project = p /\ e.status = status}
  <2>1. With(p, status)' =
          {v \in DOMAIN versions' : versions'[v].project = p /\ versions'[v].status = status}
    BY DEF With, Of
  <2>2. With(p, status) =
          {v \in DOMAIN versions : versions[v].project = p /\ versions[v].status = status}
    BY DEF With, Of
  <2> QED
    BY <2>1, <2>2, <1>1, <1>3, <1>4
<1> QED
  BY <1>1, <1>3, <1>4, <1>5

\* A candidate that is rejected: the champions stay, only it leaves the candidates.
LEMMA Rejected ==
  ASSUME VersionsType, NEW p \in Projects, NEW c \in With(p, "candidate"),
         versions' = Become(c, "rejected"), NEW q \in Projects
  PROVE  /\ versions' \in Seq(Version) /\ Champions(q)' = Champions(q)
         /\ \A v \in Champions(q) : versions'[v] = versions[v]
         /\ With(q, "candidate")' = With(q, "candidate") \ {c}
<1>1. c \in DOMAIN versions /\ versions[c] \in Version /\ versions[c].status = "candidate"
  BY VersionsAre DEF With, Of
<1>2. versions' = [versions EXCEPT ![c].status = "rejected"]
  BY DEF Become
<1>3. [versions[c] EXCEPT !.status = "rejected"] \in Version
  BY <1>1 DEF Version, Statuses
<1>4. versions' \in Seq(Version)
  BY <1>2, <1>3, <1>1 DEF VersionsType
<1>5. /\ DOMAIN versions' = DOMAIN versions
      /\ \A v \in DOMAIN versions : v # c => versions'[v] = versions[v]
      /\ versions'[c].project = versions[c].project /\ versions'[c].status = "rejected"
  BY <1>1, <1>2 DEF Version
<1>6. \A status : With(q, status)' =
        {v \in DOMAIN versions' : versions'[v].project = q /\ versions'[v].status = status}
  BY DEF With, Of
<1>7. \A status : With(q, status) =
        {v \in DOMAIN versions : versions[v].project = q /\ versions[v].status = status}
  BY DEF With, Of
<1>8. Champions(q)' = Champions(q) /\ c \notin Champions(q)
  <2>1. Champions(q)' =
          {v \in DOMAIN versions' : versions'[v].project = q /\ versions'[v].status = "champion"}
    BY DEF Champions, With, Of
  <2>2. Champions(q) =
          {v \in DOMAIN versions : versions[v].project = q /\ versions[v].status = "champion"}
    BY DEF Champions, With, Of
  <2>3. c \notin Champions(q)
    BY <1>1, <2>2
  <2>4. versions'[c].status # "champion"
    BY <1>5
  <2> QED
    BY <1>1, <1>5, <2>1, <2>2, <2>3, <2>4
<1>9. With(q, "candidate")' = With(q, "candidate") \ {c}
  BY <1>1, <1>5, <1>6, <1>7
<1>10. \A v \in Champions(q) : v \in DOMAIN versions
  BY <1>7 DEF Champions
<1> QED
  BY <1>4, <1>5, <1>8, <1>9, <1>10

\* A champion that is replaced: the new one is the only champion.
LEMMA Crowning ==
  ASSUME VersionsType, NEW p \in Projects, NEW old, Champions(p) = {old},
         NEW new \in Of(p), new # old, NEW oldStatus \in {"canary", "rolled_back"},
         versions' = Crown(old, new, oldStatus), NEW q \in Projects
  PROVE  /\ versions' \in Seq(Version)
         /\ Champions(q)' = IF q = p THEN {new} ELSE Champions(q)
         /\ \A v \in DOMAIN versions : versions'[v].patches = versions[v].patches
         /\ With(q, "candidate")' = With(q, "candidate") \ {new}
<1>1. /\ old \in DOMAIN versions /\ new \in DOMAIN versions
      /\ versions[old].project = p /\ versions[old].status = "champion"
      /\ versions[new].project = p
  BY DEF Champions, With, Of
<1>2. versions[old] \in Version /\ versions[new] \in Version
  BY <1>1, VersionsAre
<1>3. /\ [versions[new] EXCEPT !.status = "champion"] \in Version
      /\ [versions[old] EXCEPT !.status = oldStatus] \in Version
  BY <1>2 DEF Version, Statuses
<1>4. /\ versions' = [v \in DOMAIN versions |-> versions'[v]]
      /\ DOMAIN versions' = DOMAIN versions
      /\ \A v \in DOMAIN versions : versions'[v] =
            IF v = new THEN [versions[v] EXCEPT !.status = "champion"]
            ELSE IF v = old THEN [versions[v] EXCEPT !.status = oldStatus]
            ELSE versions[v]
  BY DEF Crown
<1>5. versions' \in Seq(Version)
  <2>1. DOMAIN versions = 1..Len(versions) /\ Len(versions) \in Nat
    BY VersionsAre
  <2>2. \A v \in 1..Len(versions) : versions'[v] \in Version
    BY <2>1, <1>3, <1>4, VersionsAre
  <2>3. versions' = [v \in 1..Len(versions) |-> versions'[v]]
    BY <2>1, <1>4
  <2>4. versions' \in [1..Len(versions) -> Version]
    BY <2>2, <2>3
  <2> QED
    BY <2>1, <2>4
<1>6. \A v \in DOMAIN versions :
        versions'[v].project = versions[v].project /\ versions'[v].patches = versions[v].patches
  BY <1>4, VersionsAre DEF Version
<1>7. /\ versions'[new].status = "champion" /\ versions'[old].status = oldStatus
      /\ \A v \in DOMAIN versions : v \notin {old, new} => versions'[v] = versions[v]
  BY <1>1, <1>2, <1>4 DEF Version
<1>8. \A status : With(q, status)' =
        {v \in DOMAIN versions' : versions'[v].project = q /\ versions'[v].status = status}
  BY DEF With, Of
<1>9. \A status : With(q, status) =
        {v \in DOMAIN versions : versions[v].project = q /\ versions[v].status = status}
  BY DEF With, Of
<1>10. With(q, "candidate")' = With(q, "candidate") \ {new}
  BY <1>1, <1>4, <1>6, <1>7, <1>8, <1>9
<1>11. CASE q = p
  <2>a. Champions(q)' =
          {v \in DOMAIN versions' : versions'[v].project = q /\ versions'[v].status = "champion"}
    BY DEF Champions, With, Of
  <2>b. Champions(q) =
          {v \in DOMAIN versions : versions[v].project = q /\ versions[v].status = "champion"}
    BY DEF Champions, With, Of
  <2>1. \A v \in DOMAIN versions :
          versions[v].project = p /\ versions[v].status = "champion" => v = old
    BY <2>b, <1>11
  <2>3. \A v \in DOMAIN versions' : v = new =>
          versions'[v].project = q /\ versions'[v].status = "champion"
    BY <1>1, <1>6, <1>7, <1>11
  <2>4. \A v \in DOMAIN versions' : v # new =>
          ~(versions'[v].project = q /\ versions'[v].status = "champion")
    BY <2>1, <1>1, <1>4, <1>6, <1>7, <1>11
  <2>2. Champions(q)' = {new}
    BY <2>a, <2>3, <2>4, <1>1, <1>4
  <2> QED
    BY <2>2, <1>5, <1>6, <1>10, <1>11
<1>12. CASE q # p
  <2>a. Champions(q)' =
          {v \in DOMAIN versions' : versions'[v].project = q /\ versions'[v].status = "champion"}
    BY DEF Champions, With, Of
  <2>b. Champions(q) =
          {v \in DOMAIN versions : versions[v].project = q /\ versions[v].status = "champion"}
    BY DEF Champions, With, Of
  <2>2. \A v \in DOMAIN versions : versions[v].project = q => versions'[v] = versions[v]
    BY <1>1, <1>7, <1>12
  <2>3. \A v \in DOMAIN versions : versions[v].project # q => versions'[v].project # q
    BY <1>6
  <2>1. Champions(q)' = Champions(q)
    BY <2>a, <2>b, <2>2, <2>3, <1>4
  <2> QED
    BY <2>1, <1>5, <1>6, <1>10, <1>12
<1> QED
  BY <1>11, <1>12

-----------------------------------------------------------------------------
(* The steps *)

\* With one process at most, a process that is idle means that none plays.
LEMMA NobodyPlays ==
  ASSUME OneProcess, NEW s \in Procs, pc[s] = "idle"
  PROVE  \A t \in Procs : pc[t] = "idle"
  BY DEF OneProcess

\* A version is added: a baseline where there is no champion, or a candidate.
LEMMA Adds ==
  ASSUME KernelInv, NEW e \in Version, versions' = Append(versions, e),
         \/ e.status = "champion" /\ e.patches = {} /\ Champions(e.project) = {}
         \/ e.status = "candidate",
         ClustersType',
         UNCHANGED <<records, pc, tour>>
  PROVE  KernelInv'
<1>1. VersionsType
  BY DEF KernelInv
<1> DEFINE n == Len(versions) + 1
<1>2. VersionsType'
  <2>1. versions \in Seq(Version)
    BY <1>1 DEF VersionsType
  <2> QED
    BY <2>1 DEF VersionsType
<1>3. \A p \in Projects, status \in Statuses : With(p, status)' = With(p, status) \cup
         {v \in {n} : e.project = p /\ e.status = status}
  BY <1>1, Appended
<1>4. \A p \in Projects : Champions(p)' = Champions(p) \cup
         {v \in {n} : e.project = p /\ e.status = "champion"}
  BY <1>3 DEF Champions, Statuses
<1>5. versions'[n] = e
  BY <1>1 DEF VersionsType
<1>6. \A v \in DOMAIN versions : versions'[v] = versions[v]
  <2>1. DOMAIN versions = 1..Len(versions)
    BY <1>1, VersionsAre
  <2> QED
    BY <2>1, <1>1 DEF VersionsType
<1>7. \A p \in Projects : Champions(p) \subseteq DOMAIN versions
  BY DEF Champions, With, Of
<1>8. Crowned'
  <2> SUFFICES ASSUME NEW p \in Projects
               PROVE  /\ \A v, w \in Champions(p)' : v = w
                      /\ \A v \in Champions(p)' :
                           versions'[v].patches = {} \/ \E r \in records : r.new = v
    BY DEF Crowned
  <2>0. /\ \A v, w \in Champions(p) : v = w
        /\ \A v \in Champions(p) :
             versions[v].patches = {} \/ \E r \in records : r.new = v
    BY DEF KernelInv, Crowned
  <2>1. CASE e.project = p /\ e.status = "champion"
    <3>1. Champions(p) = {} /\ e.patches = {}
      BY <2>1
    <3>2. Champions(p)' = {n}
      BY <2>1, <3>1, <1>4
    <3> QED
      BY <3>1, <3>2, <1>5
  <2>2. CASE ~(e.project = p /\ e.status = "champion")
    <3>1. Champions(p)' = Champions(p)
      BY <2>2, <1>4
    <3> QED
      BY <3>1, <2>0, <1>6, <1>7
  <2> QED
    BY <2>1, <2>2
<1>9. TourInv'
  <2> SUFFICES ASSUME NEW s \in Procs, pc[s] \in {"play", "recorded"}
               PROVE  /\ Champions(tour[s].project)' = {tour[s].champion}
                      /\ tour[s].queue \subseteq With(tour[s].project, "candidate")'
    BY DEF KernelInv, TourInv
  <2>1. /\ tour[s].project \in Projects /\ Champions(tour[s].project) = {tour[s].champion}
        /\ tour[s].queue \subseteq With(tour[s].project, "candidate")
    BY DEF KernelInv, TourInv
  <2>2. Champions(tour[s].project)' = Champions(tour[s].project)
    BY <2>1, <1>4
  <2>3. With(tour[s].project, "candidate") \subseteq With(tour[s].project, "candidate")'
    BY <2>1, <1>3 DEF Statuses
  <2> QED
    BY <2>1, <2>2, <2>3
<1> QED
  BY <1>2, <1>8, <1>9 DEF KernelInv

LEMMA PlayStep ==
  ASSUME OneProcess, KernelInv, NEW s \in Procs, Play(s)
  PROVE  KernelInv'
<1>0. VersionsType /\ pc[s] = "play" /\ clusters' = clusters
  BY DEF KernelInv, Play
<1>p. PICK p \in Projects : p = tour[s].project
  BY <1>0 DEF KernelInv, TourInv
<1>1. /\ p \in Projects /\ Champions(p) = {tour[s].champion}
      /\ tour[s].queue \subseteq With(p, "candidate")
      /\ \A t \in Procs : t = s
  BY <1>0, <1>p DEF KernelInv, TourInv, OneProcess
<1>2. PICK c \in Oldest(tour[s].queue) :
        \/ /\ records' = records \cup {[new |-> c, by |-> "gate"]}
           /\ pc' = [pc EXCEPT ![s] = "recorded"]
           /\ UNCHANGED <<versions, tour>>
        \/ /\ versions' = Become(c, "rejected")
           /\ tour' = [tour EXCEPT ![s].queue = @ \ {c}]
           /\ UNCHANGED <<records, pc>>
  BY DEF Play
<1>3. c \in tour[s].queue /\ \A d \in tour[s].queue : c =< d
  BY DEF Oldest
<1>4. c \in With(p, "candidate")
  BY <1>1, <1>3
<1>5. CASE /\ records' = records \cup {[new |-> c, by |-> "gate"]}
           /\ pc' = [pc EXCEPT ![s] = "recorded"]
           /\ UNCHANGED <<versions, tour>>
  <2>1. VersionsType' /\ \A q \in Projects, st \in Statuses : With(q, st)' = With(q, st)
    BY <1>0, <1>5 DEF VersionsType, ClustersType, With, Of
  <2>2. \A q \in Projects : Champions(q)' = Champions(q)
    BY <1>5 DEF Champions, With, Of
  <2>3. Crowned'
    BY <2>2, <1>5 DEF KernelInv, Crowned
  <2>4. \A d \in Oldest(tour[s].queue) : d = c
    <3> SUFFICES ASSUME NEW d \in Oldest(tour[s].queue) PROVE d = c
      OBVIOUS
    <3>1. d \in tour[s].queue /\ d =< c /\ c =< d
      BY <1>3 DEF Oldest
    <3>2. c \in Nat /\ d \in Nat
      BY <3>1, <1>0, <1>1, <1>4, VersionsAre DEF With, Of
    <3> QED
      BY <3>1, <3>2
  <2>5. With(p, "candidate")' = With(p, "candidate")
    BY <2>1, <1>1 DEF Statuses
  <2>6. TourInv'
    <3> SUFFICES ASSUME NEW t \in Procs
                 PROVE  /\ DOMAIN tour'[t] = {"project", "champion", "queue", "measured"}
                        /\ tour'[t].project \in Projects
                        /\ Champions(tour[t].project)' = {tour'[t].champion}
                        /\ tour'[t].queue \subseteq With(tour[t].project, "candidate")'
                        /\ \A d \in Oldest(tour'[t].queue) : \E r \in records' : r.new = d
      BY <1>5 DEF TourInv, Oldest
    <3>1. t = s /\ tour' = tour
      BY <1>1, <1>5
    <3>2. DOMAIN tour[s] = {"project", "champion", "queue", "measured"}
      BY DEF KernelInv, TourInv
    <3>3. \E r \in records' : r.new = c
      <4>1. [new |-> c, by |-> "gate"] \in records' /\ [new |-> c, by |-> "gate"].new = c
        BY <1>5
      <4> QED
        BY <4>1
    <3> QED
      BY <3>1, <3>2, <3>3, <1>p, <1>1, <2>2, <2>4, <2>5
  <2> QED
    BY <2>1, <2>3, <2>6, <1>5 DEF KernelInv
<1>6. CASE /\ versions' = Become(c, "rejected")
           /\ tour' = [tour EXCEPT ![s].queue = @ \ {c}]
           /\ UNCHANGED <<records, pc>>
  <2>1. \A q \in Projects :
          /\ versions' \in Seq(Version) /\ Champions(q)' = Champions(q)
          /\ \A v \in Champions(q) : versions'[v] = versions[v]
          /\ With(q, "candidate")' = With(q, "candidate") \ {c}
    BY <1>0, <1>1, <1>4, <1>6, Rejected
  <2>2. VersionsType'
    BY <2>1, <1>0, <1>1 DEF VersionsType, ClustersType
  <2>3. Crowned'
    BY <2>1, <1>6 DEF KernelInv, Crowned
  <2>4. /\ DOMAIN tour' = Procs
        /\ DOMAIN tour'[s] = {"project", "champion", "queue", "measured"}
        /\ tour'[s].project = p /\ tour'[s].champion = tour[s].champion
        /\ tour'[s].queue = tour[s].queue \ {c}
    BY <1>6, <1>p DEF KernelInv, TourInv
  <2>5. TourInv'
    <3> SUFFICES ASSUME NEW t \in Procs
                 PROVE  /\ DOMAIN tour'[t] = {"project", "champion", "queue", "measured"}
                        /\ tour'[t].project \in Projects
                        /\ Champions(tour[t].project)' = {tour'[t].champion}
                        /\ tour'[t].queue \subseteq With(tour[t].project, "candidate")'
                        /\ tour'[t].project = tour[t].project
                        /\ pc'[t] # "recorded"
      BY DEF TourInv
    <3>1. t = s /\ pc'[s] = "play"
      BY <1>0, <1>1, <1>6
    <3> QED
      BY <3>1, <2>1, <2>4, <1>p, <1>1
  <2> QED
    BY <2>2, <2>3, <2>4, <2>5, <1>6 DEF KernelInv
<1> QED
  BY <1>2, <1>5, <1>6

LEMMA PromoteStep ==
  ASSUME OneProcess, KernelInv, NEW s \in Procs, Promote(s)
  PROVE  KernelInv'
<1>0. VersionsType /\ pc[s] = "recorded" /\ UNCHANGED <<clusters, records>>
      /\ pc' = [pc EXCEPT ![s] = "play"]
  BY DEF KernelInv, Promote
<1>p. PICK p \in Projects : p = tour[s].project
  BY <1>0 DEF KernelInv, TourInv
<1>o. PICK old : old = tour[s].champion
  OBVIOUS
<1>1. /\ p \in Projects /\ Champions(p) = {old}
      /\ tour[s].queue \subseteq With(p, "candidate")
      /\ \A t \in Procs : t = s
  BY <1>0, <1>p, <1>o DEF KernelInv, TourInv, OneProcess
<1>2. PICK c \in Oldest(tour[s].queue) :
        /\ versions' = Crown(old, c, "canary")
        /\ tour' = [tour EXCEPT ![s].queue = @ \ {c}, ![s].champion = c]
  BY <1>o DEF Promote
<1>3. \E r \in records : r.new = c
  BY <1>0 DEF KernelInv, TourInv
<1>4. c \in With(p, "candidate") /\ c \in Of(p)
  BY <1>1 DEF Oldest, With
<1>5. c # old
  BY <1>1, <1>4 DEF Champions, With
<1>6. \A q \in Projects :
        /\ versions' \in Seq(Version)
        /\ Champions(q)' = IF q = p THEN {c} ELSE Champions(q)
        /\ \A v \in DOMAIN versions : versions'[v].patches = versions[v].patches
        /\ With(q, "candidate")' = With(q, "candidate") \ {c}
  BY <1>0, <1>1, <1>2, <1>4, <1>5, Crowning
<1>7. VersionsType'
  BY <1>6, <1>0, <1>1 DEF VersionsType, ClustersType
<1>8. Crowned'
  <2>1. \A q \in Projects : Champions(q) \subseteq DOMAIN versions
    BY DEF Champions, With, Of
  <2>2. \A q \in Projects :
          /\ \A v, w \in Champions(q) : v = w
          /\ \A v \in Champions(q) : versions[v].patches = {} \/ \E r \in records : r.new = v
    BY DEF KernelInv, Crowned
  <2> QED
    BY <2>1, <2>2, <1>0, <1>3, <1>6 DEF Crowned
<1>9. /\ DOMAIN tour' = Procs
      /\ DOMAIN tour'[s] = {"project", "champion", "queue", "measured"}
      /\ tour'[s].project = p /\ tour'[s].champion = c
      /\ tour'[s].queue = tour[s].queue \ {c}
  BY <1>2, <1>p DEF KernelInv, TourInv
<1>10. TourInv'
  <2> SUFFICES ASSUME NEW t \in Procs
               PROVE  /\ DOMAIN tour'[t] = {"project", "champion", "queue", "measured"}
                      /\ tour'[t].project \in Projects
                      /\ Champions(tour[t].project)' = {tour'[t].champion}
                      /\ tour'[t].queue \subseteq With(tour[t].project, "candidate")'
                      /\ pc'[t] # "recorded"
    BY DEF TourInv
  <2>1. t = s /\ pc'[s] = "play"
    BY <1>0, <1>1 DEF KernelInv
  <2>2. Champions(p)' = {c} /\ With(p, "candidate")' = With(p, "candidate") \ {c}
    BY <1>6, <1>1
  <2> QED
    BY <2>1, <2>2, <1>9, <1>p, <1>1
<1> QED
  BY <1>7, <1>8, <1>9, <1>10, <1>0 DEF KernelInv

\* The owner's rollback happens outside the tournament, and there is one process.
LEMMA RollbackStep ==
  ASSUME OneProcess, KernelInv, NEW s \in Procs, Rollback(s)
  PROVE  KernelInv'
<1>1. \A t \in Procs : pc'[t] = "idle"
  BY NobodyPlays DEF Rollback
<1>p. PICK p \in Projects : \E v \in Of(p) :
        /\ Readable(p) /\ v # TheChampion(p)
        /\ versions' = Crown(TheChampion(p), v, "rolled_back")
        /\ records' = records \cup {[new |-> v, by |-> "owner"]}
  BY DEF Rollback
<1>2. PICK v \in Of(p) :
        /\ Readable(p) /\ v # TheChampion(p)
        /\ versions' = Crown(TheChampion(p), v, "rolled_back")
        /\ records' = records \cup {[new |-> v, by |-> "owner"]}
  BY <1>p
<1>3. PICK old : Champions(p) = {old} /\ TheChampion(p) = old
  <2>1. \E x : Champions(p) = {x}
    BY <1>2, AtMostOneCounts DEF Readable, KernelInv, Crowned
  <2> QED
    BY <2>1 DEF TheChampion
<1>4. VersionsType /\ UNCHANGED <<clusters, pc, tour>>
  BY DEF KernelInv, Rollback
<1>5. \A q \in Projects :
        /\ versions' \in Seq(Version)
        /\ Champions(q)' = IF q = p THEN {v} ELSE Champions(q)
        /\ \A w \in DOMAIN versions : versions'[w].patches = versions[w].patches
  BY <1>2, <1>3, <1>4, Crowning
<1>6. \E r \in records' : r.new = v
  <2>1. [new |-> v, by |-> "owner"] \in records' /\ [new |-> v, by |-> "owner"].new = v
    BY <1>2
  <2> QED
    BY <2>1
<1>7. Crowned'
  <2>1. \A q \in Projects : Champions(q) \subseteq DOMAIN versions
    BY DEF Champions, With, Of
  <2>2. \A q \in Projects :
          /\ \A x, w \in Champions(q) : x = w
          /\ \A x \in Champions(q) : versions[x].patches = {} \/ \E r \in records : r.new = x
    BY DEF KernelInv, Crowned
  <2>3. records \subseteq records'
    BY <1>2
  <2> QED
    BY <2>1, <2>2, <2>3, <1>5, <1>6 DEF Crowned
<1>8. TourInv'
  BY <1>1, <1>4 DEF KernelInv, TourInv
<1> QED
  BY <1>4, <1>5, <1>7, <1>8, <1>2 DEF KernelInv, VersionsType, ClustersType

LEMMA EnterStep ==
  ASSUME OneProcess, KernelInv, NEW s \in Procs, Enter(s)
  PROVE  KernelInv'
<1>1. PICK p \in Projects :
        /\ Readable(p)
        /\ tour' = [tour EXCEPT ![s] = [project |-> p,
                                        champion |-> TheChampion(p),
                                        queue |-> With(p, "candidate"),
                                        measured |-> Score(p, versions[TheChampion(p)].patches)]]
  BY DEF Enter
<1>2. UNCHANGED <<versions, clusters, records>> /\ pc' = [pc EXCEPT ![s] = "play"]
  BY DEF Enter
<1>3. PICK old : Champions(p) = {old} /\ TheChampion(p) = old
  <2>1. \E x : Champions(p) = {x}
    BY <1>1, AtMostOneCounts DEF Readable, KernelInv, Crowned
  <2> QED
    BY <2>1 DEF TheChampion
<1>4. Champions(p)' = Champions(p) /\ With(p, "candidate")' = With(p, "candidate")
  BY <1>2 DEF Champions, With, Of
<1>5. VersionsType' /\ Crowned'
  BY <1>2 DEF KernelInv, VersionsType, ClustersType, Crowned, Champions, With, Of
<1>6. TourInv'
  <2> SUFFICES ASSUME NEW t \in Procs
               PROVE  /\ DOMAIN tour'[t] = {"project", "champion", "queue", "measured"}
                      /\ tour'[t].project \in Projects
                      /\ Champions(tour[t].project)' = {tour'[t].champion}
                      /\ tour'[t].queue \subseteq With(tour[t].project, "candidate")'
                      /\ pc'[t] # "recorded"
    BY DEF TourInv
  <2>1. t = s /\ DOMAIN tour = Procs /\ DOMAIN pc = Procs
    BY DEF OneProcess, KernelInv
  <2>2. tour'[t] = [project |-> p, champion |-> old, queue |-> With(p, "candidate"),
                    measured |-> Score(p, versions[old].patches)]
    BY <2>1, <1>1, <1>3
  <2>3. pc'[t] = "play"
    BY <2>1, <1>2
  <2>4. /\ DOMAIN tour'[t] = {"project", "champion", "queue", "measured"}
        /\ tour'[t].project = p /\ tour'[t].champion = old
        /\ tour'[t].queue = With(p, "candidate")
    BY <2>2
  <2> QED
    BY <2>3, <2>4, <1>3, <1>4
<1> QED
  BY <1>1, <1>2, <1>5, <1>6 DEF KernelInv

\* A tournament that ends or dies.
LEMMA LeaveStep ==
  ASSUME KernelInv, NEW s \in Procs, pc' = [pc EXCEPT ![s] = "idle"],
         tour' = [tour EXCEPT ![s] = NoTour], UNCHANGED <<versions, clusters, records>>
  PROVE  KernelInv'
<1>1. VersionsType' /\ Crowned'
  BY DEF KernelInv, VersionsType, ClustersType, Crowned, Champions, With, Of
<1>2. TourInv'
  <2> SUFFICES ASSUME NEW t \in Procs
               PROVE  /\ DOMAIN tour'[t] = {"project", "champion", "queue", "measured"}
                      /\ pc'[t] # "idle" => t # s /\ pc'[t] = pc[t] /\ tour'[t] = tour[t]
    BY DEF KernelInv, TourInv, Champions, With, Of, Oldest
  <2>1. DOMAIN NoTour = {"project", "champion", "queue", "measured"}
    BY DEF NoTour
  <2> QED
    BY <2>1 DEF KernelInv, TourInv
<1> QED
  BY <1>1, <1>2 DEF KernelInv

LEMMA OtherStep ==
  ASSUME KernelInv, UNCHANGED <<versions, records, pc, tour>>,
         ClustersType'
  PROVE  KernelInv'
  BY DEF KernelInv, VersionsType, Crowned, TourInv, Champions, With, Of, Oldest

LEMMA CreateStep ==
  ASSUME KernelInv, Create
  PROVE  KernelInv'
<1>1. PICK p \in Projects : Champions(p) = {} /\ versions' = Append(versions, Baseline(p))
  BY DEF Create
<1>2. UNCHANGED <<clusters, records, pc, tour>> /\ ClustersType'
  BY DEF Create, KernelInv, VersionsType, ClustersType
<1>3. /\ Baseline(p) \in Version /\ Baseline(p).status = "champion"
      /\ Baseline(p).patches = {} /\ Baseline(p).project = p
  BY DEF Baseline, Version, Statuses
<1> QED
  BY <1>1, <1>2, <1>3, Adds

LEMMA SynthesizeStep ==
  ASSUME KernelInv, Synthesize
  PROVE  KernelInv'
<1>1. PICK c \in clusters :
        /\ Readable(c.project)
        /\ clusters' = (clusters \ {c}) \cup {[c EXCEPT !.open = FALSE]}
        /\ versions' = Append(versions,
             [project |-> c.project, status |-> "candidate",
              patches |-> Patched(versions[TheChampion(c.project)].patches, PatchFor(c.project, c.name))])
  BY DEF Synthesize
<1>2. VersionsType /\ c.project \in Projects
  BY DEF KernelInv, VersionsType, ClustersType
<1>3. ClustersType'
  <2>1. [c EXCEPT !.open = FALSE].project = c.project /\ "project" \in DOMAIN [c EXCEPT !.open = FALSE]
    BY <1>2 DEF VersionsType, ClustersType
  <2> QED
    BY <2>1, <1>1, <1>2 DEF VersionsType, ClustersType
<1>4. PICK old : Champions(c.project) = {old} /\ TheChampion(c.project) = old
  <2>1. \E x : Champions(c.project) = {x}
    BY <1>1, <1>2, AtMostOneCounts DEF Readable, KernelInv, Crowned
  <2> QED
    BY <2>1 DEF TheChampion
<1>5. versions[old].patches \in SUBSET Patches
  <2>1. old \in DOMAIN versions
    BY <1>4 DEF Champions, With, Of
  <2> QED
    BY <2>1, <1>2, VersionsAre DEF Version
<1>6. PatchFor(c.project, c.name) \in Patches
  <2>1. HarnessPatch(c.name) \in Patches
    BY DEF HarnessPatch, Patches
  <2>2. TuningPatch(c.name) \in Patches
    BY DEF TuningPatch, Patches
  <2>3. PatchFor(c.project, c.name) \in Patches
    <3>1. CASE c.project = "pedit"
      BY <2>2, <3>1 DEF PatchFor
    <3>2. CASE c.project = "fidelis"
      BY <3>2 DEF PatchFor, Patches
    <3>3. CASE c.project \notin {"pedit", "fidelis"}
      BY <2>1, <3>3 DEF PatchFor
    <3> QED
      BY <3>1, <3>2, <3>3
  <2> QED
    BY <2>3
<1>7. Patched(versions[old].patches, PatchFor(c.project, c.name)) \in SUBSET Patches
  BY <1>5, <1>6 DEF Patched
<1> DEFINE e == [project |-> c.project, status |-> "candidate",
                 patches |-> Patched(versions[old].patches, PatchFor(c.project, c.name))]
<1>8. e \in Version /\ e.status = "candidate"
  BY <1>2, <1>7 DEF Version, Statuses
<1>9. versions' = Append(versions, e) /\ UNCHANGED <<records, pc, tour>>
  BY <1>1, <1>4 DEF Synthesize
<1> QED
  BY <1>3, <1>8, <1>9, Adds

\* Every step keeps the invariant.
LEMMA NextKernel ==
  ASSUME OneProcess, KernelInv, [Next]_vars
  PROVE  KernelInv'
<1>0. ClustersType
  BY DEF KernelInv, VersionsType
<1>1. CASE Trace \/ SelfGraded \/ Backfill \/ Evaluate \/ Measure \/ UNCHANGED vars
  <2>1. UNCHANGED <<versions, clusters, records, pc, tour>>
    BY <1>1 DEF Trace, SelfGraded, Backfill, Evaluate, Measure, vars
  <2> QED
    BY <2>1, <1>0, OtherStep DEF ClustersType
<1>2. CASE Seed
  <2>1. UNCHANGED <<versions, records, pc, tour>>
    BY <1>2 DEF Seed
  <2>2. PICK p \in Projects : \E S : clusters' = clusters \cup
          {[project |-> p, name |-> n, seed |-> TRUE, open |-> TRUE] : n \in S}
    BY <1>2 DEF Seed
  <2>3. ClustersType'
    BY <2>2, <1>0 DEF ClustersType
  <2> QED
    BY <2>1, <2>3, OtherStep
<1>3. CASE Cluster
  <2>1. UNCHANGED <<versions, records, pc, tour>>
    BY <1>3 DEF Cluster
  <2>2. PICK p \in Projects : \E S : clusters' = clusters \cup
          {[project |-> p, name |-> n, seed |-> FALSE, open |-> TRUE] : n \in S}
    BY <1>3 DEF Cluster
  <2>3. ClustersType'
    BY <2>2, <1>0 DEF ClustersType
  <2> QED
    BY <2>1, <2>3, OtherStep
<1>4. CASE Create
  BY <1>4, CreateStep
<1>5. CASE Synthesize
  BY <1>5, SynthesizeStep
<1>6. CASE \E s \in Procs :
             Enter(s) \/ Play(s) \/ Promote(s) \/ EndTournament(s) \/ Rollback(s) \/ Abort(s)
  <2>1. PICK s \in Procs :
          Enter(s) \/ Play(s) \/ Promote(s) \/ EndTournament(s) \/ Rollback(s) \/ Abort(s)
    BY <1>6
  <2>2. CASE EndTournament(s) \/ Abort(s)
    BY <2>2, LeaveStep DEF EndTournament, Abort
  <2> QED
    BY <2>1, <2>2, EnterStep, PlayStep, PromoteStep, RollbackStep
<1> QED
  BY <1>1, <1>2, <1>3, <1>4, <1>5, <1>6 DEF Next

LEMMA KernelCrowns == ASSUME KernelInv PROVE OneChampion
  BY AtMostOneCounts DEF KernelInv, Crowned, OneChampion

\* While one process improves, a project has one champion at most, and one that
\* is not the baseline has a promotion or a rollback on record, wherever a
\* command dies (ContinuousImprovementLoop.benchmark_and_promote, "rollback").
THEOREM ChampionIsOne ==
  ASSUME OneProcess
  PROVE  Spec => []OneChampion
<1>1. KernelInv => OneChampion
  BY KernelCrowns
<1>2. Init => KernelInv
  BY InitKernel
<1>3. KernelInv /\ [Next]_vars => KernelInv'
  BY NextKernel
<1> QED
  BY <1>1, <1>2, <1>3, PTL DEF Spec
===============================================================================
