-------------------------- MODULE InstallJobsProofs --------------------------
(***************************************************************************)
(* Proofs about InstallJobs, for any components, any number of jobs and of *)
(* requests at work: a job's credentials are shown on one page and in one  *)
(* download at most, the checklist of a job tells the truth about how far  *)
(* the job has come, a rollback that nothing overlaps leaves nothing it    *)
(* does not own up to, no job is ever stuck or goes on for longer than it  *)
(* has steps, and everything keeps its type.                               *)
(***************************************************************************)
EXTENDS InstallJobs, FiniteSetTheorems, TLAPS

Fields == {"kind", "order", "at", "stage", "chosen", "blind", "comps", "stepFailed",
           "completed", "failed", "bag", "stash", "noted", "warned", "pages", "downloads"}

\* A job as far as disclosure is concerned: while it is at work nothing has
\* been shown; after that its credentials are in the bag, then on the page and
\* in the stash, then in the download.
Discreet(r) ==
  /\ DOMAIN r = Fields
  /\ r.pages \in {0, 1} /\ r.downloads \in {0, 1} /\ r.downloads <= r.pages
  /\ r.pages = 1 => r.completed /\ r.bag = {}
  /\ r.pages = 0 => r.stash = {}
  /\ r.stash # {} => r.downloads = 0

Disclosed == job \in [Jobs -> {job[j] : j \in Jobs}] /\ \A j \in Jobs : Discreet(job[j])

\* What the task does while it is at work shows nothing.
Kept(r, new) ==
  /\ DOMAIN new = Fields
  /\ new.pages = r.pages /\ new.downloads = r.downloads /\ new.stash = r.stash

-----------------------------------------------------------------------------

LEMMA NothingShown == Discreet(NoJob)
BY DEF Discreet, NoJob, Fields

\* A change of one job.
LEMMA OneChanges ==
  ASSUME Disclosed, NEW j \in Jobs, NEW r, Become(j, r), Discreet(r)
  PROVE  Disclosed'
<1>1. job' = [job EXCEPT ![j] = r]
  BY DEF Become
<1>2. \A i \in Jobs : job'[i] = IF i = j THEN r ELSE job[i]
  BY <1>1 DEF Disclosed
<1>3. DOMAIN job' = Jobs /\ job' = [i \in Jobs |-> job'[i]]
  BY <1>1 DEF Disclosed
<1> QED BY <1>2, <1>3 DEF Disclosed

\* A job at work goes on with its work.
LEMMA WorksOn ==
  ASSUME Disclosed, NEW j \in Jobs, ~job[j].completed, NEW r, Become(j, r), Kept(job[j], r)
  PROVE  Disclosed'
<1>1. Discreet(r)
  BY DEF Disclosed, Discreet, Kept
<1> QED BY <1>1, OneChanges

LEMMA StartIsDiscreet ==
  ASSUME NEW r, DOMAIN r = Fields, r.pages = 0, r.downloads = 0, r.stash = {}, r.bag = {}
  PROVE  Discreet(r)
BY DEF Discreet

LEMMA StartsKeep ==
  ASSUME Disclosed, NEW j \in Jobs,
         \/ \E chosen \in SUBSET Movable : InstallAll(j, chosen)
         \/ \E s \in Slugs : \E chosen \in SUBSET Movable : InstallOne(j, s, chosen)
         \/ \E s \in Slugs : Uninstall(j, s)
         \/ \E i \in Jobs : Rollback(j, i)
  PROVE  Disclosed'
<1>1. ASSUME NEW r, DOMAIN r = Fields, Become(j, r),
             r.pages = 0, r.downloads = 0, r.stash = {}, r.bag = {}
      PROVE  Disclosed'
  BY <1>1, StartIsDiscreet, OneChanges
<1>2. ASSUME NEW chosen \in SUBSET Movable, InstallAll(j, chosen) PROVE Disclosed'
  <2>. DEFINE r == [NoJob EXCEPT !.kind = "install", !.order = Order, !.chosen = chosen,
                                 !.stage = "next", !.comps = Checklist(Order)]
  <2>1. DOMAIN r = Fields /\ r.pages = 0 /\ r.downloads = 0 /\ r.stash = {} /\ r.bag = {}
    BY DEF NoJob, Fields
  <2>2. Become(j, r)
    BY <1>2 DEF InstallAll
  <2>. HIDE DEF r
  <2> QED BY <1>1, <2>1, <2>2
<1>3. ASSUME NEW s \in Slugs, NEW chosen \in SUBSET Movable, InstallOne(j, s, chosen)
      PROVE  Disclosed'
  <2>. DEFINE r == [NoJob EXCEPT !.kind = "install", !.order = <<s>>, !.chosen = chosen,
                                 !.stage = "next"]
  <2>1. DOMAIN r = Fields /\ r.pages = 0 /\ r.downloads = 0 /\ r.stash = {} /\ r.bag = {}
    BY DEF NoJob, Fields
  <2>2. Become(j, r)
    BY <1>3 DEF InstallOne
  <2>. HIDE DEF r
  <2> QED BY <1>1, <2>1, <2>2
<1>4. ASSUME NEW s \in Slugs, Uninstall(j, s) PROVE Disclosed'
  <2>. DEFINE r == [NoJob EXCEPT !.kind = "uninstall", !.order = <<s>>, !.stage = "next"]
  <2>1. DOMAIN r = Fields /\ r.pages = 0 /\ r.downloads = 0 /\ r.stash = {} /\ r.bag = {}
    BY DEF NoJob, Fields
  <2>2. Become(j, r)
    BY <1>4 DEF Uninstall
  <2>. HIDE DEF r
  <2> QED BY <1>1, <2>1, <2>2
<1>5. ASSUME NEW i \in Jobs, Rollback(j, i) PROVE Disclosed'
  <2>1. PICK order : Become(j, [NoJob EXCEPT !.kind = "rollback", !.order = order,
                                             !.stage = "next", !.comps = Checklist(order)])
    BY <1>5 DEF Rollback
  <2>. DEFINE r == [NoJob EXCEPT !.kind = "rollback", !.order = order,
                                 !.stage = "next", !.comps = Checklist(order)]
  <2>2. DOMAIN r = Fields /\ r.pages = 0 /\ r.downloads = 0 /\ r.stash = {} /\ r.bag = {}
    BY DEF NoJob, Fields
  <2>. HIDE DEF r
  <2> QED BY <1>1, <2>1, <2>2 DEF r
<1> QED BY <1>2, <1>3, <1>4, <1>5

LEMMA WorkKeeps == ASSUME Disclosed, NEW j \in Jobs, Work(j) PROVE Disclosed'
<1>. DEFINE p == job[j]
<1>1. DOMAIN p = Fields /\ Discreet(p)
  BY DEF Disclosed, Discreet
<1>2. CASE StartComponent(j)
  BY <1>1, <1>2, WorksOn DEF StartComponent, AtStage, Active, Kept, Fields
<1>3. CASE FinishJob(j)
  BY <1>1, <1>3, WorksOn, OneChanges, NothingShown
     DEF FinishJob, AtStage, Active, Kept, Fields
<1>4. CASE DispatchSucceeds(j) \/ DispatchFails(j)
  BY <1>1, <1>4, WorksOn DEF DispatchSucceeds, DispatchFails, AtStage, Active, Kept, Fields
<1>5. CASE SaveRow(j) \/ SaveConfig(j) \/ Provision(j) \/ Bootstrap(j)
  BY <1>1, <1>5, WorksOn
     DEF SaveRow, SaveConfig, Provision, Bootstrap, AtStage, Active, Kept, Fields
<1>6. CASE LoadConfig(j) \/ TearDown(j)
  BY <1>1, <1>6, WorksOn DEF LoadConfig, TearDown, AtStage, Active, Kept, Fields
<1>7. CASE DropRow(j) \/ DropConfig(j) \/ DropSecret(j)
  BY <1>1, <1>7, WorksOn
     DEF DropRow, DropConfig, DropSecret, Dropped, AtStage, Active, Kept, Fields
<1> QED BY <1>2, <1>3, <1>4, <1>5, <1>6, <1>7 DEF Work

LEMMA StallKeeps ==
  ASSUME Disclosed, NEW j \in Jobs, Stall(j) PROVE Disclosed'
<1>1. DOMAIN job[j] = Fields
  BY DEF Disclosed, Discreet
<1> QED BY <1>1, WorksOn DEF Stall, Active, Kept, Fields

LEMMA ResultPageKeeps ==
  ASSUME Disclosed, NEW j \in Jobs, ResultPage(j) PROVE Disclosed'
<1>. DEFINE p == job[j]
            r == [p EXCEPT !.bag = {}, !.stash = IF p.stash = {} THEN p.bag ELSE p.stash,
                           !.pages = IF p.bag = {} THEN @ ELSE @ + 1]
<1>1. Discreet(p) /\ p.completed /\ Become(j, r)
  BY DEF Disclosed, ResultPage
<1>2. Discreet(r)
  BY <1>1 DEF Discreet, Fields
<1> QED BY <1>1, <1>2, OneChanges

LEMMA DownloadKeeps ==
  ASSUME Disclosed, NEW j \in Jobs, Download(j) PROVE Disclosed'
<1>. DEFINE p == job[j]
            r == [p EXCEPT !.stash = {}, !.downloads = @ + 1]
<1>1. Discreet(p) /\ p.stash # {} /\ Become(j, r)
  BY DEF Disclosed, Download
<1>2. Discreet(r)
  BY <1>1 DEF Discreet, Fields
<1> QED BY <1>1, <1>2, OneChanges

LEMMA StepKeeps == Disclosed /\ [Next]_vars => Disclosed'
<1>. SUFFICES ASSUME Disclosed, [Next]_vars PROVE Disclosed'
  OBVIOUS
<1>1. ASSUME NEW j \in Jobs, HangUp(j) PROVE Disclosed'
  BY <1>1, OneChanges, NothingShown DEF HangUp
<1>2. CASE Crash
  BY <1>2, NothingShown DEF Crash, Disclosed
<1>3. CASE UNCHANGED vars
  BY <1>3 DEF vars, Disclosed
<1> QED
  BY <1>1, <1>2, <1>3, StartsKeep, WorkKeeps, StallKeeps, ResultPageKeeps, DownloadKeeps
     DEF Next

\* However many jobs run and however often their pages are asked for, a job's
\* credentials are on one page and in one download at most.
THEOREM DisclosedOnceAlways == Spec => []DisclosedOnce
<1>1. Init => Disclosed
  BY NothingShown DEF Init, Disclosed
<1>2. Disclosed => DisclosedOnce
  BY DEF Disclosed, Discreet, DisclosedOnce
<1> QED BY <1>1, <1>2, StepKeeps, PTL DEF Spec

-----------------------------------------------------------------------------
(* The checklist.                                                          *)

NoChecklist == [s \in Slugs |-> "none"]

\* What the row of the component at hand says at a stage of its work.
Here(stage) ==
  IF stage = "next" THEN {"pending"}
  ELSE IF stage \in {"row", "config", "credential", "bootstrap"} THEN {"done"}
  ELSE IF stage \in {"stuck", "over"} THEN {"pending", "running", "done", "failed"}
  ELSE {"running"}

Removing == {"load", "teardown", "droprow", "dropconfig", "dropsecret"}

\* The rows before the task's position, at it, and behind it.
Told(p) ==
  /\ \A n \in DOMAIN p.order :
       LET state == p.comps[p.order[n]] IN
       /\ n < p.at => state \in {"done", "failed"}
       /\ n < p.at /\ (p.kind = "install" \/ ~p.failed) => state = "done"
       /\ n = p.at => state \in Here(p.stage)
       /\ n > p.at => state = "pending"
  /\ p.stage \in Removing /\ p.stepFailed => p.failed
  /\ p.completed /\ ~p.failed => p.at > Len(p.order)

Honest(p) ==
  /\ DOMAIN p = Fields
  /\ p.order \in Seq(Slugs) /\ IsInjective(p.order)
  /\ p.at \in Nat \ {0} /\ p.stage \in Stages
  /\ p.comps \in [Slugs -> States]
  /\ p.completed => p.stage = "over"
  /\ p.stage \notin {"next", "over"} => p.at <= Len(p.order)
  /\ p.kind = "install" => p.stage \notin Removing
  /\ p.comps # NoChecklist => Told(p)

HonestJobs == job = [j \in Jobs |-> job[j]] /\ \A j \in Jobs : Honest(job[j])

LEMMA NoJobIsHonest == Honest(NoJob)
<1>1. /\ DOMAIN NoJob = Fields /\ NoJob.order = <<>> /\ NoJob.at = 1 /\ NoJob.stage = "over"
      /\ NoJob.comps = NoChecklist /\ NoJob.completed = FALSE /\ NoJob.kind = "none"
  BY DEF NoJob, Fields, NoChecklist
<1>2. <<>> \in Seq(Slugs) /\ IsInjective(<<>>) /\ NoChecklist \in [Slugs -> States]
  BY DEF IsInjective, NoChecklist, States
<1>3. "over" \in Stages
  BY DEF Stages
<1> QED BY <1>1, <1>2, <1>3 DEF Honest

LEMMA OneIsHonest ==
  ASSUME HonestJobs, NEW j \in Jobs, NEW r, Become(j, r), Honest(r)
  PROVE  HonestJobs'
<1>1. job' = [job EXCEPT ![j] = r]
  BY DEF Become
<1>2. job' = [i \in Jobs |-> IF i = j THEN r ELSE job[i]]
  BY <1>1 DEF HonestJobs
<1>3. \A i \in Jobs : Honest(job'[i])
  BY <1>2 DEF HonestJobs
<1>4. job' = [i \in Jobs |-> job'[i]]
  BY <1>2
<1> QED BY <1>3, <1>4 DEF HonestJobs

\* A new job has a checklist of all its components, or none.
LEMMA ChecklistIs ==
  ASSUME NEW order \in Seq(Slugs)
  PROVE  /\ Checklist(order) \in [Slugs -> States]
         /\ \A n \in DOMAIN order : Checklist(order)[order[n]] = "pending"
BY DEF Checklist, States, ToSet

LEMMA NewJobIsHonest ==
  ASSUME NEW r, DOMAIN r = Fields, r.order \in Seq(Slugs), IsInjective(r.order), r.at = 1,
         r.stage = "next", r.completed = FALSE, r.comps \in {NoChecklist, Checklist(r.order)}
  PROVE  Honest(r)
<1>1. "next" \in Stages /\ NoChecklist \in [Slugs -> States]
  BY DEF Stages, NoChecklist, States
<1>2. r.comps \in [Slugs -> States] /\ (r.comps # NoChecklist => r.comps = Checklist(r.order))
  BY <1>1, ChecklistIs
<1>3. r.comps # NoChecklist => Told(r)
  BY <1>2, ChecklistIs DEF Told, Here, Removing
<1> QED BY <1>1, <1>2, <1>3 DEF Honest, Removing

\* A rollback takes some of the components, each once.
LEMMA TeardownIs ==
  ASSUME NEW p, p.order \in Seq(Slugs), IsInjective(p.order), NEW order \in Teardown(p)
  PROVE  order \in Seq(Slugs) /\ IsInjective(order)
<1>1. PICK f \in [1..Cardinality(Done(p)) -> Done(p)] :
        /\ \A a, b \in DOMAIN f : a < b => f[a] > f[b]
        /\ order = [k \in DOMAIN f |-> p.order[f[k]]]
  BY DEF Teardown
<1>2. Cardinality(Done(p)) \in Nat
  <2>1. Done(p) \subseteq 1..Len(p.order)
    BY DEF Done
  <2>2. Len(p.order) \in Int /\ 1 \in Int
    OBVIOUS
  <2>3. IsFiniteSet(1..Len(p.order))
    BY <2>2, FS_Interval
  <2>4. IsFiniteSet(Done(p))
    BY <2>1, <2>3, FS_Subset
  <2> QED BY <2>4, FS_CardinalityType
<1>. DEFINE m == Cardinality(Done(p))
<1>. HIDE DEF m
<1>3. m \in Nat /\ f \in [1..m -> Done(p)] /\ order = [k \in 1..m |-> p.order[f[k]]]
  BY <1>1, <1>2 DEF m
<1>4. Done(p) \subseteq DOMAIN p.order /\ Done(p) \subseteq Nat
  BY DEF Done
<1>5. \A k \in 1..m : f[k] \in DOMAIN p.order /\ f[k] \in Nat /\ p.order[f[k]] \in Slugs
  <2>1. \A n \in DOMAIN p.order : p.order[n] \in Slugs
    OBVIOUS
  <2>2. \A k \in 1..m : f[k] \in Done(p)
    BY <1>3
  <2> QED BY <1>4, <2>1, <2>2
<1>6. order \in Seq(Slugs)
  BY <1>3, <1>5
<1>7. \A a, b \in 1..m : order[a] = order[b] => a = b
  <2>. SUFFICES ASSUME NEW a \in 1..m, NEW b \in 1..m, order[a] = order[b], a # b PROVE FALSE
    OBVIOUS
  <2>1. f[a] = f[b]
    BY <1>3, <1>5 DEF IsInjective
  <2>2. f[a] # f[b]
    <3>1. DOMAIN f = 1..m /\ f[a] \in Nat /\ f[b] \in Nat
      BY <1>3, <1>5
    <3>2. a < b \/ b < a
      BY <1>3
    <3>3. f[a] > f[b] \/ f[b] > f[a]
      BY <1>1, <3>1, <3>2
    <3> QED BY <3>1, <3>3
  <2> QED BY <2>1, <2>2
<1>8. IsInjective(order)
  BY <1>3, <1>7 DEF IsInjective
<1> QED BY <1>6, <1>8

LEMMA StartsAreHonest ==
  ASSUME HonestJobs, NEW j \in Jobs,
         \/ \E chosen \in SUBSET Movable : InstallAll(j, chosen)
         \/ \E s \in Slugs : \E chosen \in SUBSET Movable : InstallOne(j, s, chosen)
         \/ \E s \in Slugs : Uninstall(j, s)
         \/ \E i \in Jobs : Rollback(j, i)
  PROVE  HonestJobs'
<1>1. NoJob.comps = NoChecklist /\ NoJob.at = 1 /\ NoJob.completed = FALSE
  BY DEF NoJob, NoChecklist
<1>2. \A s \in Slugs : <<s>> \in Seq(Slugs) /\ IsInjective(<<s>>)
  BY DEF IsInjective
<1>3. ASSUME NEW chosen, InstallAll(j, chosen) PROVE HonestJobs'
  <2>. DEFINE r == [NoJob EXCEPT !.kind = "install", !.order = Order, !.chosen = chosen,
                                 !.stage = "next", !.comps = Checklist(Order)]
  <2>1. /\ DOMAIN r = Fields /\ r.order = Order /\ r.at = 1 /\ r.stage = "next"
        /\ r.completed = FALSE /\ r.comps = Checklist(Order)
    BY DEF NoJob, Fields
  <2>2. Become(j, r)
    BY <1>3 DEF InstallAll
  <2>. HIDE DEF r
  <2> QED BY <2>1, <2>2, NewJobIsHonest, OneIsHonest, OrderAssumption
<1>4. ASSUME NEW s \in Slugs, NEW chosen, InstallOne(j, s, chosen) PROVE HonestJobs'
  <2>. DEFINE r == [NoJob EXCEPT !.kind = "install", !.order = <<s>>, !.chosen = chosen,
                                 !.stage = "next"]
  <2>1. /\ DOMAIN r = Fields /\ r.order = <<s>> /\ r.at = 1 /\ r.stage = "next"
        /\ r.completed = FALSE /\ r.comps = NoChecklist
    BY DEF NoJob, Fields, NoChecklist
  <2>2. Become(j, r)
    BY <1>4 DEF InstallOne
  <2>. HIDE DEF r
  <2> QED BY <1>2, <2>1, <2>2, NewJobIsHonest, OneIsHonest
<1>5. ASSUME NEW s \in Slugs, Uninstall(j, s) PROVE HonestJobs'
  <2>. DEFINE r == [NoJob EXCEPT !.kind = "uninstall", !.order = <<s>>, !.stage = "next"]
  <2>1. /\ DOMAIN r = Fields /\ r.order = <<s>> /\ r.at = 1 /\ r.stage = "next"
        /\ r.completed = FALSE /\ r.comps = NoChecklist
    BY DEF NoJob, Fields, NoChecklist
  <2>2. Become(j, r)
    BY <1>5 DEF Uninstall
  <2>. HIDE DEF r
  <2> QED BY <1>2, <2>1, <2>2, NewJobIsHonest, OneIsHonest
<1>6. ASSUME NEW i \in Jobs, Rollback(j, i) PROVE HonestJobs'
  <2>1. PICK order \in Teardown(job[i]) :
          Become(j, [NoJob EXCEPT !.kind = "rollback", !.order = order,
                                  !.stage = "next", !.comps = Checklist(order)])
    BY <1>6 DEF Rollback
  <2>. DEFINE r == [NoJob EXCEPT !.kind = "rollback", !.order = order,
                                 !.stage = "next", !.comps = Checklist(order)]
  <2>2. /\ DOMAIN r = Fields /\ r.order = order /\ r.at = 1 /\ r.stage = "next"
        /\ r.completed = FALSE /\ r.comps = Checklist(order)
    BY DEF NoJob, Fields
  <2>3. order \in Seq(Slugs) /\ IsInjective(order)
    BY TeardownIs DEF HonestJobs, Honest
  <2>4. Become(j, r)
    BY <2>1
  <2>. HIDE DEF r
  <2> QED BY <2>2, <2>3, <2>4, NewJobIsHonest, OneIsHonest
<1> QED BY <1>3, <1>4, <1>5, <1>6

\* Marking the component at hand touches no other row.
LEMMA Marks ==
  ASSUME NEW p, Honest(p), p.at <= Len(p.order), NEW state \in States \ {"none"}
  PROVE  LET s == p.order[p.at]  c == Marked(p.comps, s, state) IN
         /\ c \in [Slugs -> States]
         /\ p.comps = NoChecklist => c = NoChecklist
         /\ p.comps # NoChecklist =>
              /\ c[s] = state
              /\ \A n \in DOMAIN p.order : n # p.at => c[p.order[n]] = p.comps[p.order[n]]
<1>. DEFINE s == p.order[p.at]
            c == Marked(p.comps, s, state)
<1>1. p.at \in DOMAIN p.order /\ s \in Slugs
  BY DEF Honest
<1>2. CASE p.comps = NoChecklist
  BY <1>1, <1>2 DEF Marked, NoChecklist, Honest
<1>3. CASE p.comps # NoChecklist
  <2>1. p.comps[s] # "none"
    BY <1>1, <1>3 DEF Honest, Told, Here
  <2>2. c = [p.comps EXCEPT ![s] = state]
    BY <2>1 DEF Marked
  <2>3. \A n \in DOMAIN p.order : n # p.at => p.order[n] # s
    BY <1>1 DEF Honest, IsInjective
  <2>. HIDE DEF c
  <2>4. /\ c \in [Slugs -> States] /\ c[s] = state
        /\ \A t \in Slugs : t # s => c[t] = p.comps[t]
    BY <1>1, <2>2 DEF Honest
  <2>5. \A n \in DOMAIN p.order : p.order[n] \in Slugs
    BY DEF Honest
  <2> QED BY <1>3, <2>3, <2>4, <2>5 DEF c
<1> QED BY <1>2, <1>3


\* The task stays at its component: what it says of it is what it is at.
LEMMA StaysHonest ==
  ASSUME NEW p, Honest(p), p.at <= Len(p.order), ~p.completed,
         NEW state \in States \ {"none"}, NEW r, DOMAIN r = Fields,
         r.order = p.order, r.at = p.at, r.kind = p.kind,
         \/ r.comps = p.comps /\ Here(p.stage) \subseteq Here(r.stage)
         \/ r.comps = Marked(p.comps, p.order[p.at], state) /\ state \in Here(r.stage),
         r.stage \in Stages \ {"next"}, p.kind = "install" => r.stage \notin Removing,
         p.failed => r.failed,
         p.comps # NoChecklist /\ r.stepFailed =>
           r.failed \/ r.stage \notin Removing,
         r.completed => r.failed /\ r.stage = "over"
  PROVE  Honest(r)
<1>1. /\ r.comps \in [Slugs -> States]
      /\ p.comps = NoChecklist => r.comps = NoChecklist
      /\ p.comps # NoChecklist => r.comps[p.order[p.at]] \in Here(r.stage)
      /\ p.comps # NoChecklist =>
           \A n \in DOMAIN p.order : n # p.at => r.comps[p.order[n]] = p.comps[p.order[n]]
  <2>1. CASE r.comps = p.comps /\ Here(p.stage) \subseteq Here(r.stage)
    BY <2>1 DEF Honest, Told
  <2>2. CASE r.comps = Marked(p.comps, p.order[p.at], state) /\ state \in Here(r.stage)
    BY <2>2, Marks
  <2> QED BY <2>1, <2>2
<1>2. r.comps # NoChecklist => Told(r)
  <2>. SUFFICES ASSUME p.comps # NoChecklist PROVE Told(r)
    BY <1>1
  <2>1. Told(p) /\ p.order \in Seq(Slugs) /\ p.at \in Nat
    BY DEF Honest
  <2>2. ASSUME NEW n \in DOMAIN r.order
        PROVE  LET st == r.comps[r.order[n]] IN
               /\ n < r.at => st \in {"done", "failed"}
               /\ n < r.at /\ (r.kind = "install" \/ ~r.failed) => st = "done"
               /\ n = r.at => st \in Here(r.stage)
               /\ n > r.at => st = "pending"
    <3>1. n \in Nat
      BY <2>1
    <3>2. CASE n = p.at
      BY <1>1, <2>1, <3>1, <3>2
    <3>3. CASE n # p.at
      BY <1>1, <2>1, <3>1, <3>3 DEF Told
    <3> QED BY <3>2, <3>3
  <2> QED BY <2>2 DEF Told
<1> QED BY <1>1, <1>2 DEF Honest

\* The task goes on to the next component: the one behind it is settled.
LEMMA MovesOnHonest ==
  ASSUME NEW p, Honest(p), p.at <= Len(p.order), ~p.completed,
         NEW state \in {"done", "failed"}, NEW r, DOMAIN r = Fields,
         r.order = p.order, r.at = p.at + 1, r.kind = p.kind, r.stage = "next",
         \/ r.comps = p.comps /\ Here(p.stage) = {"done"}
         \/ /\ r.comps = Marked(p.comps, p.order[p.at], state)
            /\ state = "failed" /\ p.comps # NoChecklist => p.failed /\ p.kind # "install",
         r.failed = p.failed, r.completed = p.completed,
         p.stage # "next"
  PROVE  Honest(r)
<1>1. /\ r.comps \in [Slugs -> States]
      /\ p.comps = NoChecklist => r.comps = NoChecklist
      /\ p.comps # NoChecklist =>
           /\ r.comps[p.order[p.at]] \in {"done", "failed"}
           /\ r.comps[p.order[p.at]] = "failed" => p.failed /\ p.kind # "install"
      /\ p.comps # NoChecklist =>
           \A n \in DOMAIN p.order : n # p.at => r.comps[p.order[n]] = p.comps[p.order[n]]
  <2>1. CASE r.comps = p.comps /\ Here(p.stage) = {"done"}
    BY <2>1 DEF Honest, Told
  <2>2. CASE /\ r.comps = Marked(p.comps, p.order[p.at], state)
             /\ state = "failed" /\ p.comps # NoChecklist => p.failed /\ p.kind # "install"
    <3>1. state \in States \ {"none"}
      BY DEF States
    <3> QED BY <2>2, <3>1, Marks
  <2> QED BY <2>1, <2>2
<1>2. r.comps # NoChecklist => Told(r)
  <2>. SUFFICES ASSUME p.comps # NoChecklist PROVE Told(r)
    BY <1>1
  <2>1. Told(p) /\ p.order \in Seq(Slugs) /\ p.at \in Nat
    BY DEF Honest
  <2>2. ASSUME NEW n \in DOMAIN r.order
        PROVE  LET st == r.comps[r.order[n]] IN
               /\ n < r.at => st \in {"done", "failed"}
               /\ n < r.at /\ (r.kind = "install" \/ ~r.failed) => st = "done"
               /\ n = r.at => st \in Here(r.stage)
               /\ n > r.at => st = "pending"
    <3>1. n \in Nat
      BY <2>1
    <3>2. CASE n = p.at
      BY <1>1, <2>1, <3>1, <3>2
    <3>3. CASE n < p.at
      BY <1>1, <2>1, <3>1, <3>3 DEF Told
    <3>4. CASE n > p.at
      <4>1. r.comps[r.order[n]] = "pending"
        BY <1>1, <2>1, <3>1, <3>4 DEF Told
      <4> QED BY <2>1, <3>1, <3>4, <4>1 DEF Here
    <3> QED BY <2>1, <3>1, <3>2, <3>3, <3>4
  <2> QED BY <2>2 DEF Told, Removing
<1>3. "next" \in Stages /\ "next" \notin Removing
  BY DEF Stages, Removing
<1> QED BY <1>1, <1>2, <1>3 DEF Honest

\* A stage of the work, with the component it is about.
LEMMA Working ==
  ASSUME HonestJobs, NEW j \in Jobs, NEW stage \in Stages \ {"next", "over"}, AtStage(j, stage)
  PROVE  /\ Honest(job[j]) /\ ~job[j].completed /\ job[j].at <= Len(job[j].order)
         /\ job[j].stage = stage /\ Current(j) = job[j].order[job[j].at]
BY DEF HonestJobs, Honest, AtStage, Active, Current

LEMMA WorkIsHonest == ASSUME HonestJobs, NEW j \in Jobs, Work(j) PROVE HonestJobs'
<1>. DEFINE p == job[j]
<1>1. Honest(p) /\ DOMAIN p = Fields
  BY DEF HonestJobs, Honest
<1>2. CASE StartComponent(j)
  <2>. DEFINE r == [p EXCEPT !.comps = Marked(p.comps, Current(j), "running"), !.stepFailed = FALSE,
                             !.stage = IF p.kind = "install" THEN "dispatch" ELSE "load"]
  <2>1. Become(j, r) /\ ~p.completed /\ p.at <= Len(p.order)
    BY <1>2 DEF StartComponent, AtStage, Active
  <2>2. /\ DOMAIN r = Fields /\ r.order = p.order /\ r.at = p.at /\ r.kind = p.kind
        /\ r.comps = Marked(p.comps, p.order[p.at], "running") /\ r.stepFailed = FALSE
        /\ r.stage = (IF p.kind = "install" THEN "dispatch" ELSE "load")
        /\ r.failed = p.failed /\ r.completed = p.completed
    BY <1>1 DEF Fields, Current
  <2>3. /\ r.stage \in Stages \ {"next"} /\ "running" \in Here(r.stage)
        /\ p.kind = "install" => r.stage \notin Removing
    BY <2>2 DEF Stages, Here, Removing
  <2>4. "running" \in States \ {"none"}
    BY DEF States
  <2>. HIDE DEF r, p
  <2>5. Honest(r)
    BY <1>1, <2>1, <2>2, <2>3, <2>4, StaysHonest
  <2> QED BY <2>1, <2>5, OneIsHonest
<1>3. CASE FinishJob(j)
  <2>1. p.stage = "next" /\ p.at > Len(p.order) /\ ~p.completed
    BY <1>3 DEF FinishJob, AtStage, Active
  <2>. DEFINE r == [p EXCEPT !.completed = TRUE, !.stage = "over"]
  <2>2. Become(j, NoJob) \/ Become(j, r)
    BY <1>3 DEF FinishJob
  <2>3. /\ DOMAIN r = Fields /\ r.order = p.order /\ r.at = p.at /\ r.kind = p.kind
        /\ r.comps = p.comps /\ r.stage = "over" /\ r.failed = p.failed
    BY <1>1 DEF Fields
  <2>4. "over" \in Stages /\ "over" \notin Removing
    BY DEF Stages, Removing
  <2>. HIDE DEF r, p
  <2>5. p.comps # NoChecklist => Told(r)
    BY <1>1, <2>1, <2>3, <2>4 DEF Honest, Told
  <2>6. Honest(r)
    BY <1>1, <2>3, <2>4, <2>5 DEF Honest
  <2> QED BY <2>2, <2>6, OneIsHonest, NoJobIsHonest
<1>4. CASE DispatchSucceeds(j) \/ DispatchFails(j)
  <2>1. "dispatch" \in Stages \ {"next", "over"} /\ AtStage(j, "dispatch")
    BY <1>4 DEF DispatchSucceeds, DispatchFails, Stages
  <2>2. ~p.completed /\ p.at <= Len(p.order) /\ p.stage = "dispatch" /\ Current(j) = p.order[p.at]
    BY <2>1, Working
  <2>. DEFINE r == [p EXCEPT !.comps = Marked(@, Current(j), "done"), !.bag = Announced(j),
                             !.stage = "row"]
              f(bag) == [p EXCEPT !.comps = Marked(@, Current(j), "failed"), !.bag = bag,
                                  !.completed = TRUE, !.failed = TRUE, !.stage = "over"]
  <2>3. Become(j, r) \/ \E bag : Become(j, f(bag))
    BY <1>4 DEF DispatchSucceeds, DispatchFails
  <2>4. /\ DOMAIN r = Fields /\ r.order = p.order /\ r.at = p.at /\ r.kind = p.kind
        /\ r.comps = Marked(p.comps, p.order[p.at], "done") /\ r.stepFailed = p.stepFailed
        /\ r.stage = "row" /\ r.failed = p.failed /\ r.completed = p.completed
    BY <1>1, <2>2 DEF Fields
  <2>5. ASSUME NEW bag
        PROVE  LET g == f(bag) IN
               /\ DOMAIN g = Fields /\ g.order = p.order /\ g.at = p.at /\ g.kind = p.kind
               /\ g.comps = Marked(p.comps, p.order[p.at], "failed") /\ g.stepFailed = p.stepFailed
               /\ g.stage = "over" /\ g.failed = TRUE /\ g.completed = TRUE
    BY <1>1, <2>2 DEF Fields
  <2>6. /\ {"row", "over"} \subseteq (Stages \ {"next"}) \ Removing
        /\ "done" \in Here("row") /\ "failed" \in Here("over") /\ {"done", "failed"} \subseteq States \ {"none"}
    BY DEF Stages, Removing, Here, States
  <2>. HIDE DEF r, f, p
  <2>7. Honest(r)
    BY <1>1, <2>2, <2>4, <2>6, StaysHonest
  <2>8. ASSUME NEW bag PROVE Honest(f(bag))
    BY <1>1, <2>2, <2>5, <2>6, StaysHonest
  <2> QED BY <2>3, <2>7, <2>8, OneIsHonest
<1>5. ASSUME NEW stage \in Stages \ {"next", "over"}, AtStage(j, stage),
             NEW r, Become(j, r), DOMAIN r = Fields,
             r.order = p.order, r.at = p.at, r.kind = p.kind, r.comps = p.comps,
             r.completed = p.completed, r.stage \in Stages \ {"next"},
             Here(stage) = Here(r.stage), stage \in Removing \/ r.stage \notin Removing,
             p.failed => r.failed, r.stepFailed => p.stepFailed \/ r.failed
      PROVE  HonestJobs'
  <2>1. ~p.completed /\ p.at <= Len(p.order) /\ p.stage = stage
    BY <1>5, Working
  <2>2. "done" \in States \ {"none"}
    BY DEF States
  <2>. HIDE DEF p
  <2>3. p.comps # NoChecklist /\ p.stepFailed /\ p.stage \in Removing => p.failed
    BY <1>1 DEF Honest, Told
  <2>4. p.kind = "install" => r.stage \notin Removing
    BY <1>1, <1>5, <2>1 DEF Honest
  <2>5. Honest(r)
    BY <1>1, <1>5, <2>1, <2>2, <2>3, <2>4, StaysHonest
  <2> QED BY <1>5, <2>5, OneIsHonest
<1>6. /\ {"row", "config", "credential", "bootstrap"} \cup Removing \subseteq Stages \ {"next", "over"}
      /\ \A a, b \in {"row", "config", "credential", "bootstrap"} : Here(a) = Here(b)
      /\ \A a, b \in Removing : Here(a) = Here(b)
      /\ {"row", "config", "credential", "bootstrap"} \cap Removing = {}
      /\ Here("bootstrap") = {"done"}
  BY DEF Stages, Removing, Here
<1>7. CASE SaveRow(j) \/ SaveConfig(j)
  <2>. DEFINE c == [p EXCEPT !.stage = "config"]
              d == [p EXCEPT !.stage = "credential"]
  <2>1. \/ AtStage(j, "row") /\ Become(j, c)
        \/ AtStage(j, "config") /\ Become(j, d)
    BY <1>7 DEF SaveRow, SaveConfig
  <2>2. \A r \in {c, d} : /\ DOMAIN r = Fields /\ r.order = p.order /\ r.at = p.at /\ r.kind = p.kind
                          /\ r.comps = p.comps /\ r.completed = p.completed
                          /\ r.failed = p.failed /\ r.stepFailed = p.stepFailed
    BY <1>1 DEF Fields
  <2>3. c.stage = "config" /\ d.stage = "credential"
    BY <1>1 DEF Fields
  <2>. HIDE DEF c, d, p
  <2> QED BY <1>5, <1>6, <2>1, <2>2, <2>3
<1>8. CASE Provision(j)
  <2>. DEFINE c == [p EXCEPT !.bag = @ \cup {Current(j)}, !.stage = "bootstrap"]
              d == [p EXCEPT !.stage = "bootstrap"]
  <2>1. AtStage(j, "credential") /\ (Become(j, c) \/ Become(j, d))
    BY <1>8 DEF Provision
  <2>2. \A r \in {c, d} : /\ DOMAIN r = Fields /\ r.order = p.order /\ r.at = p.at /\ r.kind = p.kind
                          /\ r.comps = p.comps /\ r.completed = p.completed
                          /\ r.failed = p.failed /\ r.stepFailed = p.stepFailed /\ r.stage = "bootstrap"
    BY <1>1 DEF Fields
  <2>. HIDE DEF c, d, p
  <2> QED BY <1>5, <1>6, <2>1, <2>2
<1>9. CASE Bootstrap(j)
  <2>. DEFINE c == [p EXCEPT !.bag = @ \cup {Current(j)}, !.at = @ + 1, !.stage = "next"]
              d == [p EXCEPT !.at = @ + 1, !.stage = "next"]
  <2>1. AtStage(j, "bootstrap") /\ (Become(j, c) \/ Become(j, d))
    BY <1>9 DEF Bootstrap
  <2>2. ~p.completed /\ p.at <= Len(p.order) /\ p.stage = "bootstrap"
    BY <1>6, <2>1, Working
  <2>3. \A r \in {c, d} : /\ DOMAIN r = Fields /\ r.order = p.order /\ r.at = p.at + 1
                          /\ r.kind = p.kind /\ r.comps = p.comps /\ r.completed = p.completed
                          /\ r.failed = p.failed /\ r.stage = "next"
    BY <1>1 DEF Fields
  <2>. HIDE DEF c, d, p
  <2>4. Honest(c) /\ Honest(d)
    BY <1>1, <1>6, <2>2, <2>3, MovesOnHonest
  <2> QED BY <2>1, <2>4, OneIsHonest
<1>10. CASE LoadConfig(j)
  <2>1. PICK known \in BOOLEAN :
          Become(j, [p EXCEPT !.stage = "teardown",
                              !.blind = IF known THEN @ ELSE @ \cup {Current(j)}])
    BY <1>10 DEF LoadConfig
  <2>. DEFINE r == [p EXCEPT !.stage = "teardown",
                             !.blind = IF known THEN @ ELSE @ \cup {Current(j)}]
  <2>2. AtStage(j, "load") /\ Become(j, r)
    BY <1>10, <2>1 DEF LoadConfig
  <2>3. /\ DOMAIN r = Fields /\ r.order = p.order /\ r.at = p.at /\ r.kind = p.kind
        /\ r.comps = p.comps /\ r.completed = p.completed
        /\ r.failed = p.failed /\ r.stepFailed = p.stepFailed /\ r.stage = "teardown"
    BY <1>1 DEF Fields
  <2>. HIDE DEF r, p
  <2> QED BY <1>5, <1>6, <2>2, <2>3 DEF Removing
<1>11. CASE TearDown(j)
  <2>. DEFINE c == [p EXCEPT !.stage = "droprow"]
              w == [c EXCEPT !.warned = @ \cup {Current(j)}]
              d == [c EXCEPT !.stepFailed = TRUE, !.failed = TRUE]
  <2>1. AtStage(j, "teardown") /\ (Become(j, c) \/ Become(j, w) \/ Become(j, d))
    BY <1>11 DEF TearDown
  <2>2. /\ \A r \in {c, w, d} : /\ DOMAIN r = Fields /\ r.order = p.order /\ r.at = p.at
                             /\ r.kind = p.kind /\ r.comps = p.comps
                             /\ r.completed = p.completed /\ r.stage = "droprow"
        /\ \A r \in {c, w} : r.failed = p.failed /\ r.stepFailed = p.stepFailed
        /\ d.failed = TRUE
    BY <1>1 DEF Fields
  <2>. HIDE DEF c, w, d, p
  <2>3. ASSUME NEW r \in {c, w}, Become(j, r) PROVE HonestJobs'
    BY <1>5, <1>6, <2>1, <2>2, <2>3 DEF Removing
  <2>4. ASSUME Become(j, d) PROVE HonestJobs'
    BY <1>5, <1>6, <2>1, <2>2, <2>4 DEF Removing
  <2> QED BY <2>1, <2>3, <2>4
<1>12. CASE DropRow(j) \/ DropConfig(j)
  <2>. DEFINE a == [p EXCEPT !.stage = "dropconfig"]
              b == [a EXCEPT !.noted = @ \cup {Current(j)}]
              c == [p EXCEPT !.stage = "dropsecret"]
              d == [c EXCEPT !.noted = @ \cup {Current(j)}]
  <2>1. \/ AtStage(j, "droprow") /\ (Become(j, a) \/ Become(j, b))
        \/ AtStage(j, "dropconfig") /\ (Become(j, c) \/ Become(j, d))
    BY <1>12 DEF DropRow, DropConfig, Dropped
  <2>2. /\ DOMAIN a = Fields /\ a.order = p.order /\ a.at = p.at /\ a.kind = p.kind
        /\ a.comps = p.comps /\ a.completed = p.completed
        /\ a.failed = p.failed /\ a.stepFailed = p.stepFailed /\ a.stage = "dropconfig"
    BY <1>1 DEF Fields
  <2>3. /\ DOMAIN c = Fields /\ c.order = p.order /\ c.at = p.at /\ c.kind = p.kind
        /\ c.comps = p.comps /\ c.completed = p.completed
        /\ c.failed = p.failed /\ c.stepFailed = p.stepFailed /\ c.stage = "dropsecret"
    BY <1>1 DEF Fields
  <2>. HIDE DEF a, c, p
  <2>4. /\ DOMAIN b = Fields /\ b.order = p.order /\ b.at = p.at /\ b.kind = p.kind
        /\ b.comps = p.comps /\ b.completed = p.completed
        /\ b.failed = p.failed /\ b.stepFailed = p.stepFailed /\ b.stage = "dropconfig"
    BY <2>2 DEF Fields
  <2>5. /\ DOMAIN d = Fields /\ d.order = p.order /\ d.at = p.at /\ d.kind = p.kind
        /\ d.comps = p.comps /\ d.completed = p.completed
        /\ d.failed = p.failed /\ d.stepFailed = p.stepFailed /\ d.stage = "dropsecret"
    BY <2>3 DEF Fields
  <2>. HIDE DEF b, d
  <2>6. ASSUME AtStage(j, "droprow"), NEW r \in {a, b}, Become(j, r) PROVE HonestJobs'
    BY <1>5, <1>6, <2>2, <2>4, <2>6 DEF Removing
  <2>7. ASSUME AtStage(j, "dropconfig"), NEW r \in {c, d}, Become(j, r) PROVE HonestJobs'
    BY <1>5, <1>6, <2>3, <2>5, <2>7 DEF Removing
  <2> QED BY <2>1, <2>6, <2>7
<1>13. CASE DropSecret(j)
  <2>. DEFINE state == IF p.stepFailed THEN "failed" ELSE "done"
              c == [p EXCEPT !.comps = Marked(p.comps, Current(j), state),
                             !.at = @ + 1, !.stage = "next"]
              d == [c EXCEPT !.noted = @ \cup {Current(j)}]
  <2>1. AtStage(j, "dropsecret") /\ (Become(j, c) \/ Become(j, d))
    BY <1>13 DEF DropSecret, Dropped
  <2>2. /\ ~p.completed /\ p.at <= Len(p.order) /\ p.stage = "dropsecret"
        /\ Current(j) = p.order[p.at]
    BY <1>6, <2>1, Working DEF Removing
  <2>4. state \in {"done", "failed"}
    OBVIOUS
  <2>5. state = "failed" /\ p.comps # NoChecklist => p.failed /\ p.kind # "install"
    BY <1>1, <2>2 DEF Honest, Told, Removing
  <2>. HIDE DEF state
  <2>6. /\ DOMAIN c = Fields /\ c.order = p.order /\ c.at = p.at + 1 /\ c.kind = p.kind
        /\ c.comps = Marked(p.comps, p.order[p.at], state) /\ c.completed = p.completed
        /\ c.failed = p.failed /\ c.stage = "next"
    BY <1>1, <2>2 DEF Fields
  <2>. HIDE DEF c, p
  <2>7. /\ DOMAIN d = Fields /\ d.order = p.order /\ d.at = p.at + 1 /\ d.kind = p.kind
        /\ d.comps = Marked(p.comps, p.order[p.at], state) /\ d.completed = p.completed
        /\ d.failed = p.failed /\ d.stage = "next"
    BY <2>6 DEF Fields
  <2>. HIDE DEF d
  <2>8. Honest(c)
    BY <1>1, <2>2, <2>4, <2>5, <2>6, MovesOnHonest
  <2>9. Honest(d)
    BY <1>1, <2>2, <2>4, <2>5, <2>7, MovesOnHonest
  <2> QED BY <2>1, <2>8, <2>9, OneIsHonest
<1> QED
  BY <1>2, <1>3, <1>4, <1>7, <1>8, <1>9, <1>10, <1>11, <1>12, <1>13 DEF Work

\* The pages read the checklist and change the credentials only.
Unturned(p, q) ==
  /\ DOMAIN q = Fields /\ q.order = p.order /\ q.at = p.at
  /\ q.kind = p.kind /\ q.stage = p.stage /\ q.comps = p.comps
  /\ q.completed = p.completed /\ q.failed = p.failed /\ q.stepFailed = p.stepFailed
  /\ q.blind = p.blind /\ q.noted = p.noted /\ q.warned = p.warned

LEMMA PageUnturned ==
  ASSUME NEW p, DOMAIN p = Fields, NEW b, NEW s, NEW n, NEW m
  PROVE  /\ Unturned(p, [p EXCEPT !.bag = b, !.stash = s, !.pages = n])
         /\ Unturned(p, [p EXCEPT !.stash = s, !.downloads = m])
<1>1. Unturned(p, [p EXCEPT !.bag = b, !.stash = s, !.pages = n])
  BY DEF Fields, Unturned
<1>2. Unturned(p, [p EXCEPT !.stash = s, !.downloads = m])
  BY DEF Fields, Unturned
<1> QED BY <1>1, <1>2

LEMMA StallIsHonest == ASSUME HonestJobs, NEW j \in Jobs, Stall(j) PROVE HonestJobs'
<1>. DEFINE p == job[j]
            r == [p EXCEPT !.stage = "stuck"]
<1>1. /\ Honest(p) /\ DOMAIN p = Fields /\ ~p.completed /\ Become(j, r)
      /\ p.stage \in {"dispatch", "credential", "bootstrap", "teardown"}
  BY DEF HonestJobs, Honest, Stall, Active
<1>2. /\ DOMAIN r = Fields /\ r.order = p.order /\ r.at = p.at /\ r.kind = p.kind
      /\ r.comps = p.comps /\ r.stage = "stuck" /\ r.failed = p.failed
      /\ r.completed = p.completed
  BY <1>1 DEF Fields
<1>. HIDE DEF p, r
<1>3. /\ Here(p.stage) \subseteq Here("stuck") /\ "stuck" \in Stages \ {"next"}
      /\ "stuck" \notin Removing /\ "done" \in States \ {"none"}
  BY <1>1 DEF Here, Stages, Removing, States
<1>4. p.at <= Len(p.order)
  BY <1>1 DEF Honest
<1>5. Honest(r)
  BY <1>1, <1>2, <1>3, <1>4, StaysHonest
<1> QED BY <1>1, <1>5, OneIsHonest

LEMMA PagesAreHonest ==
  ASSUME HonestJobs, NEW j \in Jobs, ResultPage(j) \/ Download(j) PROVE HonestJobs'
<1>. DEFINE p == job[j]
            r == [p EXCEPT !.bag = {}, !.stash = IF p.stash = {} THEN p.bag ELSE p.stash,
                           !.pages = IF p.bag = {} THEN @ ELSE @ + 1]
            d == [p EXCEPT !.stash = {}, !.downloads = @ + 1]
<1>1. Honest(p) /\ DOMAIN p = Fields /\ (Become(j, r) \/ Become(j, d))
  BY DEF HonestJobs, Honest, ResultPage, Download
<1>. HIDE DEF p
<1>2. Unturned(p, r) /\ Unturned(p, d)
  <2>1. DOMAIN p = Fields
    BY <1>1
  <2> QED BY <2>1, PageUnturned
<1>. HIDE DEF r, d
<1>3. ASSUME NEW q, Unturned(p, q) PROVE Honest(q)
  BY <1>1, <1>3 DEF Honest, Told, Unturned
<1> QED BY <1>1, <1>2, <1>3, OneIsHonest DEF p

LEMMA StepIsHonest == HonestJobs /\ [Next]_vars => HonestJobs'
<1>. SUFFICES ASSUME HonestJobs, [Next]_vars PROVE HonestJobs'
  OBVIOUS
<1>1. ASSUME NEW j \in Jobs, HangUp(j) PROVE HonestJobs'
  BY <1>1, OneIsHonest, NoJobIsHonest DEF HangUp
<1>2. CASE Crash
  BY <1>2, NoJobIsHonest DEF Crash, HonestJobs
<1>3. CASE UNCHANGED vars
  BY <1>3 DEF vars, HonestJobs
<1> QED
  BY <1>1, <1>2, <1>3, StartsAreHonest, WorkIsHonest, StallIsHonest, PagesAreHonest DEF Next

\* Whatever the components and however the drivers, the store and the vault
\* answer, the checklist an operator watches says where the chain is: what is
\* before the task is settled, what is behind it pending, an install goes no
\* further than its first failure, and a job that ends without an error has
\* finished all of it.
THEOREM ChecklistAlwaysHonest == Spec => []ChecklistIsHonest
<1>1. Init => HonestJobs
  BY NoJobIsHonest DEF Init, HonestJobs
<1>2. HonestJobs => ChecklistIsHonest
  <2>. SUFFICES ASSUME HonestJobs, NEW j \in Jobs, job[j].comps # NoChecklist
                PROVE  LET p == job[j]
                           State(n) == p.comps[p.order[n]]
                       IN
                       /\ \A n \in DOMAIN p.order :
                            /\ n < p.at => State(n) \in {"done", "failed"}
                            /\ n > p.at => State(n) = "pending"
                            /\ p.kind = "install" /\ n < p.at => State(n) = "done"
                       /\ p.completed /\ ~p.failed =>
                            \A n \in DOMAIN p.order : State(n) = "done"
    BY DEF ChecklistIsHonest, NoJob, NoChecklist
  <2>1. Honest(job[j]) /\ Told(job[j])
    BY DEF HonestJobs, Honest
  <2>2. job[j].order \in Seq(Slugs) /\ job[j].at \in Nat
    BY <2>1 DEF Honest
  <2> QED BY <2>1, <2>2 DEF Told
<1> QED BY <1>1, <1>2, StepIsHonest, PTL DEF Spec
-----------------------------------------------------------------------------
(* Rollbacks, one job or uninstall at work at a time.                      *)

Alone == \A i, k \in Jobs : Active(i) /\ Active(k) => i = k

\* A component off the host, or one whose removal had warnings, or may hide
\* them; out of the tables, or noted.
Off(p, s) == s \notin running \/ s \in p.warned \cup Silent
Out(p, s, set) == s \notin p.noted => s \notin set

\* What a rollback has done of the components before its position, and of the
\* one it is at.
CleansUp(p) ==
  /\ \A n \in DOMAIN p.order : n < p.at =>
       /\ p.comps[p.order[n]] = "done" => Off(p, p.order[n])
       /\ Out(p, p.order[n], rows \cup configs \cup secrets)
  /\ p.at <= Len(p.order) =>
       LET s == p.order[p.at] IN
       /\ p.stage \in {"droprow", "dropconfig", "dropsecret"} /\ ~p.stepFailed => Off(p, s)
       /\ p.stage \in {"dropconfig", "dropsecret"} => Out(p, s, rows)
       /\ p.stage = "dropsecret" => Out(p, s, configs)
  /\ p.stage \in Removing \cup {"next", "stuck"}

Cleaning ==
  /\ Alone
  /\ \A j \in Jobs : job[j].kind = "rollback" /\ ~job[j].completed => CleansUp(job[j])

\* While a job is at work no other starts.
LEMMA OnlyStart ==
  ASSUME MaxActive = 1, IsFiniteSet(Jobs), NEW j \in Jobs, MayStart(j)
  PROVE  \A i \in Jobs : ~Active(i)
<1>. DEFINE A == {i \in Jobs : Active(i)}
<1>1. IsFiniteSet(A)
  BY FS_Subset
<1>2. Cardinality(A) \in Nat /\ Cardinality(A) < 1
  BY <1>1, FS_CardinalityType DEF MayStart
<1>3. Cardinality(A) = 0
  BY <1>2
<1>4. A = {}
  BY <1>1, <1>3, FS_EmptySet
<1> QED BY <1>4

\* What a step of one job does of the others, and of itself.
LEMMA OnlyOne ==
  ASSUME HonestJobs, NEW j \in Jobs, NEW r, Become(j, r)
  PROVE  job'[j] = r /\ \A i \in Jobs : i # j => job'[i] = job[i]
BY DEF HonestJobs, Become

LEMMA StartsClean ==
  ASSUME HonestJobs, Cleaning, MaxActive = 1, IsFiniteSet(Jobs), NEW j \in Jobs,
         \/ \E chosen \in SUBSET Movable : InstallAll(j, chosen)
         \/ \E s \in Slugs : \E chosen \in SUBSET Movable : InstallOne(j, s, chosen)
         \/ \E s \in Slugs : Uninstall(j, s)
         \/ \E i \in Jobs : Rollback(j, i)
  PROVE  Cleaning'
<1>. DEFINE New(r) ==
              /\ Become(j, r)
              /\ r.kind = "rollback" => r.at = 1 /\ r.stage = "next" /\ r.order \in Seq(Slugs)
<1>1. /\ MayStart(j)
      /\ \E r : New(r)
  <2>. DEFINE a(chosen) == [NoJob EXCEPT !.kind = "install", !.order = Order, !.chosen = chosen,
                                         !.stage = "next", !.comps = Checklist(Order)]
              b(s, chosen) == [NoJob EXCEPT !.kind = "install", !.order = <<s>>, !.chosen = chosen,
                                            !.stage = "next"]
              c(s) == [NoJob EXCEPT !.kind = "uninstall", !.order = <<s>>, !.stage = "next"]
              d(order) == [NoJob EXCEPT !.kind = "rollback", !.order = order,
                                        !.stage = "next", !.comps = Checklist(order)]
  <2>1. /\ \A chosen : a(chosen).kind = "install"
        /\ \A s, chosen : b(s, chosen).kind = "install"
        /\ \A s : c(s).kind = "uninstall"
        /\ \A order : d(order).at = 1 /\ d(order).stage = "next" /\ d(order).order = order
    BY DEF NoJob
  <2>2. ASSUME NEW i \in Jobs, Rollback(j, i)
        PROVE  MayStart(j) /\ \E order \in Seq(Slugs) : Become(j, d(order))
    <3>1. PICK order \in Teardown(job[i]) : Become(j, d(order))
      BY <2>2 DEF Rollback
    <3>2. order \in Seq(Slugs)
      BY TeardownIs DEF HonestJobs, Honest
    <3> QED BY <2>2, <3>1, <3>2 DEF Rollback
  <2>3. \/ \E chosen : Become(j, a(chosen))
        \/ \E s, chosen : Become(j, b(s, chosen))
        \/ \E s : Become(j, c(s))
        \/ \E order \in Seq(Slugs) : Become(j, d(order))
    BY <2>2 DEF InstallAll, InstallOne, Uninstall
  <2>4. MayStart(j)
    BY <2>2 DEF InstallAll, InstallOne, Uninstall
  <2>. HIDE DEF a, b, c, d
  <2>5. ASSUME NEW chosen, Become(j, a(chosen)) PROVE \E r : New(r)
    BY <2>1, <2>5
  <2>6. ASSUME NEW s, NEW chosen, Become(j, b(s, chosen)) PROVE \E r : New(r)
    BY <2>1, <2>6
  <2>7. ASSUME NEW s, Become(j, c(s)) PROVE \E r : New(r)
    BY <2>1, <2>7
  <2>8. ASSUME NEW order \in Seq(Slugs), Become(j, d(order)) PROVE \E r : New(r)
    BY <2>1, <2>8
  <2> QED BY <2>3, <2>4, <2>5, <2>6, <2>7, <2>8
<1>2. \A i \in Jobs : ~Active(i)
  BY <1>1, OnlyStart
<1>3. PICK r : New(r)
  BY <1>1
<1>4. job'[j] = r /\ \A i \in Jobs : i # j => job'[i] = job[i]
  BY <1>3, OnlyOne
<1>5. Alone'
  BY <1>2, <1>4 DEF Alone, Active
<1>6. ASSUME NEW i \in Jobs, job'[i].kind = "rollback", ~job'[i].completed PROVE CleansUp(job[i])'
  <2>1. i = j
    BY <1>2, <1>4, <1>6 DEF Active
  <2> QED BY <1>3, <1>4, <1>6, <2>1 DEF CleansUp
<1> QED BY <1>5, <1>6 DEF Cleaning

\* The work of the one job there is.
LEMMA OthersRest ==
  ASSUME HonestJobs, Cleaning, NEW j \in Jobs, Active(j),
         NEW r, Become(j, r), r.kind = job[j].kind \/ r.completed \/ r.kind = "none",
         r.kind = "rollback" /\ ~r.completed => CleansUp(job[j])'
  PROVE  Cleaning'
<1>1. job'[j] = r /\ \A i \in Jobs : i # j => job'[i] = job[i]
  BY OnlyOne
<1>2. \A i \in Jobs : i # j => ~Active(i)
  BY DEF Cleaning, Alone
<1>3. Alone'
  BY <1>1, <1>2 DEF Alone, Active
<1>4. ASSUME NEW i \in Jobs, job'[i].kind = "rollback", ~job'[i].completed PROVE CleansUp(job[i])'
  <2>1. i = j
    BY <1>1, <1>2, <1>4 DEF Active
  <2> QED BY <1>1, <1>4, <2>1
<1> QED BY <1>3, <1>4 DEF Cleaning

\* Every step of a rollback leaves what it took away, and takes its own away or
\* notes that it did not.
LEMMA RollbackWorks ==
  ASSUME HonestJobs, Cleaning, NEW j \in Jobs, job[j].kind = "rollback", Work(j)
  PROVE  \E r : Become(j, r) /\ r.kind = "rollback" /\ (r.completed \/ CleansUp(job[j])')
<1>. DEFINE p == job[j]
            s == Current(j)
            Goal == \E r : Become(j, r) /\ r.kind = "rollback" /\ (r.completed \/ CleansUp(job[j])')
<1>1. /\ Honest(p) /\ DOMAIN p = Fields /\ p.order \in Seq(Slugs) /\ p.at \in Nat \ {0}
      /\ Active(j) /\ p.kind = "rollback" /\ CleansUp(p) /\ p.stage \in Removing \cup {"next"}
      /\ p.stage # "next" => p.at <= Len(p.order) /\ s = p.order[p.at]
  <2>1. Active(j)
    BY DEF Work, StartComponent, FinishJob, DispatchSucceeds, DispatchFails, SaveRow, SaveConfig,
           Provision, Bootstrap, LoadConfig, TearDown, DropRow, DropConfig, DropSecret, AtStage
  <2>2. Honest(p) /\ CleansUp(p)
    BY <2>1 DEF HonestJobs, Cleaning, Active
  <2>3. p.stage # "stuck"
    BY DEF Work, StartComponent, FinishJob, DispatchSucceeds, DispatchFails, SaveRow, SaveConfig,
           Provision, Bootstrap, LoadConfig, TearDown, DropRow, DropConfig, DropSecret, AtStage
  <2> QED BY <2>1, <2>2, <2>3 DEF Honest, CleansUp, Current, Removing
<1>2. \A n \in DOMAIN p.order : n < p.at /\ p.stage # "next" => p.order[n] # s
  BY <1>1 DEF Honest, IsInjective
\* What has to be shown of a step that leaves the task at its component.
<1>3. ASSUME NEW r, Become(j, r), DOMAIN r = Fields, r.order = p.order, r.at = p.at, r.kind = p.kind,
             \A n \in DOMAIN p.order : n < p.at => r.comps[p.order[n]] = p.comps[p.order[n]],
             p.warned \subseteq r.warned, p.noted \subseteq r.noted, running' \subseteq running,
             rows' \subseteq rows, configs' \subseteq configs, secrets' \subseteq secrets,
             r.stage \in Removing, p.at <= Len(p.order),
             r.stage \in {"droprow", "dropconfig", "dropsecret"} /\ ~r.stepFailed =>
               p.order[p.at] \notin running' \/ p.order[p.at] \in r.warned \cup Silent,
             r.stage \in {"dropconfig", "dropsecret"} =>
               p.order[p.at] \in r.noted \/ p.order[p.at] \notin rows',
             r.stage = "dropsecret" => p.order[p.at] \in r.noted \/ p.order[p.at] \notin configs'
      PROVE  Goal
  <2>1. job'[j] = r
    BY <1>3, OnlyOne
  <2>2. ASSUME NEW n \in DOMAIN p.order, n < p.at
        PROVE  /\ r.comps[p.order[n]] = "done" =>
                    p.order[n] \notin running' \/ p.order[n] \in r.warned \cup Silent
               /\ p.order[n] \in r.noted \/ p.order[n] \notin rows' \cup configs' \cup secrets'
    <3>1. p.comps[p.order[n]] = "done" => Off(p, p.order[n])
      BY <1>1, <2>2 DEF CleansUp
    <3>2. Out(p, p.order[n], rows \cup configs \cup secrets)
      BY <1>1, <2>2 DEF CleansUp
    <3>3. p.stage # "next" => p.order[n] # s
      BY <1>2, <2>2
    <3> QED BY <1>3, <2>2, <3>1, <3>2, <3>3 DEF Off, Out
  <2>. HIDE DEF p, s
  <2>3. CleansUp(job[j])'
    BY <1>1, <1>3, <2>1, <2>2 DEF CleansUp, Off, Out
  <2> QED BY <1>1, <1>3, <2>3
<1>4. CASE StartComponent(j)
  <2>. DEFINE r == [p EXCEPT !.comps = Marked(p.comps, s, "running"), !.stepFailed = FALSE,
                             !.stage = IF p.kind = "install" THEN "dispatch" ELSE "load"]
  <2>1. Become(j, r) /\ p.stage = "next" /\ p.at <= Len(p.order) /\ s = p.order[p.at]
    BY <1>4 DEF StartComponent, AtStage, Current
  <2>2. /\ DOMAIN r = Fields /\ r.order = p.order /\ r.at = p.at /\ r.kind = p.kind
        /\ r.comps = Marked(p.comps, s, "running") /\ r.warned = p.warned /\ r.noted = p.noted
        /\ r.stage = "load"
    BY <1>1 DEF Fields
  <2>3. "running" \in States \ {"none"}
    BY DEF States
  <2>. HIDE DEF r
  <2>4. \A n \in DOMAIN p.order : n < p.at => r.comps[p.order[n]] = p.comps[p.order[n]]
    <3>. DEFINE c == Marked(p.comps, p.order[p.at], "running")
    <3>. HIDE DEF p, s
    <3>1. /\ p.comps = NoChecklist => c = NoChecklist
          /\ p.comps # NoChecklist =>
               \A n \in DOMAIN p.order : n # p.at => c[p.order[n]] = p.comps[p.order[n]]
      BY <1>1, <2>1, <2>3, Marks
    <3>2. \A n \in DOMAIN p.order : n < p.at => n # p.at
      BY <1>1 DEF Honest
    <3>3. r.comps = c
      BY <2>1, <2>2
    <3>. HIDE DEF c
    <3> QED BY <3>1, <3>2, <3>3
  <2>5. UNCHANGED world
    BY <1>4 DEF StartComponent
  <2>. HIDE DEF p, s
  <2>6. r.stage \in Removing /\ r.stage \notin {"droprow", "dropconfig", "dropsecret"}
    BY <2>2 DEF Removing
  <2> QED BY <1>3, <2>1, <2>2, <2>4, <2>5, <2>6 DEF world
<1>5. CASE FinishJob(j)
  <2>. DEFINE r == [p EXCEPT !.completed = TRUE, !.stage = "over"]
  <2>1. Become(j, r)
    BY <1>1, <1>5 DEF FinishJob
  <2>2. r.kind = "rollback" /\ r.completed
    BY <1>1 DEF Fields
  <2>. HIDE DEF r
  <2> QED BY <2>1, <2>2
<1>6. CASE LoadConfig(j)
  <2>1. PICK known : Become(j, [p EXCEPT !.stage = "teardown",
                                         !.blind = IF known THEN @ ELSE @ \cup {s}])
    BY <1>6 DEF LoadConfig
  <2>. DEFINE r == [p EXCEPT !.stage = "teardown", !.blind = IF known THEN @ ELSE @ \cup {s}]
  <2>2. Become(j, r) /\ p.stage = "load" /\ UNCHANGED world
    BY <1>6, <2>1 DEF LoadConfig, AtStage
  <2>3. /\ DOMAIN r = Fields /\ r.order = p.order /\ r.at = p.at /\ r.kind = p.kind
        /\ r.comps = p.comps /\ r.warned = p.warned /\ r.noted = p.noted
        /\ r.stage = "teardown"
    BY <1>1 DEF Fields
  <2>. HIDE DEF r, p, s
  <2> QED BY <1>1, <1>3, <2>2, <2>3 DEF world, Removing
<1>7. CASE TearDown(j)
  <2>. DEFINE c == [p EXCEPT !.stage = "droprow"]
              w == [c EXCEPT !.warned = @ \cup {s}]
              d == [c EXCEPT !.stepFailed = TRUE, !.failed = TRUE]
  <2>1. /\ p.stage = "teardown" /\ UNCHANGED <<rows, configs, secrets>>
        /\ running' \subseteq running
        /\ \/ (s \in running' => s \in Silent) /\ Become(j, c)
           \/ Become(j, w)
           \/ Become(j, d)
    BY <1>7 DEF TearDown, TakeAway, AtStage
  <2>2. /\ DOMAIN c = Fields /\ c.order = p.order /\ c.at = p.at /\ c.kind = p.kind
        /\ c.comps = p.comps /\ c.warned = p.warned /\ c.noted = p.noted
        /\ c.stage = "droprow" /\ c.stepFailed = p.stepFailed
    BY <1>1 DEF Fields
  <2>. HIDE DEF c
  <2>3. /\ DOMAIN d = Fields /\ d.order = p.order /\ d.at = p.at /\ d.kind = p.kind
        /\ d.comps = p.comps /\ d.warned = p.warned /\ d.noted = p.noted
        /\ d.stage = "droprow" /\ d.stepFailed = TRUE
    BY <2>2 DEF Fields
  <2>4. /\ DOMAIN w = Fields /\ w.order = p.order /\ w.at = p.at /\ w.kind = p.kind
        /\ w.comps = p.comps /\ w.warned = p.warned \cup {s} /\ w.noted = p.noted
        /\ w.stage = "droprow"
    BY <2>2 DEF Fields
  <2>5. "droprow" \in Removing /\ "droprow" \notin {"next", "dropconfig", "dropsecret"}
    BY DEF Removing
  <2>. HIDE DEF w, d, p, s
  <2>6. ASSUME Become(j, c), s \in running' => s \in Silent PROVE Goal
    BY <1>1, <1>3, <2>1, <2>2, <2>5, <2>6
  <2>7. ASSUME Become(j, w) PROVE Goal
    BY <1>1, <1>3, <2>1, <2>4, <2>5, <2>7
  <2>8. ASSUME Become(j, d) PROVE Goal
    BY <1>1, <1>3, <2>1, <2>3, <2>5, <2>8
  <2> QED BY <2>1, <2>6, <2>7, <2>8
<1>8. CASE DropRow(j)
  <2>. DEFINE c == [p EXCEPT !.stage = "dropconfig"]
              d == [c EXCEPT !.noted = @ \cup {s}]
  <2>1. /\ p.stage = "droprow" /\ UNCHANGED <<running, custom, configs, secrets>>
        /\ \/ rows' = rows \ {s} /\ Become(j, c)
           \/ rows' = rows /\ Become(j, d)
    BY <1>8 DEF DropRow, Dropped, AtStage
  <2>2. /\ DOMAIN c = Fields /\ c.order = p.order /\ c.at = p.at /\ c.kind = p.kind
        /\ c.comps = p.comps /\ c.warned = p.warned /\ c.noted = p.noted
        /\ c.stage = "dropconfig" /\ c.stepFailed = p.stepFailed
    BY <1>1 DEF Fields
  <2>. HIDE DEF c
  <2>3. /\ DOMAIN d = Fields /\ d.order = p.order /\ d.at = p.at /\ d.kind = p.kind
        /\ d.comps = p.comps /\ d.warned = p.warned /\ d.noted = p.noted \cup {s}
        /\ d.stage = "dropconfig" /\ d.stepFailed = p.stepFailed
    BY <2>2 DEF Fields
  <2>4. "dropconfig" \in Removing /\ "dropconfig" # "dropsecret"
    BY DEF Removing
  <2>5. p.at <= Len(p.order) /\ s = p.order[p.at] /\ (~p.stepFailed => Off(p, s))
    BY <1>1, <2>1 DEF CleansUp
  <2>. HIDE DEF d, p, s
  <2>6. ASSUME Become(j, c), rows' = rows \ {s} PROVE Goal
    BY <1>3, <2>1, <2>2, <2>4, <2>5, <2>6 DEF Off
  <2>7. ASSUME Become(j, d), rows' = rows PROVE Goal
    BY <1>3, <2>1, <2>3, <2>4, <2>5, <2>7 DEF Off
  <2> QED BY <2>1, <2>6, <2>7
<1>9. CASE DropConfig(j)
  <2>. DEFINE c == [p EXCEPT !.stage = "dropsecret"]
              d == [c EXCEPT !.noted = @ \cup {s}]
  <2>1. /\ p.stage = "dropconfig" /\ UNCHANGED <<running, custom, rows, secrets>>
        /\ \/ configs' = configs \ {s} /\ Become(j, c)
           \/ configs' = configs /\ Become(j, d)
    BY <1>9 DEF DropConfig, Dropped, AtStage
  <2>2. /\ DOMAIN c = Fields /\ c.order = p.order /\ c.at = p.at /\ c.kind = p.kind
        /\ c.comps = p.comps /\ c.warned = p.warned /\ c.noted = p.noted
        /\ c.stage = "dropsecret" /\ c.stepFailed = p.stepFailed
    BY <1>1 DEF Fields
  <2>. HIDE DEF c
  <2>3. /\ DOMAIN d = Fields /\ d.order = p.order /\ d.at = p.at /\ d.kind = p.kind
        /\ d.comps = p.comps /\ d.warned = p.warned /\ d.noted = p.noted \cup {s}
        /\ d.stage = "dropsecret" /\ d.stepFailed = p.stepFailed
    BY <2>2 DEF Fields
  <2>4. "dropsecret" \in Removing
    BY DEF Removing
  <2>5. /\ p.at <= Len(p.order) /\ s = p.order[p.at]
        /\ (~p.stepFailed => Off(p, s)) /\ Out(p, s, rows)
    BY <1>1, <2>1 DEF CleansUp
  <2>. HIDE DEF d, p, s
  <2>6. ASSUME Become(j, c), configs' = configs \ {s} PROVE Goal
    BY <1>3, <2>1, <2>2, <2>4, <2>5, <2>6 DEF Off, Out
  <2>7. ASSUME Become(j, d), configs' = configs PROVE Goal
    BY <1>3, <2>1, <2>3, <2>4, <2>5, <2>7 DEF Off, Out
  <2> QED BY <2>1, <2>6, <2>7
<1>10. CASE DropSecret(j)
  <2>. DEFINE state == IF p.stepFailed THEN "failed" ELSE "done"
              c == [p EXCEPT !.comps = Marked(p.comps, s, state), !.at = @ + 1, !.stage = "next"]
              d == [c EXCEPT !.noted = @ \cup {s}]
  <2>1. /\ p.stage = "dropsecret" /\ UNCHANGED <<running, custom, rows, configs>>
        /\ \/ secrets' = secrets \ {s} /\ Become(j, c)
           \/ secrets' = secrets /\ Become(j, d)
    BY <1>10 DEF DropSecret, Dropped, AtStage
  <2>2. state \in States \ {"none"} /\ (state = "done" => ~p.stepFailed)
    BY DEF States
  <2>. HIDE DEF state
  <2>3. /\ DOMAIN c = Fields /\ c.order = p.order /\ c.at = p.at + 1 /\ c.kind = p.kind
        /\ c.comps = Marked(p.comps, s, state) /\ c.warned = p.warned /\ c.noted = p.noted
        /\ c.stage = "next"
    BY <1>1 DEF Fields
  <2>. HIDE DEF c
  <2>4. /\ DOMAIN d = Fields /\ d.order = p.order /\ d.at = p.at + 1 /\ d.kind = p.kind
        /\ d.comps = Marked(p.comps, s, state) /\ d.warned = p.warned
        /\ d.noted = p.noted \cup {s}
        /\ d.stage = "next"
    BY <2>3 DEF Fields
  <2>. HIDE DEF d
  <2>5. /\ p.at <= Len(p.order) /\ s = p.order[p.at]
        /\ (~p.stepFailed => Off(p, s)) /\ Out(p, s, rows) /\ Out(p, s, configs)
    BY <1>1, <2>1 DEF CleansUp
  <2>. DEFINE marked == Marked(p.comps, s, state)
  <2>6. /\ marked[s] = "done" => ~p.stepFailed
        /\ \A n \in DOMAIN p.order : n < p.at => marked[p.order[n]] = p.comps[p.order[n]]
    <3>. HIDE DEF p, s
    <3>1. CASE p.comps = NoChecklist
      <4>1. marked = NoChecklist
        BY <1>1, <2>2, <2>5, <3>1, Marks
      <4>2. s \in Slugs
        BY <1>1, <2>5
      <4> QED BY <3>1, <4>1, <4>2 DEF NoChecklist
    <3>2. CASE p.comps # NoChecklist
      BY <1>1, <2>2, <2>5, <3>2, Marks
    <3> QED BY <3>1, <3>2
  <2>. HIDE DEF marked
  <2>7. ASSUME NEW r \in {c, d}, Become(j, r), secrets' \subseteq secrets,
               s \in r.noted \/ s \notin secrets'
        PROVE  Goal
    <3>1. job'[j] = r
      BY <2>7, OnlyOne
    <3>2. /\ r.order = p.order /\ r.at = p.at + 1 /\ r.kind = p.kind /\ r.comps = marked
          /\ r.warned = p.warned /\ p.noted \subseteq r.noted /\ r.stage = "next"
      BY <2>3, <2>4 DEF marked
    <3>3. ASSUME NEW n \in DOMAIN p.order, n < p.at + 1
          PROVE  /\ r.comps[p.order[n]] = "done" => Off(r, p.order[n])
                 /\ Out(r, p.order[n], rows \cup configs \cup secrets')
      <4>1. CASE n = p.at
        BY <2>5, <2>6, <2>7, <3>2, <4>1 DEF Off, Out
      <4>2. CASE n < p.at
        BY <1>1, <2>6, <2>7, <3>2, <4>2 DEF CleansUp, Off, Out
      <4> QED BY <1>1, <3>3, <4>1, <4>2
    <3>. HIDE DEF p, s
    <3>4. CleansUp(job[j])'
      BY <1>1, <2>1, <3>1, <3>2, <3>3 DEF CleansUp, Off, Out, Removing
    <3> QED BY <1>1, <2>7, <3>2, <3>4
  <2> QED BY <2>1, <2>4, <2>7
<1>11. StartComponent(j) \/ FinishJob(j) \/ LoadConfig(j) \/ TearDown(j) \/ DropRow(j)
       \/ DropConfig(j) \/ DropSecret(j)
  BY <1>1 DEF Work, Removing, AtStage,
     DispatchSucceeds, DispatchFails, SaveRow, SaveConfig, Provision, Bootstrap
<1> QED BY <1>4, <1>5, <1>6, <1>7, <1>8, <1>9, <1>10, <1>11

LEMMA WorkCleans ==
  ASSUME HonestJobs, Cleaning, NEW j \in Jobs, Work(j)
  PROVE  Cleaning'
<1>1. Active(j)
  BY DEF Work, StartComponent, FinishJob, DispatchSucceeds, DispatchFails, SaveRow, SaveConfig,
         Provision, Bootstrap, LoadConfig, TearDown, DropRow, DropConfig, DropSecret, AtStage
<1>2. CASE job[j].kind = "rollback"
  BY <1>1, <1>2, RollbackWorks, OthersRest
<1>3. CASE job[j].kind # "rollback"
  <2>1. DOMAIN job[j] = Fields /\ NoJob.kind = "none"
    BY DEF HonestJobs, Honest, NoJob
  <2>2. ASSUME NEW r, Become(j, r), r.kind = job[j].kind \/ r.kind = "none" PROVE Cleaning'
    BY <1>1, <1>3, <2>2, OthersRest
  <2>3. CASE StartComponent(j) \/ FinishJob(j) \/ DispatchSucceeds(j) \/ DispatchFails(j)
    BY <2>1, <2>2, <2>3 DEF StartComponent, FinishJob, DispatchSucceeds, DispatchFails, Fields
  <2>4. CASE SaveRow(j) \/ SaveConfig(j) \/ Provision(j) \/ Bootstrap(j)
    BY <2>1, <2>2, <2>4 DEF SaveRow, SaveConfig, Provision, Bootstrap, Fields
  <2>5. CASE LoadConfig(j) \/ TearDown(j)
    BY <2>1, <2>2, <2>5 DEF LoadConfig, TearDown, Fields
  <2>6. CASE DropRow(j) \/ DropConfig(j) \/ DropSecret(j)
    BY <2>1, <2>2, <2>6 DEF DropRow, DropConfig, DropSecret, Dropped, Fields
  <2> QED BY <2>3, <2>4, <2>5, <2>6 DEF Work
<1> QED BY <1>2, <1>3

\* A call that does not return leaves the rollback where it is.
LEMMA StallCleans ==
  ASSUME HonestJobs, Cleaning, NEW j \in Jobs, Stall(j)
  PROVE  Cleaning'
<1>. DEFINE p == job[j]
            r == [p EXCEPT !.stage = "stuck"]
<1>1. /\ Active(j) /\ Become(j, r) /\ UNCHANGED <<rows, configs, secrets>>
      /\ \/ p.stage = "dispatch"
         \/ running' \subseteq running
  BY DEF Stall, TakeAway
<1>2. Honest(p) /\ DOMAIN p = Fields /\ p.order \in Seq(Slugs) /\ p.at \in Nat
  BY DEF HonestJobs, Honest
<1>3. /\ r.kind = p.kind /\ r.order = p.order /\ r.at = p.at /\ r.stage = "stuck"
      /\ r.comps = p.comps /\ r.noted = p.noted /\ r.warned = p.warned
      /\ r.completed = p.completed
  BY <1>2 DEF Fields
<1>. HIDE DEF r
<1>4. ASSUME p.kind = "rollback" PROVE CleansUp(job[j])'
  <2>1. CleansUp(p) /\ p.stage # "dispatch"
    BY <1>1, <1>4 DEF Cleaning, CleansUp, Active, Removing
  <2>2. job'[j] = r
    BY <1>1, OnlyOne
  <2>. HIDE DEF p
  <2> QED BY <1>1, <1>2, <1>3, <2>1, <2>2 DEF CleansUp, Off, Out, Removing
<1> QED BY <1>1, <1>3, <1>4, OthersRest

LEMMA PagesClean ==
  ASSUME HonestJobs, Cleaning, NEW j \in Jobs, ResultPage(j) \/ Download(j)
  PROVE  Cleaning'
<1>. DEFINE p == job[j]
            r == [p EXCEPT !.bag = {}, !.stash = IF p.stash = {} THEN p.bag ELSE p.stash,
                           !.pages = IF p.bag = {} THEN @ ELSE @ + 1]
            d == [p EXCEPT !.stash = {}, !.downloads = @ + 1]
<1>1. DOMAIN p = Fields /\ UNCHANGED world /\ (Become(j, r) \/ Become(j, d))
  BY DEF HonestJobs, Honest, ResultPage, Download
<1>2. Unturned(p, r) /\ Unturned(p, d)
  <2>. HIDE DEF p
  <2> QED BY <1>1, PageUnturned
<1>. HIDE DEF r, d
<1>3. PICK q : Become(j, q) /\ Unturned(p, q)
  BY <1>1, <1>2
<1>4. job'[j] = q /\ \A i \in Jobs : i # j => job'[i] = job[i]
  BY <1>3, OnlyOne
<1>5. \A i \in Jobs : /\ job'[i].order = job[i].order /\ job'[i].at = job[i].at
                      /\ job'[i].kind = job[i].kind /\ job'[i].stage = job[i].stage
                      /\ job'[i].comps = job[i].comps /\ job'[i].completed = job[i].completed
                      /\ job'[i].stepFailed = job[i].stepFailed
                      /\ job'[i].warned = job[i].warned /\ job'[i].noted = job[i].noted
  BY <1>3, <1>4 DEF Unturned
<1>6. Alone'
  BY <1>5 DEF Cleaning, Alone, Active
<1>7. ASSUME NEW i \in Jobs, CleansUp(job[i]) PROVE CleansUp(job[i])'
  BY <1>1, <1>5, <1>7 DEF CleansUp, Off, Out, world
<1> QED BY <1>5, <1>6, <1>7 DEF Cleaning

LEMMA StepCleans ==
  ASSUME MaxActive = 1, IsFiniteSet(Jobs), HonestJobs, Cleaning, [Next]_vars
  PROVE  Cleaning'
<1>1. ASSUME NEW j \in Jobs, HangUp(j) PROVE Cleaning'
  <2>1. NoJob.kind = "none" /\ NoJob.completed = FALSE
    BY DEF NoJob
  <2>2. Become(j, NoJob) /\ job[j].kind = "uninstall" /\ UNCHANGED world
    BY <1>1 DEF HangUp
  <2>3. job'[j] = NoJob /\ \A i \in Jobs : i # j => job'[i] = job[i]
    BY <2>2, OnlyOne
  <2>4. Alone'
    BY <2>1, <2>3 DEF Cleaning, Alone, Active
  <2>5. ASSUME NEW i \in Jobs, i # j, CleansUp(job[i]) PROVE CleansUp(job[i])'
    BY <2>2, <2>3, <2>5 DEF CleansUp, Off, Out, world
  <2> QED BY <2>1, <2>3, <2>4, <2>5 DEF Cleaning
<1>2. CASE Crash
  BY <1>2 DEF Crash, Cleaning, Alone, Active, NoJob
<1>3. CASE UNCHANGED vars
  BY <1>3 DEF vars, Cleaning, Alone, Active, CleansUp, Off, Out
<1> QED
  BY <1>1, <1>2, <1>3, StartsClean, WorkCleans, StallCleans, PagesClean DEF Next

\* What a rollback that finishes has left is what the invariant says of the
\* components before its position: of all of them.
LEMMA FinishedIsClean ==
  ASSUME HonestJobs, Cleaning, [Next]_vars, NEW j \in Jobs,
         job[j].kind = "rollback", ~job[j].completed, job'[j].completed
  PROVE  \A s \in ToSet(job[j].order) :
           /\ job[j].comps[s] = "done" /\ s \notin job[j].warned \cup Silent =>
                s \notin running'
           /\ s \notin job[j].noted => s \notin rows' \cup configs' \cup secrets'
<1>. DEFINE p == job[j]
<1>1. FinishJob(j)
  <2>1. /\ DOMAIN p = Fields /\ p.stage \in Removing \cup {"next", "stuck"}
        /\ NoJob.completed = FALSE /\ \A i \in Jobs : DOMAIN job[i] = Fields
    BY DEF HonestJobs, Honest, Cleaning, CleansUp, NoJob
  <2>2. ASSUME NEW i \in Jobs, NEW r, Become(i, r), i # j \/ ~r.completed PROVE FALSE
    BY <2>2, OnlyOne
  <2>3. ASSUME NEW i \in Jobs, Work(i) PROVE FinishJob(j)
    <3>1. CASE StartComponent(i) \/ DispatchSucceeds(i)
      BY <2>1, <2>2, <3>1 DEF StartComponent, DispatchSucceeds, Fields
    <3>2. CASE FinishJob(i)
      BY <2>2, <3>2 DEF FinishJob
    <3>3. CASE DispatchFails(i)
      BY <2>1, <2>2, <3>3 DEF DispatchFails, AtStage, Removing
    <3>4. CASE SaveRow(i) \/ SaveConfig(i) \/ Provision(i) \/ Bootstrap(i)
      BY <2>1, <2>2, <3>4 DEF SaveRow, SaveConfig, Provision, Bootstrap, Fields
    <3>5. CASE LoadConfig(i) \/ TearDown(i)
      BY <2>1, <2>2, <3>5 DEF LoadConfig, TearDown, Fields
    <3>6. CASE DropRow(i) \/ DropConfig(i) \/ DropSecret(i)
      BY <2>1, <2>2, <3>6 DEF DropRow, DropConfig, DropSecret, Dropped, Fields
    <3> QED BY <2>3, <3>1, <3>2, <3>3, <3>4, <3>5, <3>6 DEF Work
  <2>4. ASSUME NEW i \in Jobs, Stall(i) \/ HangUp(i) \/ ResultPage(i) \/ Download(i) PROVE FALSE
    BY <2>1, <2>2, <2>4 DEF Stall, Active, HangUp, ResultPage, Download, Fields
  <2>5. ASSUME NEW i \in Jobs,
               \/ \E chosen \in SUBSET Movable : InstallAll(i, chosen)
               \/ \E s \in Slugs : \E chosen \in SUBSET Movable : InstallOne(i, s, chosen)
               \/ \E s \in Slugs : Uninstall(i, s)
               \/ \E k \in Jobs : Rollback(i, k)
        PROVE FALSE
    BY <2>2, <2>5 DEF InstallAll, InstallOne, Uninstall, Rollback, MayStart
  <2>6. ~Crash /\ ~UNCHANGED vars
    BY <2>1 DEF Crash, vars
  <2> QED BY <2>3, <2>4, <2>5, <2>6 DEF Next
<1>2. job[j].at > Len(job[j].order) /\ UNCHANGED world
  BY <1>1 DEF FinishJob
<1>3. CleansUp(job[j]) /\ job[j].order \in Seq(Slugs) /\ job[j].at \in Nat
  BY DEF Cleaning, HonestJobs, Honest
<1>4. \A s \in ToSet(job[j].order) :
        \E n \in DOMAIN job[j].order : n < job[j].at /\ s = job[j].order[n]
  BY <1>2, <1>3 DEF ToSet
<1> QED BY <1>2, <1>3, <1>4 DEF CleansUp, Off, Out, world

\* With one job or uninstall at work at a time, what a finished rollback calls
\* done is off the host, but for the components whose removal had warnings or
\* may hide them; and all of it is out of store and vault, but for the drops it
\* noted.
THEOREM RollbacksCleanUp ==
  ASSUME MaxActive = 1, IsFiniteSet(Jobs)
  PROVE  Spec => RollbackCleansUp
<1>1. Init => HonestJobs /\ Cleaning
  BY NoJobIsHonest DEF Init, HonestJobs, Cleaning, Alone, Active, NoJob
<1>2. HonestJobs /\ Cleaning /\ [Next]_vars => (HonestJobs /\ Cleaning)'
  BY StepIsHonest, StepCleans
<1>3. HonestJobs /\ Cleaning /\ [Next]_vars =>
        [\A j \in Jobs :
           job[j].kind = "rollback" /\ ~job[j].completed /\ job'[j].completed =>
             \A s \in ToSet(job[j].order) :
               /\ job[j].comps[s] = "done" /\ s \notin job[j].warned \cup Silent =>
                    s \notin running'
               /\ s \notin job[j].noted => s \notin rows' \cup configs' \cup secrets'
        ]_vars
  BY FinishedIsClean
<1> QED BY <1>1, <1>2, <1>3, PTL DEF Spec, RollbackCleansUp

-----------------------------------------------------------------------------
(* How a job comes to its end.  JobsFinish needs the runtime to keep       *)
(* polling the task; what it needs of the task itself is here: a job at    *)
(* work is always at a stage with a step to take, each step leaves one     *)
(* less to be taken, and nothing else sets it back.  A job that waits for  *)
(* an outside call that never returns is set aside.                        *)

\* The steps a component has yet to go through, the one at hand included: six
\* to install it and six to remove it.
Ahead(stage) ==
  IF stage = "next" THEN 6
  ELSE IF stage \in {"dispatch", "load"} THEN 5
  ELSE IF stage \in {"row", "teardown"} THEN 4
  ELSE IF stage \in {"config", "droprow"} THEN 3
  ELSE IF stage \in {"credential", "dropconfig"} THEN 2 ELSE 1

\* And a job, with the one that ends it.
StepsLeft(p) == 6 * (Len(p.order) - p.at) + Ahead(p.stage) + 1

\* The guard of the step that is due: the next component is started, the job
\* is finished, or the component at hand is worked on.
HasAStep(j) ==
  \/ AtStage(j, "next")
  \/ \E stage \in Stages \ {"next", "stuck", "over"} :
       AtStage(j, stage) /\ job[j].at <= Len(job[j].order)

AtWork(p) == p.kind # "none" /\ ~p.completed
Underway(p) == AtWork(p) => p.stage # "over" /\ p.at <= Len(p.order) + 1
JobsUnderway == \A j \in Jobs : Underway(job[j])

\* One step of the work: the job ends, or its component is a stage further, or
\* done with.
Proceeds(p, r) ==
  AtWork(r) =>
    /\ r.order = p.order /\ r.stage \in Stages \ {"over", "stuck"}
    /\ \/ r.at = p.at /\ Ahead(r.stage) = Ahead(p.stage) - 1
       \/ r.at = p.at + 1 /\ p.at <= Len(p.order) /\ r.stage = "next" /\ Ahead(p.stage) = 1

GoesOn(j) == Active(j) /\ \E r : Become(j, r) /\ Proceeds(job[j], r)

LEMMA AheadIs ==
  /\ {"next", "dispatch", "row", "config", "credential", "bootstrap", "load", "teardown",
      "droprow", "dropconfig", "dropsecret"} = Stages \ {"over", "stuck"}
  /\ Ahead("next") = 6 /\ Ahead("dispatch") = 5 /\ Ahead("load") = 5
  /\ Ahead("row") = 4 /\ Ahead("teardown") = 4 /\ Ahead("config") = 3 /\ Ahead("droprow") = 3
  /\ Ahead("credential") = 2 /\ Ahead("dropconfig") = 2
  /\ Ahead("bootstrap") = 1 /\ Ahead("dropsecret") = 1
BY DEF Stages, Ahead

\* The job ends, its component is a stage further, or it is done with.
LEMMA Ends ==
  ASSUME NEW j \in Jobs, Active(j), NEW r, Become(j, r), ~AtWork(r)
  PROVE  GoesOn(j)
BY DEF GoesOn, Proceeds

LEMMA Further ==
  ASSUME NEW j \in Jobs, NEW from, AtStage(j, from), NEW r, Become(j, r),
         r.order = job[j].order, r.at = job[j].at, r.stage \in Stages \ {"over", "stuck"},
         Ahead(r.stage) = Ahead(from) - 1
  PROVE  GoesOn(j)
BY DEF GoesOn, Proceeds, AtStage

LEMMA DoneWith ==
  ASSUME HonestJobs, NEW j \in Jobs, NEW from \in {"bootstrap", "dropsecret"}, AtStage(j, from),
         NEW r, Become(j, r), r.order = job[j].order, r.at = job[j].at + 1, r.stage = "next"
  PROVE  GoesOn(j)
<1>1. job[j].at <= Len(job[j].order) /\ Ahead(job[j].stage) = 1 /\ "next" \in Stages \ {"over", "stuck"}
  BY AheadIs DEF AtStage, HonestJobs, Honest
<1> QED BY <1>1 DEF GoesOn, Proceeds, AtStage

LEMMA WorkProceeds == ASSUME HonestJobs, NEW j \in Jobs, Work(j) PROVE GoesOn(j)
<1>. DEFINE p == job[j]
<1>1. DOMAIN p = Fields
  BY DEF HonestJobs, Honest
<1>2. CASE StartComponent(j)
  <2>. DEFINE r == [p EXCEPT !.comps = Marked(p.comps, Current(j), "running"), !.stepFailed = FALSE,
                             !.stage = IF p.kind = "install" THEN "dispatch" ELSE "load"]
  <2>1. AtStage(j, "next") /\ Become(j, r)
    BY <1>2 DEF StartComponent
  <2>2. r.order = p.order /\ r.at = p.at /\ r.stage \in {"dispatch", "load"}
    BY <1>1 DEF Fields
  <2>. HIDE DEF r
  <2> QED BY <2>1, <2>2, Further, AheadIs
<1>3. CASE FinishJob(j)
  <2>. DEFINE r == [p EXCEPT !.completed = TRUE, !.stage = "over"]
  <2>1. Active(j) /\ (Become(j, NoJob) \/ Become(j, r))
    BY <1>3 DEF FinishJob, AtStage
  <2>2. ~AtWork(NoJob) /\ ~AtWork(r)
    BY <1>1 DEF AtWork, NoJob, Fields
  <2>. HIDE DEF r
  <2> QED BY <2>1, <2>2, Ends
<1>4. CASE DispatchSucceeds(j)
  <2>. DEFINE r == [p EXCEPT !.comps = Marked(@, Current(j), "done"), !.bag = Announced(j),
                             !.stage = "row"]
  <2>1. AtStage(j, "dispatch") /\ Become(j, r)
    BY <1>4 DEF DispatchSucceeds
  <2>2. r.order = p.order /\ r.at = p.at /\ r.stage = "row"
    BY <1>1 DEF Fields
  <2>. HIDE DEF r
  <2> QED BY <2>1, <2>2, Further, AheadIs
<1>5. CASE DispatchFails(j)
  <2>. DEFINE r(bag) == [p EXCEPT !.comps = Marked(@, Current(j), "failed"), !.bag = bag,
                                  !.completed = TRUE, !.failed = TRUE, !.stage = "over"]
  <2>1. Active(j) /\ \E bag : Become(j, r(bag))
    BY <1>5 DEF DispatchFails, AtStage
  <2>2. \A bag : ~AtWork(r(bag))
    BY <1>1 DEF AtWork, Fields
  <2>. HIDE DEF r
  <2> QED BY <2>1, <2>2, Ends
<1>6. CASE SaveRow(j) \/ SaveConfig(j)
  <2>. DEFINE c == [p EXCEPT !.stage = "config"]
              d == [p EXCEPT !.stage = "credential"]
  <2>1. \/ AtStage(j, "row") /\ Become(j, c)
        \/ AtStage(j, "config") /\ Become(j, d)
    BY <1>6 DEF SaveRow, SaveConfig
  <2>2. /\ c.order = p.order /\ c.at = p.at /\ c.stage = "config"
        /\ d.order = p.order /\ d.at = p.at /\ d.stage = "credential"
    BY <1>1 DEF Fields
  <2>. HIDE DEF c, d
  <2> QED BY <2>1, <2>2, Further, AheadIs
<1>7. CASE Provision(j)
  <2>. DEFINE r == [p EXCEPT !.bag = @ \cup {Current(j)}, !.stage = "bootstrap"]
              q == [p EXCEPT !.stage = "bootstrap"]
  <2>1. AtStage(j, "credential") /\ (Become(j, r) \/ Become(j, q))
    BY <1>7 DEF Provision
  <2>2. /\ r.order = p.order /\ r.at = p.at /\ r.stage = "bootstrap"
        /\ q.order = p.order /\ q.at = p.at /\ q.stage = "bootstrap"
    BY <1>1 DEF Fields
  <2>. HIDE DEF r, q
  <2> QED BY <2>1, <2>2, Further, AheadIs
<1>8. CASE Bootstrap(j)
  <2>. DEFINE r == [p EXCEPT !.bag = @ \cup {Current(j)}, !.at = @ + 1, !.stage = "next"]
              q == [p EXCEPT !.at = @ + 1, !.stage = "next"]
  <2>1. AtStage(j, "bootstrap") /\ (Become(j, r) \/ Become(j, q))
    BY <1>8 DEF Bootstrap
  <2>2. /\ r.order = p.order /\ r.at = p.at + 1 /\ r.stage = "next"
        /\ q.order = p.order /\ q.at = p.at + 1 /\ q.stage = "next"
    BY <1>1 DEF Fields
  <2>. HIDE DEF r, q
  <2> QED BY <2>1, <2>2, DoneWith
<1>9. CASE LoadConfig(j)
  <2>1. PICK blind : Become(j, [p EXCEPT !.stage = "teardown", !.blind = blind])
    <3>1. \E known \in {FALSE, Current(j) \in configs} :
            Become(j, [p EXCEPT !.stage = "teardown",
                                !.blind = IF known THEN p.blind ELSE p.blind \cup {Current(j)}])
      BY <1>9 DEF LoadConfig
    <3>. HIDE DEF p
    <3> QED BY <3>1
  <2>. DEFINE r == [p EXCEPT !.stage = "teardown", !.blind = blind]
  <2>2. AtStage(j, "load")
    BY <1>9 DEF LoadConfig
  <2>3. r.order = p.order /\ r.at = p.at /\ r.stage = "teardown"
    BY <1>1 DEF Fields
  <2>4. Become(j, r)
    BY <2>1
  <2>. HIDE DEF r
  <2> QED BY <2>2, <2>3, <2>4, Further, AheadIs
<1>10. CASE TearDown(j)
  <2>. DEFINE r == [p EXCEPT !.stage = "droprow"]
              w == [r EXCEPT !.warned = @ \cup {Current(j)}]
              f == [r EXCEPT !.stepFailed = TRUE, !.failed = TRUE]
  <2>1. AtStage(j, "teardown") /\ (Become(j, r) \/ Become(j, w) \/ Become(j, f))
    BY <1>10 DEF TearDown
  <2>2. \A q \in {r, w, f} : q.order = p.order /\ q.at = p.at /\ q.stage = "droprow"
    BY <1>1 DEF Fields
  <2>. HIDE DEF r, w, f
  <2> QED BY <2>1, <2>2, Further, AheadIs
<1>11. ASSUME NEW set, NEW new, NEW r, DOMAIN r = Fields, Dropped(j, set, new, r)
       PROVE  \E q : Become(j, q) /\ q.order = r.order /\ q.at = r.at /\ q.stage = r.stage
  <2>. DEFINE n == [r EXCEPT !.noted = @ \cup {Current(j)}]
  <2>1. Become(j, r) \/ Become(j, n)
    BY <1>11 DEF Dropped
  <2>2. n.order = r.order /\ n.at = r.at /\ n.stage = r.stage
    BY <1>11 DEF Fields
  <2>. HIDE DEF n
  <2> QED BY <2>1, <2>2
<1>12. CASE DropRow(j)
  <2>. DEFINE r == [p EXCEPT !.stage = "dropconfig"]
  <2>1. AtStage(j, "droprow") /\ Dropped(j, rows, rows', r)
    BY <1>12 DEF DropRow
  <2>2. DOMAIN r = Fields /\ r.order = p.order /\ r.at = p.at /\ r.stage = "dropconfig"
    BY <1>1 DEF Fields
  <2>. HIDE DEF r
  <2>3. PICK q : Become(j, q) /\ q.order = p.order /\ q.at = p.at /\ q.stage = "dropconfig"
    BY <1>11, <2>1, <2>2
  <2> QED BY <2>1, <2>3, Further, AheadIs
<1>13. CASE DropConfig(j)
  <2>. DEFINE r == [p EXCEPT !.stage = "dropsecret"]
  <2>1. AtStage(j, "dropconfig") /\ Dropped(j, configs, configs', r)
    BY <1>13 DEF DropConfig
  <2>2. DOMAIN r = Fields /\ r.order = p.order /\ r.at = p.at /\ r.stage = "dropsecret"
    BY <1>1 DEF Fields
  <2>. HIDE DEF r
  <2>3. PICK q : Become(j, q) /\ q.order = p.order /\ q.at = p.at /\ q.stage = "dropsecret"
    BY <1>11, <2>1, <2>2
  <2> QED BY <2>1, <2>3, Further, AheadIs
<1>14. CASE DropSecret(j)
  <2>. DEFINE state == IF p.stepFailed THEN "failed" ELSE "done"
              r == [p EXCEPT !.comps = Marked(p.comps, Current(j), state), !.at = @ + 1, !.stage = "next"]
  <2>1. AtStage(j, "dropsecret") /\ Dropped(j, secrets, secrets', r)
    BY <1>14 DEF DropSecret
  <2>2. DOMAIN r = Fields /\ r.order = p.order /\ r.at = p.at + 1 /\ r.stage = "next"
    BY <1>1 DEF Fields
  <2>. HIDE DEF r
  <2>3. PICK q : Become(j, q) /\ q.order = p.order /\ q.at = p.at + 1 /\ q.stage = "next"
    BY <1>11, <2>1, <2>2
  <2> QED BY <2>1, <2>3, DoneWith
<1> QED
  BY <1>2, <1>3, <1>4, <1>5, <1>6, <1>7, <1>8, <1>9, <1>10, <1>12, <1>13, <1>14 DEF Work

\* A job starts at its first component, where there was none.
LEMMA StartIs ==
  ASSUME NEW j \in Jobs,
         \/ \E chosen \in SUBSET Movable : InstallAll(j, chosen)
         \/ \E s \in Slugs : \E chosen \in SUBSET Movable : InstallOne(j, s, chosen)
         \/ \E s \in Slugs : Uninstall(j, s)
         \/ \E i \in Jobs : Rollback(j, i)
  PROVE  ~Active(j) /\ \E r : Become(j, r) /\ r.at = 1 /\ r.stage = "next"
<1>1. ASSUME NEW chosen, InstallAll(j, chosen)
      PROVE  ~Active(j) /\ \E r : Become(j, r) /\ r.at = 1 /\ r.stage = "next"
  <2>. DEFINE r == [NoJob EXCEPT !.kind = "install", !.order = Order, !.chosen = chosen,
                                 !.stage = "next", !.comps = Checklist(Order)]
  <2>1. r.at = 1 /\ r.stage = "next"
    BY DEF NoJob
  <2>2. Become(j, r) /\ ~Active(j)
    BY <1>1 DEF InstallAll, MayStart, Active
  <2>. HIDE DEF r
  <2> QED BY <2>1, <2>2
<1>2. ASSUME NEW s, NEW chosen, InstallOne(j, s, chosen)
      PROVE  ~Active(j) /\ \E r : Become(j, r) /\ r.at = 1 /\ r.stage = "next"
  <2>. DEFINE r == [NoJob EXCEPT !.kind = "install", !.order = <<s>>, !.chosen = chosen,
                                 !.stage = "next"]
  <2>1. r.at = 1 /\ r.stage = "next"
    BY DEF NoJob
  <2>2. Become(j, r) /\ ~Active(j)
    BY <1>2 DEF InstallOne, MayStart, Active
  <2>. HIDE DEF r
  <2> QED BY <2>1, <2>2
<1>3. ASSUME NEW s, Uninstall(j, s)
      PROVE  ~Active(j) /\ \E r : Become(j, r) /\ r.at = 1 /\ r.stage = "next"
  <2>. DEFINE r == [NoJob EXCEPT !.kind = "uninstall", !.order = <<s>>, !.stage = "next"]
  <2>1. r.at = 1 /\ r.stage = "next"
    BY DEF NoJob
  <2>2. Become(j, r) /\ ~Active(j)
    BY <1>3 DEF Uninstall, MayStart, Active
  <2>. HIDE DEF r
  <2> QED BY <2>1, <2>2
<1>4. ASSUME NEW i, Rollback(j, i)
      PROVE  ~Active(j) /\ \E r : Become(j, r) /\ r.at = 1 /\ r.stage = "next"
  <2>1. PICK order : Become(j, [NoJob EXCEPT !.kind = "rollback", !.order = order,
                                             !.stage = "next", !.comps = Checklist(order)])
    BY <1>4 DEF Rollback
  <2>. DEFINE r == [NoJob EXCEPT !.kind = "rollback", !.order = order,
                                 !.stage = "next", !.comps = Checklist(order)]
  <2>2. r.at = 1 /\ r.stage = "next"
    BY DEF NoJob
  <2>3. ~Active(j)
    BY <1>4 DEF Rollback, MayStart, Active
  <2>. HIDE DEF r
  <2> QED BY <2>1, <2>2, <2>3 DEF r
<1> QED BY <1>1, <1>2, <1>3, <1>4

LEMMA PageIs ==
  ASSUME HonestJobs, NEW j \in Jobs, ResultPage(j) \/ Download(j)
  PROVE  \E q : Become(j, q) /\ Unturned(job[j], q)
<1>. DEFINE p == job[j]
            r == [p EXCEPT !.bag = {}, !.stash = IF p.stash = {} THEN p.bag ELSE p.stash,
                           !.pages = IF p.bag = {} THEN @ ELSE @ + 1]
            d == [p EXCEPT !.stash = {}, !.downloads = @ + 1]
<1>1. DOMAIN p = Fields /\ (Become(j, r) \/ Become(j, d))
  BY DEF HonestJobs, Honest, ResultPage, Download
<1>. HIDE DEF p
<1>2. Unturned(p, r) /\ Unturned(p, d)
  <2>1. DOMAIN p = Fields
    BY <1>1
  <2> QED BY <2>1, PageUnturned
<1>. HIDE DEF r, d
<1> QED BY <1>1, <1>2 DEF p

\* What becomes of a job in a step: it is as it was, its work goes on, it has
\* just started, it is over, or it waits for ever.
LEMMA StepOfAJob ==
  ASSUME HonestJobs, NEW j \in Jobs, [Next]_vars, ~Work(j)
  PROVE  \/ job'[j].order = job[j].order /\ job'[j].at = job[j].at /\ job'[j].stage = job[j].stage
            /\ job'[j].kind = job[j].kind /\ job'[j].completed = job[j].completed
         \/ ~Active(j) /\ job'[j].at = 1 /\ job'[j].stage = "next"
         \/ ~AtWork(job'[j])
         \/ /\ job'[j].stage = "stuck" /\ Active(j) /\ job'[j].order = job[j].order
            /\ job'[j].at = job[j].at /\ job[j].stage \in Stages \ {"next", "over"}
<1>. DEFINE Same == job'[j].order = job[j].order /\ job'[j].at = job[j].at /\ job'[j].stage = job[j].stage
                    /\ job'[j].kind = job[j].kind /\ job'[j].completed = job[j].completed
            New == ~Active(j) /\ job'[j].at = 1 /\ job'[j].stage = "next"
            Stuck == /\ job'[j].stage = "stuck" /\ Active(j) /\ job'[j].order = job[j].order
                     /\ job'[j].at = job[j].at /\ job[j].stage \in Stages \ {"next", "over"}
<1>1. ASSUME NEW i \in Jobs, NEW r, Become(i, r)
      PROVE  job'[i] = r /\ (i # j => job'[j] = job[j])
  BY <1>1 DEF Become, HonestJobs
<1>2. ASSUME NEW i \in Jobs, NEW r, Become(i, r), i # j PROVE Same
  BY <1>1, <1>2
<1>3. ~AtWork(NoJob)
  BY DEF AtWork, NoJob
<1>4. ASSUME NEW i \in Jobs,
             \/ \E chosen \in SUBSET Movable : InstallAll(i, chosen)
             \/ \E s \in Slugs : \E chosen \in SUBSET Movable : InstallOne(i, s, chosen)
             \/ \E s \in Slugs : Uninstall(i, s)
             \/ \E k \in Jobs : Rollback(i, k)
      PROVE  Same \/ New
  <2>1. ~Active(i) /\ \E r : Become(i, r) /\ r.at = 1 /\ r.stage = "next"
    BY <1>4, StartIs
  <2>2. CASE i = j
    BY <1>1, <2>1, <2>2
  <2>3. CASE i # j
    BY <1>2, <2>1, <2>3
  <2> QED BY <2>2, <2>3
<1>5. ASSUME NEW i \in Jobs, Work(i) PROVE Same
  <2>1. \E r : Become(i, r)
    BY <1>5, WorkProceeds DEF GoesOn
  <2> QED BY <1>2, <1>5, <2>1
<1>6. ASSUME NEW i \in Jobs, HangUp(i) PROVE Same \/ ~AtWork(job'[j])
  BY <1>1, <1>2, <1>3, <1>6 DEF HangUp
<1>7. ASSUME NEW i \in Jobs, ResultPage(i) \/ Download(i) PROVE Same
  <2>1. PICK r : Become(i, r) /\ Unturned(job[i], r)
    BY <1>7, PageIs
  <2>2. CASE i = j
    BY <1>1, <2>1, <2>2 DEF Unturned
  <2>3. CASE i # j
    BY <1>2, <2>1, <2>3
  <2> QED BY <2>2, <2>3
<1>8. ASSUME Crash PROVE ~AtWork(job'[j])
  BY <1>3, <1>8 DEF Crash
<1>9. ASSUME UNCHANGED vars PROVE Same
  <2>1. job' = job
    BY <1>9 DEF vars
  <2> QED BY <2>1
<1>10. ASSUME NEW i \in Jobs, Stall(i) PROVE Same \/ Stuck
  <2>. DEFINE r == [job[i] EXCEPT !.stage = "stuck"]
  <2>1. /\ Become(i, r) /\ DOMAIN job[i] = Fields /\ Active(i)
        /\ job[i].stage \in {"dispatch", "credential", "bootstrap", "teardown"}
    BY <1>10 DEF Stall, HonestJobs, Honest
  <2>2. r.stage = "stuck" /\ r.order = job[i].order /\ r.at = job[i].at
    BY <2>1 DEF Fields
  <2>3. {"dispatch", "credential", "bootstrap", "teardown"} \subseteq Stages \ {"next", "over"}
    BY DEF Stages
  <2>. HIDE DEF r
  <2>4. CASE i = j
    BY <1>1, <2>1, <2>2, <2>3, <2>4
  <2>5. CASE i # j
    BY <1>2, <2>1, <2>5
  <2> QED BY <2>4, <2>5
<1>. HIDE DEF Same, New, Stuck
<1>11. Same \/ New \/ ~AtWork(job'[j]) \/ Stuck
  BY <1>4, <1>5, <1>6, <1>7, <1>8, <1>9, <1>10 DEF Next
<1> QED BY <1>11 DEF Same, New, Stuck

LEMMA StaysUnderway ==
  ASSUME HonestJobs, HonestJobs', JobsUnderway, [Next]_vars PROVE JobsUnderway'
<1>. SUFFICES ASSUME NEW j \in Jobs, AtWork(job'[j])
              PROVE  job'[j].stage # "over" /\ job'[j].at <= Len(job'[j].order) + 1
  BY DEF JobsUnderway, Underway
<1>1. /\ job[j].order \in Seq(Slugs) /\ job[j].at \in Nat
      /\ job'[j].order \in Seq(Slugs) /\ job'[j].at \in Nat
  BY DEF HonestJobs, Honest
<1>2. CASE Work(j)
  <2>1. PICK r : Become(j, r) /\ Proceeds(job[j], r)
    BY <1>2, WorkProceeds DEF GoesOn
  <2>2. job'[j] = r
    BY <2>1 DEF Become, HonestJobs
  <2>3. AtWork(job[j])
    BY <1>2, WorkProceeds DEF GoesOn, Active, AtWork
  <2> QED BY <1>1, <2>1, <2>2, <2>3 DEF Proceeds, JobsUnderway, Underway
<1>3. CASE ~Work(j)
  <2>1. Active(j) => job[j].stage # "over" /\ job[j].at <= Len(job[j].order) + 1
    BY DEF JobsUnderway, Underway, AtWork, Active
  <2>2. CASE job'[j].stage = "stuck"
    <3>1. job'[j].at <= Len(job'[j].order)
      BY <2>2 DEF HonestJobs, Honest
    <3> QED BY <1>1, <2>2, <3>1
  <2>3. CASE job'[j].stage # "stuck"
    BY <1>1, <1>3, <2>1, <2>3, StepOfAJob DEF Active, AtWork
  <2> QED BY <2>2, <2>3
<1> QED BY <1>2, <1>3

LEMMA UnderwayHolds == Spec => [](HonestJobs /\ JobsUnderway)
<1>1. Init => HonestJobs /\ JobsUnderway
  BY NoJobIsHonest DEF Init, HonestJobs, JobsUnderway, Underway, AtWork, NoJob
<1>2. HonestJobs /\ JobsUnderway /\ [Next]_vars => (HonestJobs /\ JobsUnderway)'
  BY StepIsHonest, StaysUnderway
<1> QED BY <1>1, <1>2, PTL DEF Spec

\* No job is ever lost between its steps: whatever failed before, one that is
\* neither completed nor waiting for a call that never returns is at a stage
\* whose step has its guard, and has at least that step to take.
THEOREM JobsHaveAStep ==
  Spec => [](\A j \in Jobs : Active(j) /\ job[j].stage # "stuck" =>
               HasAStep(j) /\ StepsLeft(job[j]) \in Nat \ {0})
<1>1. ASSUME HonestJobs, JobsUnderway, NEW j \in Jobs, Active(j), job[j].stage # "stuck"
      PROVE  HasAStep(j) /\ StepsLeft(job[j]) \in Nat \ {0}
  <2>. DEFINE p == job[j]
  <2>1. Honest(p) /\ p.stage # "over" /\ p.at <= Len(p.order) + 1
    BY <1>1 DEF HonestJobs, JobsUnderway, Underway, AtWork, Active
  <2>2. /\ p.order \in Seq(Slugs) /\ p.at \in Nat /\ p.stage \in Stages
        /\ p.stage # "next" => p.at <= Len(p.order)
    BY <2>1 DEF Honest
  <2>3. HasAStep(j)
    BY <1>1, <2>1, <2>2 DEF HasAStep, AtStage
  <2>4. Ahead(p.stage) \in Nat /\ (p.stage = "next" => Ahead(p.stage) = 6) /\ Ahead(p.stage) >= 1
    BY DEF Ahead
  <2>5. Len(p.order) \in Nat
    BY <2>2
  <2>. HIDE DEF p
  <2>6. StepsLeft(p) \in Nat \ {0}
    <3>1. CASE p.stage = "next"
      BY <2>1, <2>2, <2>4, <2>5, <3>1 DEF StepsLeft
    <3>2. CASE p.stage # "next"
      BY <2>2, <2>4, <2>5, <3>2 DEF StepsLeft
    <3> QED BY <3>1, <3>2
  <2> QED BY <2>3, <2>6 DEF p
<1>2. HonestJobs /\ JobsUnderway =>
        \A j \in Jobs : Active(j) /\ job[j].stage # "stuck" =>
          HasAStep(j) /\ StepsLeft(job[j]) \in Nat \ {0}
  BY <1>1
<1> QED BY <1>2, UnderwayHolds, PTL

\* Every step of a job's work leaves it one less, or ends it; what any other
\* job, page, uninstall or operator does leaves as many.  With the theorem
\* above, a job whose calls return ends after the steps it started with: six for
\* each of its components, and one.
THEOREM JobsRunDown ==
  Spec => [][\A j \in Jobs : Active(j) /\ Active(j)' /\ job'[j].stage # "stuck" =>
               StepsLeft(job[j])' = IF Work(j) THEN StepsLeft(job[j]) - 1 ELSE StepsLeft(job[j])]_vars
<1>. DEFINE RunsDown(j) ==
       Active(j) /\ Active(j)' /\ job'[j].stage # "stuck" =>
         StepsLeft(job[j])' = IF Work(j) THEN StepsLeft(job[j]) - 1 ELSE StepsLeft(job[j])
<1>1. ASSUME HonestJobs, [Next]_vars, NEW j \in Jobs, Active(j), Active(j)',
             job'[j].stage # "stuck"
      PROVE  StepsLeft(job'[j]) = IF Work(j) THEN StepsLeft(job[j]) - 1 ELSE StepsLeft(job[j])
  <2>1. job[j].order \in Seq(Slugs) /\ job[j].at \in Nat /\ Len(job[j].order) \in Nat
    BY <1>1 DEF HonestJobs, Honest
  <2>2. \A stage : Ahead(stage) \in Nat
    BY DEF Ahead
  <2>3. AtWork(job'[j])
    BY <1>1 DEF Active, AtWork
  <2>4. CASE Work(j)
    <3>1. PICK r : Become(j, r) /\ Proceeds(job[j], r)
      BY <1>1, <2>4, WorkProceeds DEF GoesOn
    <3>2. job'[j] = r
      BY <1>1, <3>1 DEF Become, HonestJobs
    <3>3. /\ r.order = job[j].order
          /\ \/ r.at = job[j].at /\ Ahead(r.stage) = Ahead(job[j].stage) - 1
             \/ r.at = job[j].at + 1 /\ Ahead(r.stage) = 6 /\ Ahead(job[j].stage) = 1
      BY <2>3, <3>1, <3>2, AheadIs DEF Proceeds
    <3>. DEFINE left == Len(job[j].order) - job[j].at
                ahead == Ahead(job[j].stage)
    <3>4. left \in Int /\ ahead \in Nat
      BY <2>1, <2>2
    <3>5. StepsLeft(job[j]) = 6 * left + ahead + 1
      BY DEF StepsLeft
    <3>6. \/ StepsLeft(r) = 6 * left + (ahead - 1) + 1
          \/ StepsLeft(r) = 6 * (left - 1) + 6 + 1 /\ ahead = 1
      <4>1. Len(job[j].order) - (job[j].at + 1) = left - 1
        BY <2>1
      <4> QED BY <3>3, <4>1 DEF StepsLeft
    <3>. HIDE DEF left, ahead
    <3>7. StepsLeft(r) = StepsLeft(job[j]) - 1
      BY <3>4, <3>5, <3>6
    <3> QED BY <2>4, <3>2, <3>7
  <2>5. CASE ~Work(j)
    BY <1>1, <2>3, <2>5, StepOfAJob DEF StepsLeft
  <2> QED BY <2>4, <2>5
<1>2. HonestJobs /\ [Next]_vars => \A j \in Jobs : RunsDown(j)
  BY <1>1
<1> QED BY <1>2, UnderwayHolds, PTL DEF Spec

-----------------------------------------------------------------------------
(* The types.  An order names each component once, and so is no longer     *)
(* than INSTALL_ORDER; a job goes no further than one past its order.      *)

Record ==
  [kind : {"none", "install", "rollback", "uninstall"}, order : Seq(Slugs), at : Nat \ {0},
   stage : Stages, chosen : SUBSET Slugs, blind : SUBSET Slugs, comps : [Slugs -> States],
   stepFailed : BOOLEAN, completed : BOOLEAN, failed : BOOLEAN, bag : SUBSET Slugs,
   stash : SUBSET Slugs, noted : SUBSET Slugs, warned : SUBSET Slugs, pages : Nat,
   downloads : Nat]

WorldOK ==
  /\ running \subseteq Slugs /\ custom \subseteq running
  /\ rows \subseteq Slugs /\ configs \subseteq Slugs
  /\ secrets \subseteq Credentialed /\ artifacts \subseteq Bootstrapped

Fits(r) == r \in Record /\ r.at <= Len(r.order) + 1
JobsFit == job \in [Jobs -> Record] /\ \A j \in Jobs : Fits(job[j])

\* A record that stands where p does, or one further.
At(p, r) == r \in Record /\ r.order = p.order /\ r.at = p.at
Past(p, r) == r \in Record /\ r.order = p.order /\ r.at = p.at + 1

LEMMA NoJobFits == Fits(NoJob)
<1>1. NoJob \in Record
  <2>1. <<>> \in Seq(Slugs) /\ [s \in Slugs |-> "none"] \in [Slugs -> States] /\ "over" \in Stages
    BY DEF States, Stages
  <2> QED BY <2>1 DEF NoJob, Record
<1>2. NoJob.at = 1 /\ NoJob.order = <<>>
  BY DEF NoJob
<1>3. Len(<<>>) = 0
  OBVIOUS
<1> QED BY <1>1, <1>2, <1>3 DEF Fits

\* What the steps make of a job's record.
LEMMA MarksFit ==
  ASSUME NEW p \in Record, NEW comps \in [Slugs -> States], NEW stage \in Stages,
         NEW bag \in SUBSET Slugs,
         NEW stepFailed \in BOOLEAN, NEW completed \in BOOLEAN, NEW failed \in BOOLEAN
  PROVE  /\ At(p, [p EXCEPT !.comps = comps, !.stepFailed = stepFailed, !.stage = stage])
         /\ At(p, [p EXCEPT !.comps = comps, !.bag = bag, !.stage = stage])
         /\ At(p, [p EXCEPT !.comps = comps, !.bag = bag, !.completed = completed,
                            !.failed = failed, !.stage = stage])
BY DEF Record, At

LEMMA StagesFit ==
  ASSUME NEW p \in Record, NEW stage \in Stages, NEW set \in SUBSET Slugs,
         NEW completed \in BOOLEAN
  PROVE  /\ At(p, [p EXCEPT !.stage = stage])
         /\ At(p, [p EXCEPT !.completed = completed, !.stage = stage])
         /\ At(p, [p EXCEPT !.stage = stage, !.blind = set])
         /\ At(p, [p EXCEPT !.bag = set, !.stage = stage])
BY DEF Record, At

LEMMA PagesFit ==
  ASSUME NEW p \in Record, NEW bag \in SUBSET Slugs, NEW stash \in SUBSET Slugs, NEW n \in Nat
  PROVE  /\ At(p, [p EXCEPT !.bag = bag, !.stash = stash, !.pages = n])
         /\ At(p, [p EXCEPT !.stash = stash, !.downloads = n])
BY DEF Record, At

LEMMA NotesFit ==
  ASSUME NEW p, NEW r \in Record, NEW set \in SUBSET Slugs
  PROVE  LET q == [r EXCEPT !.noted = set] IN
         (At(p, r) => At(p, q)) /\ (Past(p, r) => Past(p, q))
BY DEF Record, At, Past

LEMMA WarningsFit ==
  ASSUME NEW p, NEW r, At(p, r), NEW set \in SUBSET Slugs,
         NEW stepFailed \in BOOLEAN, NEW failed \in BOOLEAN
  PROVE  /\ At(p, [r EXCEPT !.warned = set])
         /\ At(p, [r EXCEPT !.stepFailed = stepFailed, !.failed = failed])
BY DEF Record, At

LEMMA MovesFit ==
  ASSUME NEW p \in Record, NEW comps \in [Slugs -> States], NEW bag \in SUBSET Slugs,
         NEW at, at = p.at + 1
  PROVE  /\ Past(p, [p EXCEPT !.bag = bag, !.at = at, !.stage = "next"])
         /\ Past(p, [p EXCEPT !.at = at, !.stage = "next"])
         /\ Past(p, [p EXCEPT !.comps = comps, !.at = at, !.stage = "next"])
<1>1. at \in Nat \ {0} /\ "next" \in Stages
  BY DEF Record, Stages
<1> QED BY <1>1 DEF Record, Past

\* A job's record is replaced by one of the right type.
Refitted(j) ==
  \E r : /\ Become(j, r)
         /\ Fits(r) \/ At(job[j], r) \/ (Past(job[j], r) /\ job[j].at <= Len(job[j].order))

LEMMA StaysFit ==
  ASSUME JobsFit, NEW j \in Jobs, Refitted(j)
  PROVE  JobsFit'
<1>1. PICK r : /\ Become(j, r)
               /\ Fits(r) \/ At(job[j], r) \/ (Past(job[j], r) /\ job[j].at <= Len(job[j].order))
  BY DEF Refitted
<1>2. Fits(job[j]) /\ job[j].at \in Nat /\ Len(job[j].order) \in Nat
  BY DEF JobsFit, Fits, Record
<1>3. Fits(r)
  BY <1>1, <1>2 DEF Fits, At, Past
<1>4. job' = [job EXCEPT ![j] = r]
  BY <1>1 DEF Become
<1>5. job' \in [Jobs -> Record] /\ \A i \in Jobs : job'[i] = IF i = j THEN r ELSE job[i]
  BY <1>3, <1>4 DEF JobsFit, Fits
<1>6. \A i \in Jobs : Fits(job'[i])
  BY <1>3, <1>5 DEF JobsFit
<1> QED BY <1>5, <1>6 DEF JobsFit

LEMMA MarkedIs ==
  ASSUME NEW comps \in [Slugs -> States], NEW s, NEW state \in States
  PROVE  Marked(comps, s, state) \in [Slugs -> States]
BY DEF Marked

\* The component at hand.
LEMMA CurrentIs ==
  ASSUME HonestJobs, JobsFit, NEW j \in Jobs, NEW stage, stage \notin {"next", "over"}, AtStage(j, stage)
  PROVE  /\ Current(j) \in Slugs /\ job[j] \in Record /\ job[j].at <= Len(job[j].order)
         /\ job[j].comps \in [Slugs -> States]
         /\ {job[j].bag, job[j].blind, job[j].noted, job[j].warned} \subseteq SUBSET Slugs
<1>1. job[j] \in Record /\ job[j].at <= Len(job[j].order) /\ Current(j) = job[j].order[job[j].at]
  <2>1. stage \in Stages
    BY DEF AtStage, HonestJobs, Honest
  <2> QED BY <2>1, Working DEF JobsFit
<1>2. job[j].order \in Seq(Slugs) /\ job[j].at \in Nat \ {0}
  BY <1>1 DEF Record
<1>3. Current(j) \in Slugs
  BY <1>1, <1>2
<1> QED BY <1>1, <1>3 DEF Record

LEMMA NamesAre ==
  /\ {"running", "done", "failed"} \subseteq States
  /\ {"over", "dispatch", "load", "row", "config", "credential", "bootstrap", "teardown",
      "droprow", "dropconfig", "dropsecret", "next", "stuck"} \subseteq Stages
BY DEF States, Stages

LEMMA DispatchSucceedsFits ==
  ASSUME HonestJobs, JobsFit, WorldOK, NEW j \in Jobs, DispatchSucceeds(j)
  PROVE  JobsFit' /\ WorldOK'
<1>. DEFINE p == job[j]
            s == Current(j)
            r == [p EXCEPT !.comps = Marked(p.comps, s, "done"), !.bag = Announced(j),
                           !.stage = "row"]
<1>1. p \in Record /\ s \in Slugs /\ p.comps \in [Slugs -> States] /\ Announced(j) \in SUBSET Slugs
  <2>1. AtStage(j, "dispatch")
    BY Zenon DEF DispatchSucceeds
  <2> QED BY <2>1, CurrentIs DEF Announced
<1>2. Marked(p.comps, s, "done") \in [Slugs -> States] /\ "row" \in Stages
  BY <1>1, NamesAre, MarkedIs
<1>3. At(p, r)
  BY <1>1, <1>2, MarksFit, Zenon
<1>4. Become(j, r)
  BY Zenon DEF DispatchSucceeds
<1>5. WorldOK'
  BY <1>1 DEF DispatchSucceeds, Place, WorldOK
<1>6. Refitted(j)
  BY <1>3, <1>4, Zenon DEF Refitted
<1> QED BY <1>5, <1>6, StaysFit

LEMMA DispatchFailsFits ==
  ASSUME HonestJobs, JobsFit, WorldOK, NEW j \in Jobs, DispatchFails(j)
  PROVE  JobsFit' /\ WorldOK'
<1>. DEFINE p == job[j]
            s == Current(j)
            r(bag) == [p EXCEPT !.comps = Marked(p.comps, s, "failed"), !.bag = bag,
                                !.completed = TRUE, !.failed = TRUE, !.stage = "over"]
<1>1. /\ p \in Record /\ s \in Slugs /\ p.comps \in [Slugs -> States]
      /\ {p.bag, Announced(j)} \subseteq SUBSET Slugs
  <2>1. AtStage(j, "dispatch")
    BY Zenon DEF DispatchFails
  <2> QED BY <2>1, CurrentIs DEF Announced
<1>2. Marked(p.comps, s, "failed") \in [Slugs -> States] /\ "over" \in Stages
  BY <1>1, NamesAre, MarkedIs
<1>3. \A bag \in {p.bag, Announced(j)} : At(p, r(bag))
  BY <1>1, <1>2, MarksFit, Zenon
<1>4. \E bag \in {p.bag, Announced(j)} : Become(j, r(bag))
  BY Zenon DEF DispatchFails
<1>. HIDE DEF r
<1>5. WorldOK'
  BY <1>1 DEF DispatchFails, Place, WorldOK
<1>6. Refitted(j)
  BY <1>3, <1>4, Zenon DEF Refitted
<1> QED BY <1>5, <1>6, StaysFit

LEMMA SaveRowFits ==
  ASSUME HonestJobs, JobsFit, WorldOK, NEW j \in Jobs, SaveRow(j)
  PROVE  JobsFit' /\ WorldOK'
<1>1. job[j] \in Record /\ Current(j) \in Slugs
  <2>1. AtStage(j, "row")
    BY DEF SaveRow
  <2> QED BY <2>1, CurrentIs
<1>2. At(job[j], [job[j] EXCEPT !.stage = "config"])
  BY <1>1, NamesAre, StagesFit, Zenon
<1>3. Refitted(j)
  BY <1>2, Zenon DEF SaveRow, Refitted
<1>4. rows' \in Written(rows, Current(j)) /\ UNCHANGED <<running, custom, configs, secrets, artifacts>>
  BY Zenon DEF SaveRow
<1>5. WorldOK'
  BY <1>1, <1>4 DEF Written, WorldOK
<1> QED BY <1>3, <1>5, StaysFit

LEMMA SaveConfigFits ==
  ASSUME HonestJobs, JobsFit, WorldOK, NEW j \in Jobs, SaveConfig(j)
  PROVE  JobsFit' /\ WorldOK'
<1>1. job[j] \in Record /\ Current(j) \in Slugs
  <2>1. AtStage(j, "config")
    BY DEF SaveConfig
  <2> QED BY <2>1, CurrentIs
<1>2. At(job[j], [job[j] EXCEPT !.stage = "credential"])
  BY <1>1, NamesAre, StagesFit, Zenon
<1>3. Refitted(j)
  BY <1>2, Zenon DEF SaveConfig, Refitted
<1>4. configs' \in Written(configs, Current(j)) /\ UNCHANGED <<running, custom, rows, secrets, artifacts>>
  BY Zenon DEF SaveConfig
<1>5. WorldOK'
  BY <1>1, <1>4 DEF Written, WorldOK
<1> QED BY <1>3, <1>5, StaysFit

LEMMA ProvisionFits ==
  ASSUME HonestJobs, JobsFit, WorldOK, NEW j \in Jobs, Provision(j)
  PROVE  JobsFit' /\ WorldOK'
<1>. DEFINE p == job[j]
            s == Current(j)
<1>1. p \in Record /\ s \in Slugs /\ p.bag \cup {s} \in SUBSET Slugs
  <2>1. AtStage(j, "credential")
    BY DEF Provision
  <2> QED BY <2>1, CurrentIs
<1>2. /\ At(p, [p EXCEPT !.bag = p.bag \cup {s}, !.stage = "bootstrap"])
      /\ At(p, [p EXCEPT !.stage = "bootstrap"])
  BY <1>1, NamesAre, StagesFit, Zenon
<1>3. \/ Become(j, [p EXCEPT !.bag = p.bag \cup {s}, !.stage = "bootstrap"])
      \/ Become(j, [p EXCEPT !.stage = "bootstrap"])
  BY Zenon DEF Provision
<1>4. Refitted(j)
  BY <1>2, <1>3, Zenon DEF Refitted
<1>5. /\ secrets' = secrets \/ (s \in Credentialed /\ secrets' \in Written(secrets, s))
      /\ UNCHANGED <<running, custom, rows, configs, artifacts>>
  BY Zenon DEF Provision
<1>6. WorldOK'
  BY <1>5 DEF Written, WorldOK
<1> QED BY <1>4, <1>6, StaysFit

LEMMA BootstrapFits ==
  ASSUME HonestJobs, JobsFit, WorldOK, NEW j \in Jobs, Bootstrap(j)
  PROVE  JobsFit' /\ WorldOK'
<1>. DEFINE p == job[j]
            s == Current(j)
<1>1. /\ p \in Record /\ s \in Slugs /\ p.bag \cup {s} \in SUBSET Slugs
      /\ p.at <= Len(p.order) /\ p.comps \in [Slugs -> States]
  <2>1. AtStage(j, "bootstrap")
    BY DEF Bootstrap
  <2> QED BY <2>1, CurrentIs
<1>2. /\ Past(p, [p EXCEPT !.bag = p.bag \cup {s}, !.at = p.at + 1, !.stage = "next"])
      /\ Past(p, [p EXCEPT !.at = p.at + 1, !.stage = "next"])
  BY <1>1, MovesFit, Zenon
<1>3. \/ Become(j, [p EXCEPT !.bag = p.bag \cup {s}, !.at = p.at + 1, !.stage = "next"])
      \/ Become(j, [p EXCEPT !.at = p.at + 1, !.stage = "next"])
  BY Zenon DEF Bootstrap
<1>4. Refitted(j)
  BY <1>1, <1>2, <1>3, Zenon DEF Refitted
<1>5. /\ artifacts' = artifacts \/ (s \in Bootstrapped /\ artifacts' \in Written(artifacts, s))
      /\ UNCHANGED <<running, custom, rows, configs, secrets>>
  BY Zenon DEF Bootstrap
<1>6. WorldOK'
  BY <1>5 DEF Written, WorldOK
<1> QED BY <1>4, <1>6, StaysFit

LEMMA LoadConfigFits ==
  ASSUME HonestJobs, JobsFit, WorldOK, NEW j \in Jobs, LoadConfig(j)
  PROVE  JobsFit' /\ WorldOK'
<1>. DEFINE p == job[j]
            Loaded(known) == [p EXCEPT !.stage = "teardown",
                                       !.blind = IF known THEN p.blind ELSE p.blind \cup {Current(j)}]
<1>1. p \in Record /\ Current(j) \in Slugs /\ p.blind \in SUBSET Slugs
  <2>1. AtStage(j, "load")
    BY Zenon DEF LoadConfig
  <2> QED BY <2>1, CurrentIs
<1>2. \A known : At(p, Loaded(known))
  <2>1. \A known : (IF known THEN p.blind ELSE p.blind \cup {Current(j)}) \in SUBSET Slugs
    BY <1>1
  <2> QED BY <1>1, <2>1, NamesAre, StagesFit, Zenon
<1>3. \E known : Become(j, Loaded(known))
  BY Zenon DEF LoadConfig
<1>. HIDE DEF Loaded
<1>4. Refitted(j)
  BY <1>2, <1>3, Zenon DEF Refitted
<1>5. UNCHANGED world
  BY Zenon DEF LoadConfig
<1>6. WorldOK'
  BY <1>5 DEF world, WorldOK
<1> QED BY <1>4, <1>6, StaysFit

LEMMA TearDownFits ==
  ASSUME HonestJobs, JobsFit, WorldOK, NEW j \in Jobs, TearDown(j)
  PROVE  JobsFit' /\ WorldOK'
<1>. DEFINE p == job[j]
            s == Current(j)
            r == [p EXCEPT !.stage = "droprow"]
            w == [r EXCEPT !.warned = r.warned \cup {s}]
            f == [r EXCEPT !.stepFailed = TRUE, !.failed = TRUE]
<1>1. p \in Record /\ s \in Slugs
  <2>1. AtStage(j, "teardown")
    BY Zenon DEF TearDown
  <2> QED BY <2>1, CurrentIs
<1>2. At(p, r)
  BY <1>1, NamesAre, StagesFit, Zenon
<1>3. Become(j, r) \/ Become(j, w) \/ Become(j, f)
  BY Zenon DEF TearDown
<1>. HIDE DEF r
<1>6. r.warned \cup {s} \in SUBSET Slugs
  BY <1>1, <1>2 DEF At, Record
<1>7. At(p, w) /\ At(p, f)
  BY <1>2, <1>6, WarningsFit, Zenon
<1>. HIDE DEF w, f
<1>4. Refitted(j)
  BY <1>2, <1>3, <1>7, Zenon DEF Refitted
<1>5. /\ UNCHANGED <<rows, configs, secrets, artifacts>>
      /\ \/ UNCHANGED <<running, custom>>
         \/ running' = running \ {s} /\ custom' = custom \ {s}
  BY Zenon DEF TearDown, TakeAway
<1>8. WorldOK'
  BY <1>5 DEF WorldOK
<1> QED BY <1>4, <1>8, StaysFit

LEMMA StallFits ==
  ASSUME HonestJobs, JobsFit, WorldOK, NEW j \in Jobs, Stall(j)
  PROVE  JobsFit' /\ WorldOK'
<1>. DEFINE p == job[j]
            s == Current(j)
            r == [p EXCEPT !.stage = "stuck"]
<1>1. p \in Record /\ s \in Slugs
  <2>1. \E stage \in {"dispatch", "credential", "bootstrap", "teardown"} : AtStage(j, stage)
    BY Zenon DEF Stall, AtStage
  <2> QED BY <2>1, CurrentIs
<1>2. At(p, r)
  BY <1>1, NamesAre, StagesFit, Zenon
<1>3. Become(j, r)
  BY Zenon DEF Stall
<1>4. Refitted(j)
  BY <1>2, <1>3, Zenon DEF Refitted
<1>5. WorldOK'
  BY <1>1 DEF Stall, Place, TakeAway, WorldOK
<1> QED BY <1>4, <1>5, StaysFit

\* A drop that works, or that is noted.
LEMMA DropIs ==
  ASSUME JobsFit, NEW j \in Jobs, Current(j) \in Slugs, job[j].at <= Len(job[j].order),
         NEW set, NEW new, NEW r, Dropped(j, set, new, r),
         At(job[j], r) \/ Past(job[j], r)
  PROVE  Refitted(j)
<1>. DEFINE q == [r EXCEPT !.noted = r.noted \cup {Current(j)}]
<1>1. r \in Record
  BY DEF At, Past
<1>2. r.noted \cup {Current(j)} \in SUBSET Slugs
  BY <1>1 DEF Record
<1>3. (At(job[j], r) => At(job[j], q)) /\ (Past(job[j], r) => Past(job[j], q))
  BY <1>1, <1>2, NotesFit, Zenon
<1>4. Become(j, r) \/ Become(j, q)
  BY Zenon DEF Dropped
<1> QED BY <1>3, <1>4, Zenon DEF Refitted

LEMMA DropsFit ==
  ASSUME HonestJobs, JobsFit, WorldOK, NEW j \in Jobs, DropRow(j) \/ DropConfig(j)
  PROVE  JobsFit' /\ WorldOK'
<1>. DEFINE p == job[j]
<1>1. p \in Record /\ Current(j) \in Slugs /\ p.at <= Len(p.order)
  <2>1. AtStage(j, "droprow") \/ AtStage(j, "dropconfig")
    BY Zenon DEF DropRow, DropConfig
  <2> QED BY <2>1, CurrentIs
<1>2. /\ At(p, [p EXCEPT !.stage = "dropconfig"])
      /\ At(p, [p EXCEPT !.stage = "dropsecret"])
  BY <1>1, NamesAre, StagesFit, Zenon
<1>3. \/ Dropped(j, rows, rows', [p EXCEPT !.stage = "dropconfig"])
      \/ Dropped(j, configs, configs', [p EXCEPT !.stage = "dropsecret"])
  BY Zenon DEF DropRow, DropConfig
<1>4. Refitted(j)
  BY <1>1, <1>2, <1>3, DropIs, Zenon
<1>5. /\ rows' \in {rows, rows \ {Current(j)}} /\ configs' \in {configs, configs \ {Current(j)}}
      /\ UNCHANGED <<running, custom, secrets, artifacts>>
  BY Zenon DEF DropRow, DropConfig
<1>6. WorldOK'
  BY <1>5 DEF WorldOK
<1> QED BY <1>4, <1>6, StaysFit

LEMMA DropSecretFits ==
  ASSUME HonestJobs, JobsFit, WorldOK, NEW j \in Jobs, DropSecret(j)
  PROVE  JobsFit' /\ WorldOK'
<1>. DEFINE p == job[j]
            state == IF p.stepFailed THEN "failed" ELSE "done"
            comps == Marked(p.comps, Current(j), state)
            r == [p EXCEPT !.comps = comps, !.at = p.at + 1, !.stage = "next"]
<1>1. /\ p \in Record /\ Current(j) \in Slugs /\ p.at <= Len(p.order)
      /\ p.comps \in [Slugs -> States] /\ p.bag \in SUBSET Slugs
  <2>1. AtStage(j, "dropsecret")
    BY Zenon DEF DropSecret
  <2> QED BY <2>1, CurrentIs
<1>2. comps \in [Slugs -> States]
  <2>1. state \in States
    BY NamesAre
  <2> QED BY <1>1, <2>1, MarkedIs, Zenon
<1>3. Past(p, r)
  BY <1>1, <1>2, MovesFit, Zenon
<1>4. Dropped(j, secrets, secrets', r)
  BY Zenon DEF DropSecret
<1>. HIDE DEF r
<1>5. Refitted(j)
  BY <1>1, <1>3, <1>4, DropIs, Zenon
<1>6. /\ secrets' \in {secrets, secrets \ {Current(j)}}
      /\ UNCHANGED <<running, custom, rows, configs, artifacts>>
  BY Zenon DEF DropSecret
<1>7. WorldOK'
  BY <1>6 DEF WorldOK
<1> QED BY <1>5, <1>7, StaysFit

LEMMA LoopFits ==
  ASSUME HonestJobs, JobsFit, WorldOK, NEW j \in Jobs, StartComponent(j) \/ FinishJob(j)
  PROVE  JobsFit' /\ WorldOK'
<1>. DEFINE p == job[j]
            stage == IF p.kind = "install" THEN "dispatch" ELSE "load"
            comps == Marked(p.comps, Current(j), "running")
            r == [p EXCEPT !.comps = comps, !.stepFailed = FALSE, !.stage = stage]
            q == [p EXCEPT !.completed = TRUE, !.stage = "over"]
<1>1. p \in Record /\ p.comps \in [Slugs -> States]
  BY DEF JobsFit, Record
<1>2. stage \in Stages /\ "over" \in Stages /\ comps \in [Slugs -> States]
  BY <1>1, NamesAre, MarkedIs
<1>3. At(p, r) /\ At(p, q)
  BY <1>1, <1>2, MarksFit, StagesFit, Zenon
<1>4. Become(j, r) \/ Become(j, q) \/ Become(j, NoJob)
  BY Zenon DEF StartComponent, FinishJob
<1>. HIDE DEF r, q
<1>5. Refitted(j)
  BY <1>3, <1>4, NoJobFits, Zenon DEF Refitted
<1>6. UNCHANGED world
  BY Zenon DEF StartComponent, FinishJob
<1>7. WorldOK'
  BY <1>6 DEF world, WorldOK
<1> QED BY <1>5, <1>7, StaysFit

\* A new job, of one of three kinds, with an order and at its first component.
Kinds == {"install", "rollback", "uninstall"}
Starts(p, order, r) == r \in Record /\ r.at = p.at /\ r.order = order

LEMMA NewInstallFits ==
  ASSUME NEW p \in Record, NEW kind \in Kinds, NEW order \in Seq(Slugs),
         NEW chosen \in SUBSET Slugs, NEW stage \in Stages, NEW comps \in [Slugs -> States]
  PROVE  /\ Starts(p, order, [p EXCEPT !.kind = kind, !.order = order, !.chosen = chosen,
                                       !.stage = stage, !.comps = comps])
         /\ Starts(p, order, [p EXCEPT !.kind = kind, !.order = order, !.chosen = chosen,
                                       !.stage = stage])
BY DEF Kinds, Record, Starts

LEMMA NewTeardownFits ==
  ASSUME NEW p \in Record, NEW kind \in Kinds, NEW order \in Seq(Slugs),
         NEW stage \in Stages, NEW comps \in [Slugs -> States]
  PROVE  /\ Starts(p, order, [p EXCEPT !.kind = kind, !.order = order, !.stage = stage, !.comps = comps])
         /\ Starts(p, order, [p EXCEPT !.kind = kind, !.order = order, !.stage = stage])
BY DEF Kinds, Record, Starts

LEMMA NewFits ==
  ASSUME JobsFit, NEW j \in Jobs, NEW order \in Seq(Slugs), NEW r, Become(j, r),
         Starts(NoJob, order, r)
  PROVE  Refitted(j)
<1>1. r \in Record /\ r.at = 1 /\ Len(r.order) \in Nat
  BY DEF NoJob, Starts
<1>2. Fits(r)
  BY <1>1 DEF Fits
<1> QED BY <1>2, Zenon DEF Refitted

LEMMA StartsFit ==
  ASSUME HonestJobs, JobsFit, WorldOK, NEW j \in Jobs,
         \/ \E chosen \in SUBSET Movable : InstallAll(j, chosen)
         \/ \E s \in Slugs : \E chosen \in SUBSET Movable : InstallOne(j, s, chosen)
         \/ \E s \in Slugs : Uninstall(j, s)
         \/ \E i \in Jobs : Rollback(j, i)
  PROVE  JobsFit' /\ WorldOK'
<1>1. /\ NoJob \in Record /\ "next" \in Stages
      /\ "install" \in Kinds /\ "rollback" \in Kinds /\ "uninstall" \in Kinds
  BY NoJobFits, NamesAre DEF Fits, Kinds
<1>2. ASSUME NEW chosen \in SUBSET Movable, InstallAll(j, chosen) PROVE Refitted(j)
  <2>. DEFINE r == [NoJob EXCEPT !.kind = "install", !.order = Order, !.chosen = chosen,
                                 !.stage = "next", !.comps = Checklist(Order)]
  <2>1. Order \in Seq(Slugs) /\ chosen \in SUBSET Slugs
    BY OrderAssumption, SubsetAssumption
  <2>2. Checklist(Order) \in [Slugs -> States]
    BY <2>1, ChecklistIs
  <2>3. Starts(NoJob, Order, r)
    BY <1>1, <2>1, <2>2, NewInstallFits, Zenon
  <2>4. Become(j, r)
    BY <1>2, Zenon DEF InstallAll
  <2>. HIDE DEF r
  <2> QED BY <2>1, <2>3, <2>4, NewFits, Zenon
<1>3. ASSUME NEW s \in Slugs, NEW chosen \in SUBSET Movable, InstallOne(j, s, chosen) PROVE Refitted(j)
  <2>. DEFINE r == [NoJob EXCEPT !.kind = "install", !.order = <<s>>, !.chosen = chosen,
                                 !.stage = "next"]
  <2>1. <<s>> \in Seq(Slugs) /\ chosen \in SUBSET Slugs /\ NoJob.comps \in [Slugs -> States]
    BY <1>1, SubsetAssumption DEF Record
  <2>3. Starts(NoJob, <<s>>, r)
    BY <1>1, <2>1, NewInstallFits, Zenon
  <2>4. Become(j, r)
    BY <1>3, Zenon DEF InstallOne
  <2>. HIDE DEF r
  <2> QED BY <2>1, <2>3, <2>4, NewFits, Zenon
<1>4. ASSUME NEW s \in Slugs, Uninstall(j, s) PROVE Refitted(j)
  <2>. DEFINE r == [NoJob EXCEPT !.kind = "uninstall", !.order = <<s>>, !.stage = "next"]
  <2>1. <<s>> \in Seq(Slugs) /\ NoJob.comps \in [Slugs -> States]
    BY <1>1 DEF Record
  <2>3. Starts(NoJob, <<s>>, r)
    BY <1>1, <2>1, NewTeardownFits, Zenon
  <2>4. Become(j, r)
    BY <1>4, Zenon DEF Uninstall
  <2>. HIDE DEF r
  <2> QED BY <2>1, <2>3, <2>4, NewFits, Zenon
<1>5. ASSUME NEW i \in Jobs, Rollback(j, i) PROVE Refitted(j)
  <2>1. PICK order \in Teardown(job[i]) :
          Become(j, [NoJob EXCEPT !.kind = "rollback", !.order = order,
                                  !.stage = "next", !.comps = Checklist(order)])
    BY <1>5, Zenon DEF Rollback
  <2>. DEFINE r == [NoJob EXCEPT !.kind = "rollback", !.order = order,
                                 !.stage = "next", !.comps = Checklist(order)]
  <2>2. order \in Seq(Slugs)
    BY TeardownIs DEF HonestJobs, Honest
  <2>3. Checklist(order) \in [Slugs -> States]
    BY <2>2, ChecklistIs
  <2>4. Starts(NoJob, order, r)
    BY <1>1, <2>2, <2>3, NewTeardownFits, Zenon
  <2>5. Become(j, r)
    BY <2>1
  <2>. HIDE DEF r
  <2> QED BY <2>2, <2>4, <2>5, NewFits, Zenon
<1>6. UNCHANGED world
  BY Zenon DEF InstallAll, InstallOne, Uninstall, Rollback
<1>7. WorldOK'
  BY <1>6 DEF world, WorldOK
<1>8. Refitted(j)
  BY <1>2, <1>3, <1>4, <1>5
<1> QED BY <1>7, <1>8, StaysFit

LEMMA ReadersFit ==
  ASSUME JobsFit, WorldOK, NEW j \in Jobs, ResultPage(j) \/ Download(j) \/ HangUp(j)
  PROVE  JobsFit' /\ WorldOK'
<1>. DEFINE p == job[j]
            stash == IF p.stash = {} THEN p.bag ELSE p.stash
            pages == IF p.bag = {} THEN p.pages ELSE p.pages + 1
            r == [p EXCEPT !.bag = {}, !.stash = stash, !.pages = pages]
            d == [p EXCEPT !.stash = {}, !.downloads = p.downloads + 1]
<1>1. p \in Record
  BY DEF JobsFit
<1>2. /\ stash \in SUBSET Slugs /\ {} \in SUBSET Slugs
      /\ pages \in Nat /\ p.downloads + 1 \in Nat
  BY <1>1 DEF Record
<1>3. At(p, r) /\ At(p, d)
  BY <1>1, <1>2, PagesFit, Zenon
<1>4. Become(j, r) \/ Become(j, d) \/ Become(j, NoJob)
  BY Zenon DEF ResultPage, Download, HangUp
<1>. HIDE DEF r, d
<1>5. Refitted(j)
  BY <1>3, <1>4, NoJobFits, Zenon DEF Refitted
<1>6. UNCHANGED world
  BY Zenon DEF ResultPage, Download, HangUp
<1>7. WorldOK'
  BY <1>6 DEF world, WorldOK
<1> QED BY <1>5, <1>7, StaysFit

LEMMA StepFits ==
  ASSUME HonestJobs, JobsFit, WorldOK, [Next]_vars
  PROVE  JobsFit' /\ WorldOK'
<1>1. CASE Crash
  BY <1>1, NoJobFits DEF Crash, world, WorldOK, JobsFit, Fits
<1>2. CASE UNCHANGED vars
  BY <1>2 DEF vars, WorldOK, JobsFit
<1>3. ASSUME NEW j \in Jobs, Work(j) PROVE JobsFit' /\ WorldOK'
  BY <1>3, LoopFits, DispatchSucceedsFits, DispatchFailsFits, SaveRowFits, SaveConfigFits,
     ProvisionFits, BootstrapFits, LoadConfigFits, TearDownFits, DropsFit, DropSecretFits DEF Work
<1>4. ASSUME NEW j \in Jobs, ResultPage(j) \/ Download(j) \/ HangUp(j) PROVE JobsFit' /\ WorldOK'
  BY <1>4, ReadersFit
<1>5. ASSUME NEW j \in Jobs,
             \/ \E chosen \in SUBSET Movable : InstallAll(j, chosen)
             \/ \E s \in Slugs : \E chosen \in SUBSET Movable : InstallOne(j, s, chosen)
             \/ \E s \in Slugs : Uninstall(j, s)
             \/ \E i \in Jobs : Rollback(j, i)
      PROVE  JobsFit' /\ WorldOK'
  BY <1>5, StartsFit
<1>6. ASSUME NEW j \in Jobs, Stall(j) PROVE JobsFit' /\ WorldOK'
  BY <1>6, StallFits
<1> QED BY <1>1, <1>2, <1>3, <1>4, <1>5, <1>6 DEF Next

\* An order that names no component twice is no longer than INSTALL_ORDER.
LEMMA OrdersFit ==
  ASSUME NEW order \in Seq(Slugs), IsInjective(order)
  PROVE  Len(order) <= Len(Order)
<1>1. Len(Order) \in Nat /\ Order \in [1..Len(Order) -> Slugs]
  BY OrderAssumption
<1>2. Len(order) \in Nat /\ order \in [1..Len(order) -> Slugs]
  OBVIOUS
<1>10. \A n \in Nat : IsFiniteSet(1..n) /\ Cardinality(1..n) = n
  <2>. SUFFICES ASSUME NEW n \in Nat PROVE IsFiniteSet(1..n) /\ Cardinality(1..n) = n
    OBVIOUS
  <2>1. IsFiniteSet(1..n) /\ Cardinality(1..n) = IF 1 > n THEN 0 ELSE n - 1 + 1
    BY FS_Interval
  <2> QED BY <2>1
<1>3. IsFiniteSet(1..Len(Order)) /\ Cardinality(1..Len(Order)) = Len(Order)
  BY <1>1, <1>10, Zenon
<1>4. Cardinality(1..Len(order)) = Len(order)
  BY <1>2, <1>10, Zenon
<1>5. Order \in Surjection(1..Len(Order), Slugs)
  <2>1. \A s \in Slugs : \E i \in 1..Len(Order) : Order[i] = s
    BY <1>1 DEF Slugs, ToSet
  <2> QED BY <1>1, <2>1 DEF Surjection
<1>6. IsFiniteSet(Slugs) /\ Cardinality(Slugs) <= Len(Order)
  BY <1>3, <1>5, FS_Surjection
<1>7. order \in Injection(1..Len(order), Slugs)
  BY <1>2 DEF Injection, IsInjective
<1>8. Cardinality(1..Len(order)) <= Cardinality(Slugs)
  BY <1>6, <1>7, FS_Injection
<1>9. Cardinality(Slugs) \in Nat
  BY <1>6, FS_CardinalityType
<1> QED BY <1>1, <1>2, <1>4, <1>6, <1>8, <1>9

\* Every job, the host, the store and the vault keep their types, whatever the
\* components: an install, a rollback or an uninstall names no component twice
\* and stands at one of them or one past the last; secrets are only those of
\* components that have a credential.
THEOREM JobsTypeCorrect == Spec => []TypeOK
<1>1. Init => HonestJobs /\ JobsFit /\ WorldOK
  <2>1. Init => HonestJobs
    BY NoJobIsHonest DEF Init, HonestJobs
  <2>2. Init => JobsFit /\ WorldOK
    BY NoJobFits DEF Init, JobsFit, Fits, WorldOK
  <2> QED BY <2>1, <2>2
<1>2. HonestJobs /\ JobsFit /\ WorldOK /\ [Next]_vars => (HonestJobs /\ JobsFit /\ WorldOK)'
  BY StepIsHonest, StepFits
<1>3. HonestJobs /\ JobsFit /\ WorldOK => TypeOK
  <2>. SUFFICES ASSUME HonestJobs, JobsFit, WorldOK PROVE TypeOK
    OBVIOUS
  <2>. DEFINE Orders == {<<>>} \cup {o \in UNION {[1..n -> Slugs] : n \in 1..Len(Order)} : IsInjective(o)}
  <2>1. ASSUME NEW j \in Jobs PROVE job[j].order \in Orders /\ job[j].at \in 1..(Len(Order) + 1)
    <3>. DEFINE o == job[j].order
    <3>1. o \in Seq(Slugs) /\ IsInjective(o) /\ job[j].at \in Nat \ {0} /\ job[j].at <= Len(o) + 1
      BY DEF HonestJobs, Honest, JobsFit, Fits
    <3>2. Len(o) \in Nat /\ o \in [1..Len(o) -> Slugs] /\ (Len(o) = 0 => o = <<>>)
      BY <3>1
    <3>3. Len(o) <= Len(Order) /\ Len(Order) \in Nat
      BY <3>1, OrdersFit, OrderAssumption
    <3>. HIDE DEF o
    <3>4. Len(o) # 0 => Len(o) \in 1..Len(Order)
      BY <3>2, <3>3
    <3>5. o \in Orders
      BY <3>1, <3>2, <3>4
    <3>6. job[j].at \in 1..(Len(Order) + 1)
      BY <3>1, <3>2, <3>3
    <3> QED BY <3>5, <3>6 DEF o
  <2>. HIDE DEF Orders
  <2>2. \A r \in Record : r.order \in Orders /\ r.at \in 1..(Len(Order) + 1) =>
          r \in [kind : {"none", "install", "rollback", "uninstall"},
                 order : Orders, at : 1..(Len(Order) + 1), stage : Stages,
                 chosen : SUBSET Slugs, blind : SUBSET Slugs,
                 comps : [Slugs -> States], stepFailed : BOOLEAN,
                 completed : BOOLEAN, failed : BOOLEAN,
                 bag : SUBSET Slugs, stash : SUBSET Slugs, noted : SUBSET Slugs,
                 warned : SUBSET Slugs, pages : Nat, downloads : Nat]
    BY DEF Record
  <2>3. job \in [Jobs -> [kind : {"none", "install", "rollback", "uninstall"},
                 order : Orders, at : 1..(Len(Order) + 1), stage : Stages,
                 chosen : SUBSET Slugs, blind : SUBSET Slugs,
                 comps : [Slugs -> States], stepFailed : BOOLEAN,
                 completed : BOOLEAN, failed : BOOLEAN,
                 bag : SUBSET Slugs, stash : SUBSET Slugs, noted : SUBSET Slugs,
                 warned : SUBSET Slugs, pages : Nat, downloads : Nat]]
    BY <2>1, <2>2, Zenon DEF JobsFit
  <2> QED BY <2>3, Zenon DEF TypeOK, WorldOK, Orders
<1> QED BY <1>1, <1>2, <1>3, PTL DEF Spec
=============================================================================
