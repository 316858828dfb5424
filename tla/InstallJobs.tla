----------------------------- MODULE InstallJobs -----------------------------
(***************************************************************************)
(* Managed installs of the console: the background jobs of POST /install   *)
(* and of the per-component pages, the rollback of a finished job, the     *)
(* uninstall handlers, and the result page with its one-shot credentials.  *)
(*                                                                         *)
(* A job works through its components one at a time; every await of a step *)
(* is a place where other jobs run.  Jobs and their credentials live in    *)
(* memory only; what they did to the host, the metadata store and the      *)
(* secrets vault outlives a crash.                                         *)
(***************************************************************************)
EXTENDS Naturals, Sequences, FiniteSets, SequencesExt

CONSTANTS
  Order,          \* INSTALL_ORDER, the available components of it
  Credentialed,   \* components with an admin credential
  Bootstrapped,   \* components whose post-install hook writes vault entries
  Announcing,     \* components whose driver itself shows credentials: lakekeeper
  Silent,         \* components whose removal hides some of its warnings: databend
  Movable,        \* bound: components ever placed elsewhere than the defaults
  Jobs,           \* bound: jobs there can be in one life of the server
  MaxActive       \* bound: jobs and uninstalls at work at the same time

Slugs == ToSet(Order)

ASSUME OrderAssumption == Order \in Seq(Slugs) /\ IsInjective(Order) /\ Order # <<>>
ASSUME SubsetAssumption ==
  /\ Credentialed \subseteq Slugs /\ Bootstrapped \subseteq Slugs /\ Movable \subseteq Slugs
  /\ Announcing \subseteq Slugs /\ Silent \subseteq Slugs
ASSUME MaxActiveAssumption == MaxActive \in Nat \ {0}

VARIABLES
  job,         \* the jobs map, and uninstall requests being served
  running,     \* components whose service is on the host
  custom,      \* of these, the ones under a service name of the operator's
  rows,        \* components with a <slug>-instance/local row
  configs,     \* components with an install-config/<slug>-local row
  secrets,     \* components with a <slug>/admin-password in the vault
  artifacts    \* components with bootstrap entries in the vault

world == <<running, custom, rows, configs, secrets, artifacts>>
vars == <<job, running, custom, rows, configs, secrets, artifacts>>

States == {"none", "pending", "running", "done", "failed"}

Stages == {"next", "dispatch", "row", "config", "credential", "bootstrap",
           "load", "teardown", "droprow", "dropconfig", "dropsecret", "stuck", "over"}

(* completed, failed, comps, bag and stash are InstallProgress's completed,*)
(* error, components, generated_credentials and credentials_for_download   *)
(* ({} for None); order, at and stage are the position of the task; chosen *)
(* holds the components the form placed elsewhere than the defaults, blind *)
(* the ones being removed with the defaults for want of a config.  noted   *)
(* holds those one of whose drops from store or vault failed, warned those *)
(* whose removal's summary has warnings; pages and downloads count what    *)
(* was disclosed.                                                          *)
NoJob ==
  [kind |-> "none", order |-> <<>>, at |-> 1, stage |-> "over",
   chosen |-> {}, blind |-> {},
   comps |-> [s \in Slugs |-> "none"], stepFailed |-> FALSE,
   completed |-> FALSE, failed |-> FALSE, bag |-> {}, stash |-> {},
   noted |-> {}, warned |-> {}, pages |-> 0, downloads |-> 0]

TypeOK ==
  /\ job \in [Jobs ->
       [kind : {"none", "install", "rollback", "uninstall"},
        order : {<<>>} \cup {o \in UNION {[1..n -> Slugs] : n \in 1..Len(Order)} : IsInjective(o)},
        at : 1..(Len(Order) + 1), stage : Stages,
        chosen : SUBSET Slugs, blind : SUBSET Slugs,
        comps : [Slugs -> States], stepFailed : BOOLEAN,
        completed : BOOLEAN, failed : BOOLEAN,
        bag : SUBSET Slugs, stash : SUBSET Slugs,
        noted : SUBSET Slugs, warned : SUBSET Slugs,
        pages : Nat, downloads : Nat]]
  /\ running \subseteq Slugs /\ custom \subseteq running /\ rows \subseteq Slugs /\ configs \subseteq Slugs
  /\ secrets \subseteq Credentialed /\ artifacts \subseteq Bootstrapped

Init ==
  /\ job = [j \in Jobs |-> NoJob]
  /\ running = {} /\ custom = {} /\ rows = {} /\ configs = {} /\ secrets = {} /\ artifacts = {}

Active(j) == job[j].kind # "none" /\ ~job[j].completed
Current(j) == job[j].order[job[j].at]
AtStage(j, stage) == Active(j) /\ job[j].stage = stage

MayStart(j) ==
  /\ job[j].kind = "none"
  /\ Cardinality({i \in Jobs : Active(i)}) < MaxActive

Become(j, r) == job' = [job EXCEPT ![j] = r]

(* find the component in the checklist, if it has one, and set its state.  *)
Marked(comps, s, state) ==
  IF comps[s] = "none" THEN comps ELSE [comps EXCEPT ![s] = state]

-----------------------------------------------------------------------------
(* Requests that start work.                                               *)

Checklist(order) ==
  [s \in Slugs |-> IF s \in ToSet(order) THEN "pending" ELSE "none"]

(* POST /install.                                                          *)
InstallAll(j, chosen) ==
  /\ MayStart(j)
  /\ Become(j, [NoJob EXCEPT !.kind = "install", !.order = Order, !.chosen = chosen,
                             !.stage = "next", !.comps = Checklist(Order)])
  /\ UNCHANGED world

(* POST /install/<slug>: the same job for one component, no checklist.     *)
InstallOne(j, s, chosen) ==
  /\ MayStart(j)
  /\ Become(j, [NoJob EXCEPT !.kind = "install", !.order = <<s>>, !.chosen = chosen,
                             !.stage = "next"])
  /\ UNCHANGED world

(* POST /install/job/{id}/rollback, of any completed job with Done rows:   *)
(* these, the last of them first.                                          *)
Done(p) == {n \in DOMAIN p.order : p.comps[p.order[n]] = "done"}
Teardown(p) ==
  {[k \in DOMAIN f |-> p.order[f[k]]] :
     f \in {g \in [1..Cardinality(Done(p)) -> Done(p)] :
             \A a, b \in DOMAIN g : a < b => g[a] > g[b]}}

Rollback(j, i) ==
  /\ MayStart(j)
  /\ job[i].completed
  /\ Done(job[i]) # {}
  /\ \E order \in Teardown(job[i]) :
       Become(j, [NoJob EXCEPT !.kind = "rollback", !.order = order,
                               !.stage = "next", !.comps = Checklist(order)])
  /\ UNCHANGED world

(* POST /uninstall/<slug>: teardown_managed_uninstall inside the request.  *)
Uninstall(j, s) ==
  /\ MayStart(j)
  /\ Become(j, [NoJob EXCEPT !.kind = "uninstall", !.order = <<s>>, !.stage = "next"])
  /\ UNCHANGED world

-----------------------------------------------------------------------------
(* The loop of a job: start_component on the next one, or finish.          *)

StartComponent(j) ==
  /\ AtStage(j, "next")
  /\ job[j].at <= Len(job[j].order)
  /\ Become(j, [job[j] EXCEPT
       !.comps = Marked(job[j].comps, Current(j), "running"),
       !.stepFailed = FALSE,
       !.stage = IF job[j].kind = "install" THEN "dispatch" ELSE "load"])
  /\ UNCHANGED world

(* The task returns without finish_success.                                *)
FinishJobForgotten(j) ==
  /\ AtStage(j, "next")
  /\ job[j].at > Len(job[j].order)
  /\ Become(j, IF job[j].kind = "uninstall" THEN NoJob
               ELSE [job[j] EXCEPT !.stage = "over"])
  /\ UNCHANGED world

FinishJob(j) ==
  /\ AtStage(j, "next")
  /\ job[j].at > Len(job[j].order)
  /\ Become(j, IF job[j].kind = "uninstall" THEN NoJob
               ELSE [job[j] EXCEPT !.completed = TRUE, !.stage = "over"])
  /\ UNCHANGED world

-----------------------------------------------------------------------------
(* Installing one component: dispatch_install, then finalize, whose writes *)
(* are best-effort.                                                        *)

Place(j) ==
  LET s == Current(j) IN
  /\ running' = running \cup {s}
  /\ custom' = IF s \in job[j].chosen THEN custom \cup {s} ELSE custom \ {s}

(* What the driver has put into the bag, when it got that far.             *)
Announced(j) == job[j].bag \cup ({Current(j)} \cap Announcing)

DispatchSucceeds(j) ==
  /\ AtStage(j, "dispatch")
  /\ Place(j)
  /\ Become(j, [job[j] EXCEPT !.comps = Marked(@, Current(j), "done"), !.bag = Announced(j),
                              !.stage = "row"])
  /\ UNCHANGED <<rows, configs, secrets, artifacts>>

(* A failure that is logged but lets the chain go on.                      *)
DispatchFailsAndGoesOn(j) ==
  /\ AtStage(j, "dispatch")
  /\ Place(j) \/ UNCHANGED <<running, custom>>
  /\ Become(j, [job[j] EXCEPT !.comps = Marked(@, Current(j), "failed"),
                              !.failed = TRUE, !.at = @ + 1, !.stage = "next"])
  /\ UNCHANGED <<rows, configs, secrets, artifacts>>

(* fail_component and finish_failure.  A driver may give up with the       *)
(* service already installed.                                              *)
DispatchFails(j) ==
  /\ AtStage(j, "dispatch")
  /\ Place(j) \/ UNCHANGED <<running, custom>>
  /\ \E bag \in {job[j].bag, Announced(j)} :
       Become(j, [job[j] EXCEPT !.comps = Marked(@, Current(j), "failed"), !.bag = bag,
                                !.completed = TRUE, !.failed = TRUE, !.stage = "over"])
  /\ UNCHANGED <<rows, configs, secrets, artifacts>>

Written(set, s) == {set, set \cup {s}}

SaveRow(j) ==
  /\ AtStage(j, "row")
  /\ rows' \in Written(rows, Current(j))
  /\ Become(j, [job[j] EXCEPT !.stage = "config"])
  /\ UNCHANGED <<running, custom, configs, secrets, artifacts>>

SaveConfig(j) ==
  /\ AtStage(j, "config")
  /\ configs' \in Written(configs, Current(j))
  /\ Become(j, [job[j] EXCEPT !.stage = "credential"])
  /\ UNCHANGED <<running, custom, rows, secrets, artifacts>>

Provision(j) ==
  LET s == Current(j) IN
  /\ AtStage(j, "credential")
  /\ \/ /\ s \in Credentialed
        /\ secrets' \in Written(secrets, s)
        /\ Become(j, [job[j] EXCEPT !.bag = @ \cup {s}, !.stage = "bootstrap"])
     \/ /\ s \notin Credentialed
        /\ UNCHANGED secrets
        /\ Become(j, [job[j] EXCEPT !.stage = "bootstrap"])
  /\ UNCHANGED <<running, custom, rows, configs, artifacts>>

(* The hook's artifacts go to the vault; some are shown with the           *)
(* credentials as well.  A hook that fails is logged, and nothing written. *)
Bootstrap(j) ==
  LET s == Current(j) IN
  /\ AtStage(j, "bootstrap")
  /\ \/ /\ s \in Bootstrapped
        /\ artifacts' \in Written(artifacts, s)
        /\ Become(j, [job[j] EXCEPT !.bag = @ \cup {s}, !.at = @ + 1, !.stage = "next"])
     \/ /\ UNCHANGED artifacts
        /\ Become(j, [job[j] EXCEPT !.at = @ + 1, !.stage = "next"])
  /\ UNCHANGED <<running, custom, rows, configs, secrets>>

-----------------------------------------------------------------------------
(* Removing one component, for rollbacks and uninstalls: every step goes   *)
(* on to the next whether it worked or not.                                *)

(* load_install_config(..).unwrap_or_default(): no row, or no answer, and  *)
(* the drivers' defaults are used.                                         *)
LoadConfig(j) ==
  /\ AtStage(j, "load")
  /\ \E known \in {FALSE, Current(j) \in configs} :
       Become(j, [job[j] EXCEPT !.stage = "teardown",
                                !.blind = IF known THEN @ ELSE @ \cup {Current(j)}])
  /\ UNCHANGED world

TakeAway(s) == running' = running \ {s} /\ custom' = custom \ {s}

(* A removal whose warnings do not get into the summary.                   *)
TearDownQuietly(j) ==
  /\ AtStage(j, "teardown")
  /\ TakeAway(Current(j)) \/ UNCHANGED <<running, custom>>
  /\ Become(j, [job[j] EXCEPT !.stage = "droprow"])
  /\ UNCHANGED <<rows, configs, secrets, artifacts>>

(* dispatch_uninstall_with_config takes away what the config names, and    *)
(* what it cannot stop or remove is a warning in its summary, with success *)
(* all the same: a summary without warnings means that the service is gone, *)
(* unless the driver hides some.  Few removals are ever an error.          *)
TearDown(j) ==
  LET s == Current(j)
      onward == [job[j] EXCEPT !.stage = "droprow"]
  IN
  /\ AtStage(j, "teardown")
  /\ \/ s \notin job[j].blind \cap custom /\ TakeAway(s)
     \/ UNCHANGED <<running, custom>>
  /\ \/ (s \in running' => s \in Silent) /\ Become(j, onward)
     \/ Become(j, [onward EXCEPT !.warned = @ \cup {s}])
     \/ Become(j, [onward EXCEPT !.stepFailed = TRUE, !.failed = TRUE])
  /\ UNCHANGED <<rows, configs, secrets, artifacts>>

(* Drop s from a set of rows or secrets, or fail to.                       *)
Dropped(j, set, new, r) ==
  LET s == Current(j) IN
  \/ new = set \ {s} /\ Become(j, r)
  \/ new = set /\ Become(j, [r EXCEPT !.noted = @ \cup {s}])

DropRow(j) ==
  /\ AtStage(j, "droprow")
  /\ rows' \in {rows, rows \ {Current(j)}}
  /\ Dropped(j, rows, rows', [job[j] EXCEPT !.stage = "dropconfig"])
  /\ UNCHANGED <<running, custom, configs, secrets, artifacts>>

DropConfig(j) ==
  /\ AtStage(j, "dropconfig")
  /\ configs' \in {configs, configs \ {Current(j)}}
  /\ Dropped(j, configs, configs', [job[j] EXCEPT !.stage = "dropsecret"])
  /\ UNCHANGED <<running, custom, rows, secrets, artifacts>>

DropSecret(j) ==
  LET state == IF job[j].stepFailed THEN "failed" ELSE "done" IN
  /\ AtStage(j, "dropsecret")
  /\ secrets' \in {secrets, secrets \ {Current(j)}}
  /\ Dropped(j, secrets, secrets',
       [job[j] EXCEPT !.comps = Marked(job[j].comps, Current(j), state),
                      !.at = @ + 1, !.stage = "next"])
  /\ UNCHANGED <<running, custom, rows, configs, artifacts>>

-----------------------------------------------------------------------------

(* A page that copies the credentials instead of draining them.            *)
ResultPageCopies(j) ==
  LET p == job[j] IN
  /\ p.completed
  /\ Become(j, [p EXCEPT !.stash = IF p.stash = {} THEN p.bag ELSE p.stash,
                         !.pages = IF p.bag = {} THEN @ ELSE @ + 1])
  /\ UNCHANGED world

(* The result page drains the credentials and stashes them for one         *)
(* download; `completed` never reverts, so reading it first is no step of  *)
(* its own.                                                                *)
ResultPage(j) ==
  LET p == job[j] IN
  /\ p.completed
  /\ Become(j, [p EXCEPT !.bag = {},
                         !.stash = IF p.stash = {} THEN p.bag ELSE p.stash,
                         !.pages = IF p.bag = {} THEN @ ELSE @ + 1])
  /\ UNCHANGED world

Download(j) ==
  /\ job[j].stash # {}
  /\ Become(j, [job[j] EXCEPT !.stash = {}, !.downloads = @ + 1])
  /\ UNCHANGED world

(* The drivers, psql and the hooks wait for other programs and servers     *)
(* without a bound: such a call may never return, and neither does a task  *)
(* that panics ever complete its job.  Nothing watches over them.          *)
Stall(j) ==
  /\ Active(j) /\ job[j].stage \in {"dispatch", "credential", "bootstrap", "teardown"}
  /\ \/ job[j].stage = "dispatch" /\ Place(j)
     \/ job[j].stage = "teardown" /\ TakeAway(Current(j))
     \/ UNCHANGED <<running, custom>>
  /\ Become(j, [job[j] EXCEPT !.stage = "stuck"])
  /\ UNCHANGED <<rows, configs, secrets, artifacts>>

(* The jobs map and every task are gone; the uninstall requests too.       *)
Crash ==
  /\ \E j \in Jobs : job[j].kind # "none"
  /\ job' = [j \in Jobs |-> NoJob]
  /\ UNCHANGED world

(* The client of an uninstall hangs up: axum drops the request's future.   *)
HangUp(j) ==
  /\ job[j].kind = "uninstall"
  /\ Become(j, NoJob)
  /\ UNCHANGED world

Work(j) ==
  \/ StartComponent(j) \/ FinishJob(j)
  \/ DispatchSucceeds(j) \/ DispatchFails(j)
  \/ SaveRow(j) \/ SaveConfig(j) \/ Provision(j) \/ Bootstrap(j)
  \/ LoadConfig(j) \/ TearDown(j) \/ DropRow(j) \/ DropConfig(j) \/ DropSecret(j)

Next ==
  \/ \E j \in Jobs :
       \/ \E chosen \in SUBSET Movable : InstallAll(j, chosen)
       \/ \E s \in Slugs : \E chosen \in SUBSET (Movable \cap {s}) : InstallOne(j, s, chosen)
       \/ \E s \in Slugs : Uninstall(j, s)
       \/ \E i \in Jobs : Rollback(j, i)
       \/ Work(j) \/ Stall(j) \/ HangUp(j) \/ ResultPage(j) \/ Download(j)
  \/ Crash

Spec == Init /\ [][Next]_vars

(* The runtime keeps polling a spawned task whose call has returned; that  *)
(* a call returns, and what operators do, is left open.                    *)
Fairness == \A j \in Jobs : WF_vars(Work(j))

FairSpec == Spec /\ Fairness

-----------------------------------------------------------------------------
(* One-shot disclosure: however often and concurrently the result page and *)
(* the download are requested, a job's credentials are shown on one page   *)
(* and in one download at most, and downloaded only once a page showed     *)
(* them.                                                                   *)
DisclosedOnce ==
  \A j \in Jobs : job[j].pages <= 1 /\ job[j].downloads <= job[j].pages

(* The checklist tells the truth about the chain: before the task's        *)
(* position nothing is left pending, behind it nothing was touched, an     *)
(* install goes no further than its first failure, and a job without an    *)
(* error has finished everything.                                          *)
ChecklistIsHonest ==
  \A j \in Jobs :
    LET p == job[j]
        State(n) == p.comps[p.order[n]]
    IN
    p.comps # NoJob.comps =>
      /\ \A n \in DOMAIN p.order :
           /\ n < p.at => State(n) \in {"done", "failed"}
           /\ n > p.at => State(n) = "pending"
           /\ p.kind = "install" /\ n < p.at => State(n) = "done"
      /\ p.completed /\ ~p.failed => \A n \in DOMAIN p.order : State(n) = "done"

(* A finished rollback has left nothing but what failing drops left: the   *)
(* components it calls done, and of which it says "All teardown steps      *)
(* completed cleanly", are off the host, also the ones installed under a   *)
(* name of the operator's whose config could not be loaded any more; and   *)
(* all are out of store and vault.  Databend is set aside: its driver      *)
(* hides warnings.                                                         *)
RollbackCleansUp ==
  [][\A j \in Jobs :
       job[j].kind = "rollback" /\ ~job[j].completed /\ job'[j].completed =>
         \A s \in ToSet(job[j].order) :
           /\ job[j].comps[s] = "done" /\ s \notin job[j].warned \cup Silent =>
                s \notin running'
           /\ s \notin job[j].noted => s \notin rows' \cup configs' \cup secrets'
    ]_vars

(* A job is never lost between its steps: it comes to its end, unless the  *)
(* server dies first, or a call outside the server does not return.        *)
JobsFinish == \A j \in Jobs : Active(j) ~> ~Active(j) \/ job[j].stage = "stuck"
=============================================================================
