---------------------------- MODULE StudioFiles ----------------------------
(***************************************************************************)
(* The Studio workspace: the files table and its revisions in SQLite, and  *)
(* the handlers of the file browser.  No handler opens a transaction: each *)
(* statement commits on its own, and other requests run in between.        *)
(***************************************************************************)
EXTENDS Naturals, Sequences, FiniteSets, SequencesExt

CONSTANTS
  Requests,   \* handlers that can be at work at once
  Folders,    \* top-level folders
  Texts,      \* contents, the empty one among them
  Blank,      \* the empty content
  MaxFiles,   \* bound: files ever created
  MaxServed,  \* bound: handlers ever started
  MaxSuffix,  \* bound: "-2", "-3", ... candidates a handler tries (99 in the code)
  Keep,       \* an update's None: leave this column alone
  NULL

ASSUME StudioAssumption ==
  /\ Blank \in Texts
  /\ Keep \notin Texts
  /\ NULL \notin Texts
  /\ MaxFiles \in Nat /\ MaxServed \in Nat /\ MaxSuffix \in Nat \ {0}

VARIABLES
  files,      \* studio_files by id; ids are minted in order
  revisions,  \* studio_file_revisions: whose content each was
  minted,     \* ids given out
  requests,   \* what each handler is about to do
  served,     \* handlers started so far
  gaps        \* history: files with an edit made from an outdated copy

vars == <<files, revisions, minted, requests, served, gaps>>

Files == 1..MaxFiles

\* A path is its folder and a number: 0 is the placeholder .gitkeep that keeps
\* an empty folder visible, n > 1 the suffix -n of an otherwise taken name.
Paths == [folder : Folders, n : 0..MaxSuffix]
Typed == [folder : Folders, n : {0, 1}]    \* the paths operators type

File == [path : Paths, content : Texts, trashed : {"no", "recent", "expired"}]

ASSUME NullAssumption == NULL \notin File

Exists(f) == f \in Files /\ files[f] # NULL
Living == {f \in Files : Exists(f) /\ files[f].trashed = "no"}
Trashed == {f \in Files : Exists(f) /\ files[f].trashed # "no"}

\* studio_files_get_by_path looks at trashed rows too, as UNIQUE(path) does.
At(p) == {f \in Files : Exists(f) /\ files[f].path = p}

-----------------------------------------------------------------------------
(* A handler is a list of jobs; each is a statement or a few.              *)

Job(stage, f, p, c) == [stage |-> stage, file |-> f, path |-> p, content |-> c]
Update(f, p, c) == Job("read", f, p, c)
Insert(p, c) == Job("insert", 0, p, c)
Probe(p, c) == Job("probe", 0, p, c)
Put(p, c) == Job("lookup", 0, p, c)
Idle == [now |-> Job("idle", 0, NULL, NULL), held |-> NULL, todo |-> <<>>]

Ready(r, stage) == requests[r].now.stage = stage

Begin(r, jobs) ==
  /\ Ready(r, "idle")
  /\ jobs # <<>>
  /\ served < MaxServed
  /\ served' = served + 1
  /\ requests' = [requests EXCEPT ![r] =
       [now |-> Head(jobs), held |-> NULL, todo |-> Tail(jobs)]]
  /\ UNCHANGED <<files, revisions, minted, gaps>>

Continue(r, job) == requests' = [requests EXCEPT ![r].now = job]

\* The job is done, or failed: a handler with several goes on to the next.
Done(r) ==
  requests' = [requests EXCEPT ![r] =
    IF @.todo = <<>> THEN Idle
    ELSE [now |-> Head(@.todo), held |-> NULL, todo |-> Tail(@.todo)]]

\* The rows of a folder in the order of studio_files_list, which is by path.
Orders(F) == {s \in [1..Cardinality(F) -> F] : IsInjective(s)}
Listings(F) == {s \in Orders(F) :
  \A i, j \in DOMAIN s : i < j => files[s[i]].path.n < files[s[j]].path.n}
InFolder(d) == {f \in Living : files[f].path.folder = d}

Init ==
  /\ files = [f \in Files |-> NULL]
  /\ minted = 0
  /\ revisions = {}
  /\ served = 0
  /\ requests = [r \in Requests |-> Idle]
  /\ gaps = {}

-----------------------------------------------------------------------------
(* What a handler sets out to do.                                          *)

NewFile(r) == \E d \in Folders, c \in Texts :
  Begin(r, <<Probe([folder |-> d, n |-> 1], c)>>)

NewFolder(r) == \E d \in Folders :
  Begin(r, <<Job("claim", 0, [folder |-> d, n |-> 0], Blank)>>)

Save(r) == \E f \in 1..minted, c \in Texts : Begin(r, <<Update(f, Keep, c)>>)

Autosave(r) == \E f \in 1..minted, c \in Texts :
  Begin(r, <<Job("autosave", f, Keep, c)>>)

Rename(r) == \E f \in 1..minted, p \in Typed :
  Begin(r, <<Job("claim", f, p, Keep)>>)

Duplicate(r) == \E f \in 1..minted :
  Begin(r, <<Job("duplicate", f, NULL, NULL)>>)

\* Restoring checks that the revision named in the URL is one of the file's.
OwnRevisions(f) == {v \in revisions : v.file = f}

RestoreRevision(r) == \E f \in 1..minted : \E v \in OwnRevisions(f) :
  Begin(r, <<Update(f, Keep, v.content)>>)

ImportFile(r) == \E p \in Typed, c \in Texts : Begin(r, <<Put(p, c)>>)

ImportArchive(r) == \E d \in Folders, c \in Texts \ {Blank} :
  Begin(r, <<Put([folder |-> d, n |-> 0], Blank), Put([folder |-> d, n |-> 1], c)>>)

RenameFolder(r) == \E old, new \in Folders :
  /\ old # new
  /\ \E list \in Listings(InFolder(old)) :
       Begin(r, [i \in 1..Len(list) |->
         Update(list[i], [files[list[i]].path EXCEPT !.folder = new], Keep)])

DeleteFolder(r) == \E d \in Folders : \E list \in Listings(InFolder(d)) :
  Begin(r, [i \in 1..Len(list) |-> Job("trash", list[i], NULL, NULL)])

DeleteFile(r) == \E f \in 1..minted : Begin(r, <<Job("trash", f, NULL, NULL)>>)

RestoreFile(r) == \E f \in 1..minted : Begin(r, <<Job("untrash", f, NULL, NULL)>>)

\* Purging one file runs the retention sweep first.
PurgeFile(r) == \E f \in 1..minted :
  Begin(r, <<Job("sweep", 0, NULL, NULL), Job("purge", f, NULL, NULL)>>)

\* The trash is listed by when each file came there, then everything trashed by
\* now goes, then the listed.
EmptyTrash(r) == \E list \in Orders(Trashed) :
  Begin(r, <<Job("sweep-all", 0, NULL, NULL)>> \o
           [i \in 1..Len(list) |-> Job("purge", list[i], NULL, NULL)])

-----------------------------------------------------------------------------
(* The steps.                                                              *)

\* A lookup by path that fails counts as "nothing there" everywhere.
Free(p) == At(p) = {}

\* Try the next suffix while the name is taken.
ProbePath(r) ==
  LET job == requests[r].now IN
  /\ Ready(r, "probe")
  /\ \/ Free(job.path) /\ Continue(r, Insert(job.path, job.content))
     \/ ~Free(job.path) /\ job.path.n < MaxSuffix
        /\ Continue(r, Probe([job.path EXCEPT !.n = @ + 1], job.content))
     \/ ~Free(job.path) /\ Continue(r, Insert(job.path, job.content))
  /\ UNCHANGED <<files, revisions, minted, gaps, served>>

\* Rename and the new folder refuse a name that another file has.
ClaimPath(r) ==
  LET job == requests[r].now IN
  /\ Ready(r, "claim")
  /\ IF At(job.path) \ {job.file} # {} THEN Done(r)
     ELSE Continue(r, IF job.file = 0 THEN Insert(job.path, job.content)
                      ELSE Update(job.file, job.path, Keep))
  /\ UNCHANGED <<files, revisions, minted, gaps, served>>

\* An import overwrites the file at its path, wherever that is.
LookUp(r) ==
  LET job == requests[r].now IN
  /\ Ready(r, "lookup")
  /\ \/ \E f \in At(job.path) : Continue(r, Update(f, Keep, job.content))
     \/ Free(job.path) /\ Continue(r, Insert(job.path, job.content))
  /\ UNCHANGED <<files, revisions, minted, gaps, served>>

\* Duplicate reads the original and looks for a free name after its own;
\* autosave looks for the file before its update does.
ReadFirst(r) ==
  LET job == requests[r].now IN
  /\ job.stage \in {"duplicate", "autosave"}
  /\ IF ~Exists(job.file) THEN Done(r)
     ELSE Continue(r,
       IF job.stage = "duplicate"
       THEN Probe([files[job.file].path EXCEPT !.n = IF @ < MaxSuffix THEN @ + 1 ELSE @],
                  files[job.file].content)
       ELSE Update(job.file, Keep, job.content))
  /\ UNCHANGED <<files, revisions, minted, gaps, served>>

InsertFile(r) ==
  LET job == requests[r].now IN
  /\ Ready(r, "insert")
  /\ IF ~Free(job.path) THEN UNCHANGED <<files, minted>>
     ELSE /\ minted < MaxFiles
          /\ minted' = minted + 1
          /\ files' = [files EXCEPT ![minted'] =
               [path |-> job.path, content |-> job.content, trashed |-> "no"]]
  /\ Done(r)
  /\ UNCHANGED <<revisions, gaps, served>>

\* studio_files_update: read the row ...
Changes(row, c) == c # Keep /\ c # row.content /\ row.content # Blank

ReadRow(r) ==
  LET job == requests[r].now row == files[job.file] IN
  /\ Ready(r, "read")
  /\ IF ~Exists(job.file) THEN Done(r)
     ELSE requests' = [requests EXCEPT
       ![r].held = row,
       ![r].now.stage = IF Changes(row, job.content) THEN "snapshot" ELSE "write"]
  /\ UNCHANGED <<files, revisions, minted, gaps, served>>

\* ... insert its content as a revision (refused when the file is gone) ...
Snapshot(r) ==
  LET job == requests[r].now IN
  /\ Ready(r, "snapshot")
  /\ IF ~Exists(job.file) THEN Done(r) /\ UNCHANGED revisions
     ELSE /\ revisions' = revisions \cup
               {[file |-> job.file, content |-> requests[r].held.content]}
          /\ Continue(r, [job EXCEPT !.stage = "write"])
  /\ UNCHANGED <<files, minted, gaps, served>>

\* ... and write path and content, of which the update does not change the
\* one it read.  A row that is gone by then is no error.
Chosen(new, old) == IF new = Keep THEN old ELSE new

WriteRow(r) ==
  LET job == requests[r].now
      path == Chosen(job.path, requests[r].held.path)
      content == Chosen(job.content, requests[r].held.content)
  IN /\ Ready(r, "write")
     /\ IF Exists(job.file) /\ At(path) \subseteq {job.file}
        THEN /\ files' = [files EXCEPT ![job.file].path = path,
                                       ![job.file].content = content]
             /\ gaps' = IF files[job.file].content \in {requests[r].held.content, content}
                        THEN gaps ELSE gaps \cup {job.file}
        ELSE UNCHANGED <<files, gaps>>
     /\ Done(r)
     /\ UNCHANGED <<revisions, minted, served>>

TrashRow(r) ==
  LET f == requests[r].now.file IN
  /\ Ready(r, "trash")
  /\ files' = IF Exists(f) THEN [files EXCEPT ![f].trashed = "recent"] ELSE files
  /\ Done(r)
  /\ UNCHANGED <<revisions, minted, gaps, served>>

UntrashRow(r) ==
  LET f == requests[r].now.file IN
  /\ Ready(r, "untrash")
  /\ files' = IF f \in Trashed THEN [files EXCEPT ![f].trashed = "no"] ELSE files
  /\ Done(r)
  /\ UNCHANGED <<revisions, minted, gaps, served>>

\* DELETE cascades to the file's revisions.
Delete(F) ==
  /\ files' = [f \in Files |-> IF f \in F THEN NULL ELSE files[f]]
  /\ revisions' = {v \in revisions : v.file \notin F}
  /\ UNCHANGED <<minted, gaps, served>>

Expired == {f \in Trashed : files[f].trashed = "expired"}

Sweep(r) ==
  /\ \/ Ready(r, "sweep") /\ Delete(Expired)
     \/ Ready(r, "sweep-all") /\ Delete(Trashed)
  /\ Done(r)

\* (A mistake: a purge that trusts the listing.)
PurgeRowUnchecked(r) ==
  /\ Ready(r, "purge")
  /\ Delete({f \in {requests[r].now.file} : Exists(f)})
  /\ Done(r)

PurgeRow(r) ==
  /\ Ready(r, "purge")
  /\ Delete({requests[r].now.file} \cap Trashed)
  /\ Done(r)

\* A statement fails: a handler with more jobs goes on, any other ends.
Fail(r) ==
  /\ ~Ready(r, "idle")
  /\ Done(r)
  /\ UNCHANGED <<files, revisions, minted, gaps, served>>

\* The server stops and starts, and its sweeper runs once; its failure is logged.
Restart ==
  /\ requests' = [r \in Requests |-> Idle]
  /\ \E F \in {Expired, {}} : Delete(F)

\* 30 days pass.
Expire(f) ==
  /\ f \in Trashed /\ files[f].trashed = "recent"
  /\ files' = [files EXCEPT ![f].trashed = "expired"]
  /\ UNCHANGED <<revisions, minted, requests, served, gaps>>

Next ==
  \/ \E r \in Requests :
       \/ NewFile(r) \/ NewFolder(r) \/ Save(r) \/ Autosave(r) \/ Rename(r)
       \/ Duplicate(r) \/ RestoreRevision(r) \/ ImportFile(r) \/ ImportArchive(r)
       \/ RenameFolder(r) \/ DeleteFolder(r) \/ DeleteFile(r)
       \/ RestoreFile(r) \/ PurgeFile(r) \/ EmptyTrash(r)
       \/ ProbePath(r) \/ ClaimPath(r) \/ LookUp(r) \/ ReadFirst(r) \/ InsertFile(r)
       \/ ReadRow(r) \/ Snapshot(r) \/ WriteRow(r)
       \/ TrashRow(r) \/ UntrashRow(r) \/ Sweep(r) \/ PurgeRow(r) \/ Fail(r)
  \/ Restart
  \/ \E f \in Files : Expire(f)

Spec == Init /\ [][Next]_vars

-----------------------------------------------------------------------------

\* Types: rows, revisions of rows that exist (the foreign key), and handlers
\* that hold a copy of a row exactly while they are in an update's later steps.
TypeOK ==
  /\ files \in [Files -> File \cup {NULL}]
  /\ revisions \subseteq [file : Files, content : Texts]
  /\ minted \in 0..MaxFiles /\ served \in 0..MaxServed
  /\ gaps \subseteq Files
  /\ \A v \in revisions : Exists(v.file) /\ v.content # Blank
  /\ \A r \in Requests :
       (requests[r].held # NULL) <=> (requests[r].now.stage \in {"snapshot", "write"})

\* Whatever handlers overlap and wherever they stop, an edit keeps the content
\* it replaces as a revision unless it was made from an outdated copy, and
\* nothing but a file in the trash ever ceases to exist: the table and its
\* revisions implement FileHistory.
History == INSTANCE FileHistory WITH
  current <- [f \in Files |-> IF Exists(f) THEN files[f].content ELSE NULL],
  kept <- [f \in Files |-> {v.content : v \in OwnRevisions(f)}],
  trash <- Trashed,
  None <- NULL

ImplementsHistory == History!Spec

\* What the schema's comment says of the revisions: every update that changes
\* a content keeps the prior content.  Two updates that overlap do not.
EveryContentIsKept == gaps = {}
=============================================================================
