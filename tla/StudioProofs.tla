---------------------------- MODULE StudioProofs ----------------------------
(***************************************************************************)
(* Proofs about the Studio, for all constants.  StudioFiles: its types,    *)
(* and that the table and its revisions implement FileHistory.             *)
(* StudioQueries: its types, the order in which a buffer's statements      *)
(* reach the coordinator, and that what is shown as a result is the whole  *)
(* of it.  StudioHistory: that a bucket holds the newest entries saved.    *)
(* SqlBuffer: that the scanner splits every buffer where its lexemes say.  *)
(***************************************************************************)
EXTENDS StudioFiles, StudioQueries, StudioHistory, SqlBuffer,
        SequenceTheorems, FiniteSetTheorems, TLAPS

-----------------------------------------------------------------------------
(* StudioFiles.                                                            *)

FirstStages ==
  {"insert", "probe", "lookup", "read", "claim", "autosave", "duplicate",
   "trash", "untrash", "sweep", "sweep-all", "purge"}
Jobs == [stage : FirstStages \cup {"idle", "snapshot", "write"}, file : 0..MaxFiles,
         path : Paths \cup {Keep, NULL}, content : Texts \cup {Keep, NULL}]

\* What a job brings with it, by its stage.
Fits(j) ==
  /\ j.stage \in {"insert", "probe", "lookup"} => j.path \in Paths /\ j.content \in Texts
  /\ j.stage = "claim" => j.path \in Paths /\ (j.file = 0 => j.content \in Texts)
  /\ j.stage = "autosave" => j.content \in Texts
  /\ j.stage \in {"read", "snapshot", "write"} =>
       j.path \in Paths \cup {Keep} /\ j.content \in Texts \cup {Keep}

FitJobs == {j \in Jobs : Fits(j)}
Fresh == {j \in FitJobs : j.stage \in FirstStages}
Handler == [now : FitJobs, held : File \cup {NULL}, todo : Seq(Fresh)]

Kept(f) == {v.content : v \in OwnRevisions(f)}

\* A file that exists has been minted, so what is minted next is new.
ExistingAreMinted == \A f \in Files : Exists(f) => f <= minted

\* What an update that is at work has read and found.
HoldsARow(r) ==
  LET job == requests[r].now  held == requests[r].held IN
  /\ held # NULL <=> job.stage \in {"snapshot", "write"}
  /\ job.stage \in {"snapshot", "write"} => job.file \in 1..minted
  /\ job.stage = "snapshot" => held.content # Blank

\* The content to be kept is still the file's, or has been kept by the update
\* that replaced it, or that update went by an outdated copy.
SnapshotIsDue(r) ==
  LET f == requests[r].now.file  c == requests[r].held.content IN
  requests[r].now.stage = "snapshot" /\ Exists(f) =>
    c = files[f].content \/ c \in Kept(f) \/ f \in gaps

\* The content read is kept before another one is written over it.
WriteIsCovered(r) ==
  LET job == requests[r].now  held == requests[r].held IN
  job.stage = "write" /\ Exists(job.file) =>
    job.content \in {Keep, held.content} \/ held.content \in Kept(job.file) \cup {Blank}

TableOK ==
  /\ files \in [Files -> File \cup {NULL}]
  /\ revisions \subseteq [file : Files, content : Texts]
  /\ minted \in 0..MaxFiles /\ served \in 0..MaxServed
  /\ gaps \subseteq Files
  /\ \A v \in revisions : Exists(v.file) /\ v.content # Blank

Busy(r) == HoldsARow(r) /\ SnapshotIsDue(r) /\ WriteIsCovered(r)

FilesInv ==
  /\ TableOK /\ ExistingAreMinted
  /\ requests \in [Requests -> Handler]
  /\ \A r \in Requests : Busy(r)

-----------------------------------------------------------------------------
(* Handlers.                                                               *)

LEMMA JobFields ==
  ASSUME NEW s, NEW f, NEW p, NEW c, NEW j, j = Job(s, f, p, c)
  PROVE  j.stage = s /\ j.file = f /\ j.path = p /\ j.content = c
BY DEF Job

LEMMA FitJobIs ==
  ASSUME NEW s \in FirstStages \cup {"idle", "snapshot", "write"}, NEW f \in 0..MaxFiles,
         NEW p \in Paths \cup {Keep, NULL}, NEW c \in Texts \cup {Keep, NULL},
         s \in {"insert", "probe", "lookup"} => p \in Paths /\ c \in Texts,
         s = "claim" => p \in Paths /\ (f = 0 => c \in Texts),
         s = "autosave" => c \in Texts,
         s \in {"read", "snapshot", "write"} => p \in Paths \cup {Keep} /\ c \in Texts \cup {Keep}
  PROVE  /\ Job(s, f, p, c) \in FitJobs
         /\ s \in FirstStages => Job(s, f, p, c) \in Fresh
<1>. DEFINE j == Job(s, f, p, c)
<1>1. j.stage = s /\ j.file = f /\ j.path = p /\ j.content = c
  BY JobFields
<1>2. j \in Jobs
  BY DEF Job, Jobs
<1>. HIDE DEF j
<1>3. Fits(j)
  BY <1>1 DEF Fits
<1> QED BY <1>1, <1>2, <1>3 DEF FitJobs, Fresh, j

LEMMA IdleIs ==
  /\ Idle \in Handler /\ Idle.held = NULL /\ Idle.now.stage = "idle"
<1>1. Job("idle", 0, NULL, NULL) \in FitJobs
  BY StudioAssumption, FitJobIs DEF FirstStages
<1>2. Job("idle", 0, NULL, NULL).stage = "idle"
  BY JobFields
<1>3. <<>> \in Seq(Fresh)
  OBVIOUS
<1>. DEFINE j == Job("idle", 0, NULL, NULL)
<1>4. Idle = [now |-> j, held |-> NULL, todo |-> <<>>]
  BY DEF Idle
<1>. HIDE DEF j
<1> QED BY <1>1, <1>2, <1>3, <1>4 DEF Handler, j

\* A handler that is not in the later steps of an update has nothing to keep.
LEMMA NotBusy ==
  ASSUME NEW r \in Requests, requests[r].held = NULL,
         requests[r].now.stage \notin {"snapshot", "write"}
  PROVE  Busy(r)
BY DEF Busy, HoldsARow, SnapshotIsDue, WriteIsCovered

LEMMA DoneIs ==
  ASSUME requests \in [Requests -> Handler], NEW r \in Requests, Done(r)
  PROVE  /\ requests' \in [Requests -> Handler]
         /\ requests'[r].held = NULL
         /\ requests'[r].now.stage \notin {"snapshot", "write"}
         /\ \A q \in Requests \ {r} : requests'[q] = requests[q]
<1>. DEFINE todo == requests[r].todo
            next == IF todo = <<>> THEN Idle
                    ELSE [now |-> Head(todo), held |-> NULL, todo |-> Tail(todo)]
<1>1. requests' = [requests EXCEPT ![r] = next]
  BY DEF Done
<1>2. todo \in Seq(Fresh)
  BY DEF Handler
<1>3. next \in Handler /\ next.held = NULL /\ next.now.stage \notin {"snapshot", "write"}
  <2>1. CASE todo = <<>>
    BY <2>1, IdleIs
  <2>2. CASE todo # <<>>
    <3>. HIDE DEF todo
    <3>1. Head(todo) \in Fresh /\ Tail(todo) \in Seq(Fresh)
      BY <1>2, <2>2
    <3>2. Head(todo) \in FitJobs /\ Head(todo).stage \in FirstStages
      BY <3>1 DEF Fresh
    <3> QED BY <2>2, <3>1, <3>2 DEF Handler, FirstStages
  <2> QED BY <2>1, <2>2
<1>. HIDE DEF next
<1> QED BY <1>1, <1>3

LEMMA ContinueIs ==
  ASSUME requests \in [Requests -> Handler], NEW r \in Requests,
         NEW job \in FitJobs, Continue(r, job)
  PROVE  /\ requests' \in [Requests -> Handler]
         /\ requests'[r].now = job /\ requests'[r].held = requests[r].held
         /\ \A q \in Requests \ {r} : requests'[q] = requests[q]
BY DEF Continue, Handler

-----------------------------------------------------------------------------
(* Steps that leave the table alone.                                       *)

Table == <<files, revisions, minted, gaps>>

LEMMA SameTable ==
  ASSUME UNCHANGED Table
  PROVE  /\ \A f : Exists(f)' <=> Exists(f)
         /\ \A f : Kept(f)' = Kept(f)
         /\ Trashed' = Trashed
         /\ \A r : requests'[r] = requests[r] => (Busy(r)' <=> Busy(r))
         /\ ExistingAreMinted' <=> ExistingAreMinted
<1>1. \A f : Exists(f)' <=> Exists(f)
  BY DEF Table, Exists
<1>2. \A f : Kept(f)' = Kept(f)
  BY DEF Table, Kept, OwnRevisions
<1>3. Trashed' = Trashed
  BY DEF Table, Trashed, Exists
<1>4. \A r : requests'[r] = requests[r] => (Busy(r)' <=> Busy(r))
  BY <1>1, <1>2 DEF Table, Busy, HoldsARow, SnapshotIsDue, WriteIsCovered
<1>5. ExistingAreMinted' <=> ExistingAreMinted
  BY <1>1 DEF Table, ExistingAreMinted
<1> QED BY <1>1, <1>2, <1>3, <1>4, <1>5

LEMMA QuietKeeps ==
  ASSUME FilesInv, UNCHANGED Table, served' \in 0..MaxServed, NEW r \in Requests,
         requests' \in [Requests -> Handler],
         \A q \in Requests \ {r} : requests'[q] = requests[q],
         requests'[r].held = NULL, requests'[r].now.stage \notin {"snapshot", "write"}
  PROVE  FilesInv'
<1>1. TableOK'
  BY SameTable DEF Table, TableOK, FilesInv
<1>2. ExistingAreMinted'
  BY SameTable DEF FilesInv
<1>3. Busy(r)'
  BY DEF Busy, HoldsARow, SnapshotIsDue, WriteIsCovered
<1>4. \A q \in Requests \ {r} : Busy(q)'
  BY SameTable DEF FilesInv
<1> QED BY <1>1, <1>2, <1>3, <1>4 DEF FilesInv

LEMMA BeginKeeps ==
  ASSUME FilesInv, NEW r \in Requests, NEW jobs \in Seq(Fresh), Begin(r, jobs)
  PROVE  FilesInv' /\ UNCHANGED Table
<1>. DEFINE next == [now |-> Head(jobs), held |-> NULL, todo |-> Tail(jobs)]
<1>1. requests' = [requests EXCEPT ![r] = next] /\ UNCHANGED Table
  BY DEF Begin, Table
<1>2. served' \in 0..MaxServed
  BY StudioAssumption DEF Begin, FilesInv, TableOK
<1>3. jobs # <<>>
  BY DEF Begin
<1>4. Head(jobs) \in Fresh /\ Tail(jobs) \in Seq(Fresh)
  BY <1>3
<1>5. next \in Handler /\ next.held = NULL /\ next.now.stage \notin {"snapshot", "write"}
  BY <1>4 DEF Handler, Fresh, FirstStages
<1>. HIDE DEF next
<1>6. /\ requests' \in [Requests -> Handler] /\ requests'[r] = next
      /\ \A q \in Requests \ {r} : requests'[q] = requests[q]
  BY <1>1, <1>5 DEF FilesInv
<1> QED BY <1>1, <1>2, <1>5, <1>6, QuietKeeps

LEMMA DoneQuietly ==
  ASSUME FilesInv, NEW r \in Requests, UNCHANGED Table, UNCHANGED served, Done(r)
  PROVE  FilesInv'
BY DoneIs, QuietKeeps DEF FilesInv, TableOK

LEMMA ContinueQuietly ==
  ASSUME FilesInv, NEW r \in Requests, UNCHANGED Table, UNCHANGED served,
         requests[r].now.stage \notin {"snapshot", "write"}, NEW job \in Fresh, Continue(r, job)
  PROVE  FilesInv'
<1>1. requests[r].held = NULL
  BY DEF FilesInv, Busy, HoldsARow
<1>2. job \in FitJobs /\ job.stage \notin {"snapshot", "write"}
  BY DEF Fresh, FirstStages
<1>3. served' \in 0..MaxServed
  BY DEF FilesInv, TableOK
<1>4. requests \in [Requests -> Handler]
  BY DEF FilesInv
<1>5. /\ requests' \in [Requests -> Handler]
      /\ requests'[r].now = job /\ requests'[r].held = requests[r].held
      /\ \A q \in Requests \ {r} : requests'[q] = requests[q]
  BY <1>2, <1>4, ContinueIs
<1> QED BY <1>1, <1>2, <1>3, <1>5, QuietKeeps

LEMMA FreshJobs ==
  ASSUME NEW f \in 0..MaxFiles
  PROVE  /\ \A p \in Paths, c \in Texts :
              /\ Insert(p, c) \in Fresh /\ Probe(p, c) \in Fresh /\ Put(p, c) \in Fresh
              /\ Job("claim", 0, p, c) \in Fresh
         /\ \A p \in Paths : Job("claim", f, p, Keep) \in Fresh \/ f = 0
         /\ \A p \in Paths \cup {Keep}, c \in Texts \cup {Keep} : Update(f, p, c) \in Fresh
         /\ \A c \in Texts : Job("autosave", f, Keep, c) \in Fresh
         /\ \A s \in {"duplicate", "trash", "untrash", "sweep", "sweep-all", "purge"} :
              Job(s, f, NULL, NULL) \in Fresh
<1>0. 0 \in 0..MaxFiles
  BY StudioAssumption
<1>1. ASSUME NEW p \in Paths, NEW c \in Texts
      PROVE  /\ Insert(p, c) \in Fresh /\ Probe(p, c) \in Fresh /\ Put(p, c) \in Fresh
             /\ Job("claim", 0, p, c) \in Fresh
  BY <1>0, FitJobIs DEF Insert, Probe, Put, FirstStages
<1>2. ASSUME NEW p \in Paths, f # 0 PROVE Job("claim", f, p, Keep) \in Fresh
  BY <1>2, FitJobIs DEF FirstStages
<1>3. ASSUME NEW p \in Paths \cup {Keep}, NEW c \in Texts \cup {Keep}
      PROVE  Update(f, p, c) \in Fresh
  BY FitJobIs DEF Update, FirstStages
<1>4. ASSUME NEW c \in Texts PROVE Job("autosave", f, Keep, c) \in Fresh
  BY FitJobIs DEF FirstStages
<1>5. ASSUME NEW s \in {"duplicate", "trash", "untrash", "sweep", "sweep-all", "purge"}
      PROVE  Job(s, f, NULL, NULL) \in Fresh
  BY FitJobIs DEF FirstStages
<1> QED BY <1>1, <1>2, <1>3, <1>4, <1>5

LEMMA OneJob == ASSUME NEW j \in Fresh PROVE <<j>> \in Seq(Fresh)
OBVIOUS

LEMMA OneJobEach ==
  ASSUME NEW n \in Nat, NEW f \in [1..n -> Fresh] PROVE f \in Seq(Fresh)
OBVIOUS

\* A listing of files is a sequence of them.
LEMMA OrdersAre ==
  ASSUME NEW F \in SUBSET Files, NEW list \in Orders(F)
  PROVE  /\ Len(list) \in Nat
         /\ \A i \in 1..Len(list) : list[i] \in F
<1>1. Cardinality(F) \in Nat
  <2>1. IsFiniteSet(Files)
    BY FS_Interval, StudioAssumption DEF Files
  <2>2. IsFiniteSet(F)
    BY <2>1, FS_Subset
  <2> QED BY <2>2, FS_CardinalityType
<1>2. list \in [1..Cardinality(F) -> F]
  BY DEF Orders
<1>3. Len(list) = Cardinality(F)
  BY <1>1, <1>2
<1> QED BY <1>1, <1>2, <1>3

LEMMA LivingAre ==
  /\ \A d : InFolder(d) \in SUBSET Files
  /\ Trashed \in SUBSET Files
BY DEF InFolder, Living, Trashed

LEMMA Minted == ASSUME FilesInv, NEW f \in 1..minted PROVE f \in 0..MaxFiles /\ f \in Files
BY StudioAssumption DEF FilesInv, TableOK, Files

LEMMA TypedPaths ==
  /\ \A d \in Folders : [folder |-> d, n |-> 0] \in Paths /\ [folder |-> d, n |-> 1] \in Paths
  /\ Typed \subseteq Paths
BY StudioAssumption DEF Paths, Typed

LEMMA StartsKeep ==
  ASSUME FilesInv, NEW r \in Requests,
         \/ NewFile(r) \/ NewFolder(r) \/ Save(r) \/ Autosave(r) \/ Rename(r)
         \/ Duplicate(r) \/ RestoreRevision(r) \/ ImportFile(r) \/ ImportArchive(r)
         \/ RenameFolder(r) \/ DeleteFolder(r) \/ DeleteFile(r)
         \/ RestoreFile(r) \/ PurgeFile(r) \/ EmptyTrash(r)
  PROVE  FilesInv' /\ UNCHANGED Table
<1>. SUFFICES \E jobs \in Seq(Fresh) : Begin(r, jobs)
  BY BeginKeeps
<1>0. 0 \in 0..MaxFiles /\ Blank \in Texts
  BY StudioAssumption
<1>1. CASE NewFile(r) \/ NewFolder(r)
  BY <1>0, <1>1, FreshJobs, TypedPaths, OneJob DEF NewFile, NewFolder
<1>2. CASE Save(r) \/ Autosave(r)
  BY <1>2, FreshJobs, Minted, OneJob DEF Save, Autosave
<1>3. CASE Rename(r)
  <2>1. PICK f \in 1..minted, p \in Typed : Begin(r, <<Job("claim", f, p, Keep)>>)
    BY <1>3 DEF Rename
  <2>2. f # 0 /\ f \in 0..MaxFiles /\ p \in Paths
    BY Minted, TypedPaths
  <2> QED BY <2>1, <2>2, FreshJobs, OneJob
<1>4. CASE Duplicate(r) \/ DeleteFile(r) \/ RestoreFile(r)
  BY <1>4, FreshJobs, Minted, OneJob DEF Duplicate, DeleteFile, RestoreFile
<1>5. CASE RestoreRevision(r)
  <2>1. PICK f \in 1..minted, v \in revisions : Begin(r, <<Update(f, Keep, v.content)>>)
    BY <1>5 DEF RestoreRevision, OwnRevisions
  <2>2. v.content \in Texts /\ f \in 0..MaxFiles
    BY Minted DEF FilesInv, TableOK
  <2> QED BY <2>1, <2>2, FreshJobs, OneJob
<1>6. CASE ImportFile(r)
  BY <1>0, <1>6, FreshJobs, TypedPaths, OneJob DEF ImportFile
<1>7. CASE ImportArchive(r)
  <2>1. PICK d \in Folders, c \in Texts :
          Begin(r, <<Put([folder |-> d, n |-> 0], Blank), Put([folder |-> d, n |-> 1], c)>>)
    BY <1>7 DEF ImportArchive
  <2>2. /\ Put([folder |-> d, n |-> 0], Blank) \in Fresh
        /\ Put([folder |-> d, n |-> 1], c) \in Fresh
    BY <1>0, FreshJobs, TypedPaths
  <2>3. \A i, j \in Fresh : <<i, j>> \in Seq(Fresh)
    OBVIOUS
  <2> QED BY <2>1, <2>2, <2>3
<1>8. CASE RenameFolder(r)
  <2>0. PICK old \in Folders, new \in Folders : \E list \in Orders(InFolder(old)) :
          Begin(r, [i \in 1..Len(list) |->
            Update(list[i], [files[list[i]].path EXCEPT !.folder = new], Keep)])
    BY <1>8 DEF RenameFolder, Listings
  <2>1. PICK list \in Orders(InFolder(old)) :
          Begin(r, [i \in 1..Len(list) |->
            Update(list[i], [files[list[i]].path EXCEPT !.folder = new], Keep)])
    BY <2>0
  <2>2. Len(list) \in Nat /\ \A i \in 1..Len(list) : list[i] \in InFolder(old)
    BY LivingAre, OrdersAre
  <2>. DEFINE jobs == [i \in 1..Len(list) |->
                Update(list[i], [files[list[i]].path EXCEPT !.folder = new], Keep)]
  <2>3. ASSUME NEW i \in 1..Len(list) PROVE jobs[i] \in Fresh
    <3>1. files[list[i]] \in File /\ list[i] \in 0..MaxFiles
      BY <2>2 DEF InFolder, Living, Exists, FilesInv, TableOK, Files
    <3>2. files[list[i]].path \in Paths
      BY <3>1 DEF File
    <3>3. [files[list[i]].path EXCEPT !.folder = new] \in Paths
      BY <3>2 DEF Paths
    <3> QED BY <3>1, <3>3, FreshJobs
  <2>4. jobs \in [1..Len(list) -> Fresh]
    BY <2>3
  <2>. HIDE DEF jobs
  <2>5. jobs \in Seq(Fresh)
    BY <2>2, <2>4, OneJobEach
  <2> QED BY <2>1, <2>5 DEF jobs
<1>9. CASE DeleteFolder(r)
  <2>0. PICK d \in Folders : \E list \in Orders(InFolder(d)) :
          Begin(r, [i \in 1..Len(list) |-> Job("trash", list[i], NULL, NULL)])
    BY <1>9 DEF DeleteFolder, Listings
  <2>1. PICK list \in Orders(InFolder(d)) :
          Begin(r, [i \in 1..Len(list) |-> Job("trash", list[i], NULL, NULL)])
    BY <2>0
  <2>2. Len(list) \in Nat /\ \A i \in 1..Len(list) : list[i] \in InFolder(d)
    BY LivingAre, OrdersAre
  <2>3. \A i \in 1..Len(list) : list[i] \in 0..MaxFiles
    <3>1. InFolder(d) \subseteq Files /\ Files \subseteq 0..MaxFiles
      BY LivingAre, StudioAssumption DEF Files
    <3> QED BY <2>2, <3>1
  <2>. DEFINE jobs == [i \in 1..Len(list) |-> Job("trash", list[i], NULL, NULL)]
  <2>4. jobs \in [1..Len(list) -> Fresh]
    BY <2>3, FreshJobs
  <2>. HIDE DEF jobs
  <2>5. jobs \in Seq(Fresh)
    BY <2>2, <2>4, OneJobEach
  <2> QED BY <2>1, <2>5 DEF jobs
<1>10. CASE PurgeFile(r)
  <2>1. PICK f \in 1..minted :
          Begin(r, <<Job("sweep", 0, NULL, NULL), Job("purge", f, NULL, NULL)>>)
    BY <1>10 DEF PurgeFile
  <2>2. Job("sweep", 0, NULL, NULL) \in Fresh /\ Job("purge", f, NULL, NULL) \in Fresh
    BY <1>0, FreshJobs, Minted
  <2>3. \A i, j \in Fresh : <<i, j>> \in Seq(Fresh)
    OBVIOUS
  <2> QED BY <2>1, <2>2, <2>3
<1>11. CASE EmptyTrash(r)
  <2>1. PICK list \in Orders(Trashed) :
          Begin(r, <<Job("sweep-all", 0, NULL, NULL)>> \o
                   [i \in 1..Len(list) |-> Job("purge", list[i], NULL, NULL)])
    BY <1>11 DEF EmptyTrash
  <2>2. Len(list) \in Nat /\ \A i \in 1..Len(list) : list[i] \in Trashed
    BY LivingAre, OrdersAre
  <2>3. \A i \in 1..Len(list) : list[i] \in 0..MaxFiles
    <3>1. Trashed \subseteq Files /\ Files \subseteq 0..MaxFiles
      BY LivingAre, StudioAssumption DEF Files
    <3> QED BY <2>2, <3>1
  <2>. DEFINE jobs == [i \in 1..Len(list) |-> Job("purge", list[i], NULL, NULL)]
              sweep == Job("sweep-all", 0, NULL, NULL)
  <2>4. jobs \in [1..Len(list) -> Fresh] /\ sweep \in Fresh
    BY <1>0, <2>3, FreshJobs
  <2>. HIDE DEF jobs, sweep
  <2>5. jobs \in Seq(Fresh) /\ <<sweep>> \in Seq(Fresh)
    BY <2>2, <2>4, OneJobEach
  <2>6. <<sweep>> \o jobs \in Seq(Fresh)
    BY <2>5, ConcatProperties
  <2> QED BY <2>1, <2>6 DEF jobs, sweep
<1> QED BY <1>1, <1>2, <1>3, <1>4, <1>5, <1>6, <1>7, <1>8, <1>9, <1>10, <1>11

LEMMA LooksKeep ==
  ASSUME FilesInv, NEW r \in Requests,
         ProbePath(r) \/ ClaimPath(r) \/ LookUp(r) \/ ReadFirst(r) \/ Fail(r)
  PROVE  FilesInv' /\ UNCHANGED Table
<1>. DEFINE job == requests[r].now
<1>0. UNCHANGED Table /\ UNCHANGED served
  BY DEF ProbePath, ClaimPath, LookUp, ReadFirst, Fail, Table
<1>. SUFFICES ASSUME ~Done(r)
              PROVE  /\ job.stage \notin {"snapshot", "write"}
                     /\ \E next \in Fresh : Continue(r, next)
  BY <1>0, DoneQuietly, ContinueQuietly
<1>1. job \in FitJobs /\ Fits(job) /\ job.file \in 0..MaxFiles
  BY DEF FilesInv, Handler, FitJobs, Jobs
<1>2. \A f \in Files : f \in 0..MaxFiles
  BY DEF Files
<1>3. 0 \in 0..MaxFiles
  BY StudioAssumption
<1>4. CASE ProbePath(r)
  <2>1. job.stage = "probe" /\ job.path \in Paths /\ job.content \in Texts
    BY <1>1, <1>4 DEF ProbePath, Ready, Fits
  <2>2. job.path.n < MaxSuffix => [job.path EXCEPT !.n = @ + 1] \in Paths
    BY <2>1, StudioAssumption DEF Paths
  <2> QED BY <1>3, <1>4, <2>1, <2>2, FreshJobs DEF ProbePath
<1>5. CASE ClaimPath(r)
  <2>1. job.stage = "claim" /\ job.path \in Paths /\ (job.file = 0 => job.content \in Texts)
    BY <1>1, <1>5 DEF ClaimPath, Ready, Fits
  <2> QED BY <1>1, <1>3, <1>5, <2>1, FreshJobs DEF ClaimPath
<1>6. CASE LookUp(r)
  <2>1. job.stage = "lookup" /\ job.path \in Paths /\ job.content \in Texts
    BY <1>1, <1>6 DEF LookUp, Ready, Fits
  <2> QED BY <1>2, <1>3, <1>6, <2>1, FreshJobs DEF LookUp, At
<1>7. CASE ReadFirst(r)
  <2>1. Exists(job.file) /\ job.stage \in {"duplicate", "autosave"}
    BY <1>7 DEF ReadFirst
  <2>2. CASE job.stage = "autosave"
    BY <1>1, <1>7, <2>1, <2>2, FreshJobs DEF ReadFirst, Fits
  <2>3. CASE job.stage = "duplicate"
    <3>1. files[job.file] \in File
      BY <2>1 DEF Exists, FilesInv, TableOK
    <3>2. files[job.file].path \in Paths /\ files[job.file].content \in Texts
      BY <3>1 DEF File
    <3>3. [files[job.file].path EXCEPT !.n = IF @ < MaxSuffix THEN @ + 1 ELSE @] \in Paths
      BY <3>2, StudioAssumption DEF Paths
    <3> QED BY <1>3, <1>7, <2>1, <2>3, <3>2, <3>3, FreshJobs DEF ReadFirst
  <2> QED BY <2>1, <2>2, <2>3
<1>8. CASE Fail(r)
  BY <1>8 DEF Fail
<1> QED BY <1>4, <1>5, <1>6, <1>7, <1>8

-----------------------------------------------------------------------------
(* Steps that change the table.                                            *)

\* What no step does to the file of an update at work: bring it back, lose one
\* of its revisions, or replace its content without a trace.
Traced ==
  /\ minted <= minted' /\ gaps \subseteq gaps'
  /\ \A f \in 1..minted : Exists(f)' =>
       /\ Exists(f) /\ Kept(f) \subseteq Kept(f)'
       /\ \/ files'[f].content = files[f].content
          \/ files[f].content \in Kept(f)' \cup {Blank}
          \/ f \in gaps'

LEMMA OthersKeep ==
  ASSUME FilesInv, TableOK', Traced, NEW q \in Requests, requests'[q] = requests[q]
  PROVE  Busy(q)'
<1>. DEFINE f == requests[q].now.file  c == requests[q].held.content
<1>1. minted \in Nat /\ minted' \in Nat /\ minted <= minted'
  BY StudioAssumption DEF FilesInv, TableOK, Traced
<1>2. HoldsARow(q) /\ SnapshotIsDue(q) /\ WriteIsCovered(q)
  BY DEF FilesInv, Busy
<1>3. HoldsARow(q)'
  BY <1>1, <1>2 DEF HoldsARow
<1>4. SnapshotIsDue(q)'
  <2>. SUFFICES ASSUME requests[q].now.stage = "snapshot", Exists(f)'
                PROVE  c = files'[f].content \/ c \in Kept(f)' \/ f \in gaps'
    BY DEF SnapshotIsDue
  <2>1. f \in 1..minted /\ c # Blank
    BY <1>2 DEF HoldsARow
  <2>2. /\ Exists(f) /\ Kept(f) \subseteq Kept(f)' /\ gaps \subseteq gaps'
        /\ \/ files'[f].content = files[f].content
           \/ files[f].content \in Kept(f)' \cup {Blank}
           \/ f \in gaps'
    BY <2>1 DEF Traced
  <2>3. c = files[f].content \/ c \in Kept(f) \/ f \in gaps
    BY <1>2, <2>2 DEF SnapshotIsDue
  <2> QED BY <2>1, <2>2, <2>3
<1>5. WriteIsCovered(q)'
  <2>. SUFFICES ASSUME requests[q].now.stage = "write", Exists(f)'
                PROVE  requests[q].now.content \in {Keep, c} \/ c \in Kept(f)' \cup {Blank}
    BY DEF WriteIsCovered
  <2>1. f \in 1..minted
    BY <1>2 DEF HoldsARow
  <2>2. Exists(f) /\ Kept(f) \subseteq Kept(f)'
    BY <2>1 DEF Traced
  <2> QED BY <1>2, <2>2 DEF WriteIsCovered
<1> QED BY <1>3, <1>4, <1>5 DEF Busy

LEMMA DoneKeeps ==
  ASSUME FilesInv, NEW r \in Requests, Done(r), TableOK', ExistingAreMinted', Traced
  PROVE  FilesInv'
<1>1. /\ requests' \in [Requests -> Handler]
      /\ requests'[r].held = NULL
      /\ requests'[r].now.stage \notin {"snapshot", "write"}
      /\ \A q \in Requests \ {r} : requests'[q] = requests[q]
  BY DoneIs DEF FilesInv
<1>2. Busy(r)'
  BY <1>1 DEF Busy, HoldsARow, SnapshotIsDue, WriteIsCovered
<1>3. \A q \in Requests \ {r} : Busy(q)'
  BY <1>1, OthersKeep
<1> QED BY <1>1, <1>2, <1>3 DEF FilesInv

\* The abstract history of a table: what the contents, revisions and trash of
\* the files are shown as.
Shown == [f \in Files |-> IF Exists(f) THEN files[f].content ELSE NULL]
Histories == [f \in Files |-> Kept(f)]

Created == \E f \in Files, c \in Texts :
  /\ Shown[f] = NULL /\ Shown' = [Shown EXCEPT ![f] = c]
  /\ UNCHANGED <<Histories, Trashed, gaps>>
Retained == \E f \in Files, c \in Texts :
  /\ Shown[f] # NULL /\ (c = Shown[f] \/ f \in gaps)
  /\ Histories' = [Histories EXCEPT ![f] = @ \cup {c}]
  /\ UNCHANGED <<Shown, Trashed, gaps>>
Edited == \E f \in Files, c \in Texts :
  /\ Shown[f] \in Histories[f] \cup {Blank}
  /\ Shown' = [Shown EXCEPT ![f] = c]
  /\ UNCHANGED <<Histories, Trashed, gaps>>
EditedWithGap == \E f \in Files, c \in Texts :
  /\ Shown[f] # NULL
  /\ Shown' = [Shown EXCEPT ![f] = c] /\ gaps' = gaps \cup {f}
  /\ UNCHANGED <<Histories, Trashed>>
Discarded == \E F \in SUBSET Files :
  /\ \A f \in F : Shown[f] # NULL
  /\ Trashed' = Trashed \cup F /\ UNCHANGED <<Shown, Histories, gaps>>
Recovered == \E f \in Files :
  /\ f \in Trashed /\ Trashed' = Trashed \ {f}
  /\ UNCHANGED <<Shown, Histories, gaps>>
Removed == \E F \in SUBSET Files :
  /\ F \subseteq Trashed
  /\ Shown' = [f \in Files |-> IF f \in F THEN NULL ELSE Shown[f]]
  /\ Histories' = [f \in Files |-> IF f \in F THEN {} ELSE Histories[f]]
  /\ Trashed' = Trashed \ F /\ UNCHANGED gaps

HistoryStep ==
  \/ Created \/ Retained \/ Edited \/ EditedWithGap \/ Discarded \/ Recovered \/ Removed
  \/ UNCHANGED <<Shown, Histories, Trashed, gaps>>

LEMMA HistoryIs == HistoryStep => [History!Next]_(History!vars)
<1>. USE DEF History!Next, Shown, Histories, Kept
<1>1. Created => History!Next
  BY DEF Created, History!Create
<1>2. Retained => History!Next
  BY DEF Retained, History!Retain
<1>3. Edited => History!Next
  BY DEF Edited, History!Edit
<1>4. EditedWithGap => History!Next
  BY DEF EditedWithGap, History!EditWithGap
<1>5. Discarded => History!Next
  BY DEF Discarded, History!Discard
<1>6. Recovered => History!Next
  BY DEF Recovered, History!Recover
<1>7. Removed => History!Next
  BY DEF Removed, History!Remove
<1>8. UNCHANGED <<Shown, Histories, Trashed, gaps>> => UNCHANGED History!vars
  BY DEF History!vars
<1> QED BY <1>1, <1>2, <1>3, <1>4, <1>5, <1>6, <1>7, <1>8 DEF HistoryStep

LEMMA QuietStep == ASSUME UNCHANGED Table PROVE HistoryStep
BY SameTable DEF Table, Shown, Histories, HistoryStep

LEMMA InsertSteps ==
  ASSUME FilesInv, NEW r \in Requests, InsertFile(r)
  PROVE  FilesInv' /\ HistoryStep
<1>. DEFINE job == requests[r].now
            new == [path |-> job.path, content |-> job.content, trashed |-> "no"]
<1>1. UNCHANGED <<revisions, gaps, served>> /\ Done(r)
  BY DEF InsertFile
<1>2. CASE UNCHANGED <<files, minted>>
  <2>1. UNCHANGED Table
    BY <1>1, <1>2 DEF Table
  <2> QED BY <1>1, <2>1, DoneQuietly, QuietStep
<1>3. CASE minted < MaxFiles /\ minted' = minted + 1
           /\ files' = [files EXCEPT ![minted + 1] = new]
  <2>0. PICK n \in Files : n = minted + 1
    BY <1>3, StudioAssumption DEF Files, FilesInv, TableOK
  <2>1. minted \in Nat /\ n \in 0..MaxFiles
    BY <1>3, StudioAssumption DEF Files, FilesInv, TableOK
  <2>2. job \in FitJobs /\ job.stage = "insert"
    BY DEF FilesInv, Handler, InsertFile, Ready
  <2>3. job.path \in Paths /\ job.content \in Texts
    BY <2>2 DEF FitJobs, Fits
  <2>4. new \in File /\ new # NULL /\ new.content = job.content /\ new.trashed = "no"
    BY <2>3, NullAssumption DEF File
  <2>. HIDE DEF job, new
  <2>5. /\ files' \in [Files -> File \cup {NULL}] /\ files'[n] = new
        /\ \A f \in Files \ {n} : files'[f] = files[f]
    BY <1>3, <2>0, <2>4 DEF FilesInv, TableOK
  <2>6. ~Exists(n)
    BY <2>0, <2>1 DEF FilesInv, ExistingAreMinted
  <2>7. Exists(n)' /\ \A f \in Files \ {n} : Exists(f)' <=> Exists(f)
    BY <2>4, <2>5 DEF Exists
  <2>8. \A f : Kept(f)' = Kept(f)
    BY <1>1 DEF Kept, OwnRevisions
  <2>9. TableOK'
    <3>1. \A v \in revisions : v.file \in Files /\ Exists(v.file) /\ v.content # Blank
      BY DEF FilesInv, TableOK
    <3>2. \A f \in Files : Exists(f) => Exists(f)'
      BY <2>6, <2>7
    <3> QED BY <1>1, <1>3, <2>0, <2>1, <2>5, <3>1, <3>2 DEF FilesInv, TableOK
  <2>10. ExistingAreMinted'
    <3>1. \A f \in Files : Exists(f)' => f = n \/ f <= minted
      BY <2>7 DEF FilesInv, ExistingAreMinted
    <3> QED BY <1>3, <2>0, <2>1, <3>1 DEF ExistingAreMinted, Files
  <2>11. Traced
    <3>1. \A f \in 1..minted : f # n /\ f \in Files
      BY <2>0, <2>1, StudioAssumption DEF Files
    <3> QED BY <1>1, <1>3, <2>1, <2>5, <2>7, <2>8, <3>1 DEF Traced
  <2>12. FilesInv'
    BY <1>1, <2>9, <2>10, <2>11, DoneKeeps
  <2>13. Trashed' = Trashed
    BY <2>4, <2>5, <2>6, <2>7 DEF Trashed
  <2>14. Shown[n] = NULL /\ Shown' = [Shown EXCEPT ![n] = job.content]
    BY <2>1, <2>4, <2>5, <2>6, <2>7 DEF Shown
  <2>15. Histories' = Histories
    BY <2>8 DEF Histories
  <2>16. Created
    BY <1>1, <2>3, <2>13, <2>14, <2>15 DEF Created
  <2> QED BY <2>12, <2>16 DEF HistoryStep
<1> QED BY <1>2, <1>3 DEF InsertFile

LEMMA ReadSteps ==
  ASSUME FilesInv, NEW r \in Requests, ReadRow(r)
  PROVE  FilesInv' /\ UNCHANGED Table
<1>. DEFINE job == requests[r].now  copy == files[job.file]
            stage == IF Changes(copy, job.content) THEN "snapshot" ELSE "write"
            next == [requests[r] EXCEPT !.held = copy, !.now.stage = stage]
<1>1. UNCHANGED Table /\ UNCHANGED served
  BY DEF ReadRow, Table
<1>2. CASE Done(r)
  BY <1>1, <1>2, DoneQuietly
<1>3. CASE ~Done(r)
  <2>1. Exists(job.file) /\ job.stage = "read"
    BY <1>3 DEF ReadRow, Ready
  <2>2. requests' = [requests EXCEPT ![r] = next]
    BY <1>3 DEF ReadRow, FilesInv, Handler
  <2>3. job \in FitJobs /\ job \in Jobs /\ Fits(job) /\ copy \in File
    BY <2>1 DEF FilesInv, TableOK, Handler, Exists, FitJobs
  <2>4. next.now \in FitJobs /\ next.now.stage = stage /\ next.now.file = job.file
        /\ next.now.content = job.content
    <3>. DEFINE later == [job EXCEPT !.stage = stage]
    <3>1. stage \in {"snapshot", "write"}
      OBVIOUS
    <3>. HIDE DEF stage
    <3>2. /\ later \in Jobs /\ later.stage = stage /\ later.file = job.file
          /\ later.path = job.path /\ later.content = job.content
      BY <2>3, <3>1 DEF Jobs
    <3>3. Fits(later)
      <4>. HIDE DEF later
      <4> QED BY <2>1, <2>3, <3>1, <3>2 DEF Fits
    <3>4. next.now = later
      BY DEF FilesInv, Handler
    <3> QED BY <3>2, <3>3, <3>4 DEF FitJobs
  <2>5. next \in Handler /\ next.held = copy
    BY <2>3, <2>4 DEF FilesInv, Handler
  <2>. HIDE DEF next
  <2>6. /\ requests' \in [Requests -> Handler] /\ requests'[r] = next
        /\ \A q \in Requests \ {r} : requests'[q] = requests[q]
    BY <2>2, <2>5 DEF FilesInv
  <2>7. \A q \in Requests \ {r} : Busy(q)'
    BY <1>1, <2>6, SameTable DEF FilesInv
  <2>8. copy # NULL /\ job.file \in 1..minted /\ files' = files
    <3>1. job.file \in Files /\ copy # NULL
      BY <2>1 DEF Exists
    <3>2. job.file <= minted
      BY <2>1, <3>1 DEF FilesInv, ExistingAreMinted
    <3>3. \A f \in Files : f <= minted => f \in 1..minted
      BY DEF Files, FilesInv, TableOK
    <3> QED BY <1>1, <3>1, <3>2, <3>3 DEF Table
  <2>9. stage = "snapshot" => copy.content # Blank
    BY DEF Changes
  <2>10. stage = "write" => job.content \in {Keep, copy.content} \/ copy.content = Blank
    BY DEF Changes
  <2>11. stage \in {"snapshot", "write"} /\ minted' = minted
    BY <1>1 DEF Table
  <2>. HIDE DEF stage, copy, job
  <2>12. HoldsARow(r)'
    BY <2>4, <2>5, <2>6, <2>8, <2>9, <2>11 DEF HoldsARow
  <2>13. SnapshotIsDue(r)'
    BY <2>4, <2>5, <2>6, <2>8 DEF SnapshotIsDue, copy
  <2>14. WriteIsCovered(r)'
    BY <2>4, <2>5, <2>6, <2>10 DEF WriteIsCovered
  <2>15. TableOK' /\ ExistingAreMinted'
    BY <1>1, SameTable DEF FilesInv, TableOK, Table
  <2> QED BY <1>1, <2>6, <2>7, <2>12, <2>13, <2>14, <2>15 DEF FilesInv, Busy
<1> QED BY <1>2, <1>3

\* A handler in the later steps of an update.
LEMMA UpdateIs ==
  ASSUME FilesInv, NEW r \in Requests, requests[r].now.stage \in {"snapshot", "write"}
  PROVE  /\ requests[r].now \in FitJobs
         /\ requests[r].now.file \in Files /\ requests[r].now.file \in 1..minted
         /\ requests[r].held \in File
         /\ requests[r].held.content \in Texts /\ requests[r].held.path \in Paths
         /\ requests[r].now.path \in Paths \cup {Keep}
         /\ requests[r].now.content \in Texts \cup {Keep}
<1>1. HoldsARow(r) /\ requests[r] \in Handler
  BY DEF FilesInv, Busy
<1>2. requests[r].now \in FitJobs /\ requests[r].held \in File \cup {NULL}
  BY <1>1 DEF Handler
<1>3. requests[r].held # NULL /\ requests[r].now.file \in 1..minted
  BY <1>1 DEF HoldsARow
<1>4. Fits(requests[r].now)
  BY <1>2 DEF FitJobs
<1>5. requests[r].held \in File
  BY <1>2, <1>3
<1>6. requests[r].held.content \in Texts /\ requests[r].held.path \in Paths
  BY <1>5 DEF File
<1> QED BY <1>2, <1>3, <1>4, <1>5, <1>6, Minted DEF Fits

LEMMA SnapshotSteps ==
  ASSUME FilesInv, NEW r \in Requests, Snapshot(r)
  PROVE  FilesInv' /\ HistoryStep
<1>. DEFINE job == requests[r].now
<1>1. UNCHANGED <<files, minted, gaps, served>> /\ job.stage = "snapshot"
  BY DEF Snapshot, Ready
<1>2. CASE Done(r) /\ UNCHANGED revisions
  BY <1>1, <1>2, DoneQuietly, QuietStep DEF Table
<1>3. CASE Exists(job.file)
  <2>1. PICK f \in Files : f = job.file
    BY <1>1, UpdateIs
  <2>2. PICK c \in Texts : c = requests[r].held.content
    BY <1>1, UpdateIs
  <2>. DEFINE v == [file |-> f, content |-> c]  next == [job EXCEPT !.stage = "write"]
  <2>3. revisions' = revisions \cup {v} /\ Continue(r, next)
    BY <1>3, <2>1, <2>2 DEF Snapshot
  <2>4. v.file = f /\ v.content = c
    OBVIOUS
  <2>5. job \in Jobs /\ Fits(job)
    BY <1>1, UpdateIs DEF FitJobs
  <2>6. next \in FitJobs /\ next.stage = "write" /\ next.file = f /\ next.content = job.content
    <3>1. /\ next \in Jobs /\ next.stage = "write" /\ next.file = job.file
          /\ next.path = job.path /\ next.content = job.content
      BY <2>5 DEF Jobs
    <3>2. Fits(next)
      <4>. HIDE DEF next
      <4> QED BY <1>1, <2>5, <3>1 DEF Fits
    <3> QED BY <2>1, <3>1, <3>2 DEF FitJobs
  <2>. HIDE DEF next, v
  <2>7. /\ requests' \in [Requests -> Handler]
        /\ requests'[r].now = next /\ requests'[r].held = requests[r].held
        /\ \A q \in Requests \ {r} : requests'[q] = requests[q]
    BY <2>3, <2>6, ContinueIs DEF FilesInv
  <2>8. /\ Kept(f)' = Kept(f) \cup {c}
        /\ \A g \in Files \ {f} : Kept(g)' = Kept(g)
    BY <2>3, <2>4 DEF Kept, OwnRevisions
  <2>9. \A g : Exists(g)' <=> Exists(g)
    BY <1>1 DEF Exists
  <2>10. HoldsARow(r) /\ SnapshotIsDue(r)
    BY DEF FilesInv, Busy
  <2>11. c # Blank /\ f \in 1..minted /\ requests[r].held # NULL
    BY <1>1, <2>1, <2>2, <2>10 DEF HoldsARow
  <2>12. TableOK' /\ ExistingAreMinted'
    <3>1. v \in [file : Files, content : Texts]
      BY DEF v
    <3>2. \A w \in revisions' : Exists(w.file)' /\ w.content # Blank
      BY <1>3, <2>1, <2>3, <2>4, <2>9, <2>11 DEF FilesInv, TableOK
    <3> QED BY <1>1, <2>3, <2>9, <3>1, <3>2 DEF FilesInv, TableOK, ExistingAreMinted
  <2>13. Traced
    <3>1. minted \in Nat /\ 1..minted \subseteq Files
      BY Minted DEF FilesInv, TableOK
    <3> QED BY <1>1, <2>8, <2>9, <3>1 DEF Traced
  <2>14. \A q \in Requests \ {r} : Busy(q)'
    BY <2>7, <2>12, <2>13, OthersKeep
  <2>15. Busy(r)'
    <3>1. HoldsARow(r)'
      BY <1>1, <2>6, <2>7, <2>11 DEF HoldsARow
    <3>2. SnapshotIsDue(r)'
      BY <2>6, <2>7 DEF SnapshotIsDue
    <3>3. WriteIsCovered(r)'
      BY <2>2, <2>6, <2>7, <2>8 DEF WriteIsCovered
    <3> QED BY <3>1, <3>2, <3>3 DEF Busy
  <2>16. FilesInv'
    BY <2>7, <2>12, <2>14, <2>15 DEF FilesInv
  <2>17. Trashed' = Trashed /\ Shown' = Shown
    BY <1>1, <2>9 DEF Trashed, Shown
  <2>18. Shown[f] = files[f].content /\ Shown[f] # NULL
    <3>1. files[f] \in File
      BY <1>3, <2>1 DEF FilesInv, TableOK, Exists
    <3>2. files[f].content \in Texts
      BY <3>1 DEF File
    <3> QED BY <1>3, <2>1, <3>2, StudioAssumption DEF Shown
  <2>19. Histories' = [Histories EXCEPT ![f] = @ \cup {c}]
    BY <2>8 DEF Histories
  <2>20. c = files[f].content \/ c \in Kept(f) \/ f \in gaps
    BY <1>1, <1>3, <2>1, <2>2, <2>10 DEF SnapshotIsDue
  <2>21. CASE c \in Kept(f)
    <3>1. Histories' = Histories
      BY <2>19, <2>21 DEF Histories
    <3> QED BY <1>1, <2>16, <2>17, <3>1 DEF HistoryStep
  <2>22. CASE c = files[f].content \/ f \in gaps
    <3>1. Retained
      BY <1>1, <2>17, <2>18, <2>19, <2>22 DEF Retained
    <3> QED BY <2>16, <3>1 DEF HistoryStep
  <2> QED BY <2>20, <2>21, <2>22
<1> QED BY <1>2, <1>3 DEF Snapshot

LEMMA WriteSteps ==
  ASSUME FilesInv, NEW r \in Requests, WriteRow(r)
  PROVE  FilesInv' /\ HistoryStep
<1>. DEFINE job == requests[r].now  held == requests[r].held
            wanted == Chosen(job.content, held.content)
<1>1. UNCHANGED <<revisions, minted, served>> /\ Done(r) /\ job.stage = "write"
  BY DEF WriteRow, Ready
<1>2. CASE UNCHANGED <<files, gaps>>
  BY <1>1, <1>2, DoneQuietly, QuietStep DEF Table
<1>3. CASE ~UNCHANGED <<files, gaps>>
  <2>1. PICK f \in Files : f = job.file
    BY <1>1, UpdateIs
  <2>2. PICK p \in Paths : p = Chosen(job.path, held.path)
    BY <1>1, UpdateIs DEF Chosen
  <2>3. PICK c \in Texts : c = wanted
    BY <1>1, UpdateIs DEF Chosen
  <2>4. /\ Exists(f)
        /\ files' = [files EXCEPT ![f].path = p, ![f].content = c]
        /\ gaps' = IF files[f].content \in {held.content, c} THEN gaps ELSE gaps \cup {f}
    BY <1>3, <2>1, <2>2, <2>3 DEF WriteRow
  <2>5. files[f] \in File /\ files \in [Files -> File \cup {NULL}]
    BY <2>4 DEF FilesInv, TableOK, Exists
  <2>6. /\ files' \in [Files -> File \cup {NULL}] /\ files'[f] \in File
        /\ files'[f].content = c /\ files'[f].trashed = files[f].trashed
        /\ \A g \in Files \ {f} : files'[g] = files[g]
    <3>. DEFINE copy == [files[f] EXCEPT !.path = p, !.content = c]
    <3>1. copy \in File /\ copy.content = c /\ copy.trashed = files[f].trashed
      BY <2>5 DEF File
    <3>2. files' = [files EXCEPT ![f] = copy]
      BY <2>4, <2>5
    <3>. HIDE DEF copy
    <3> QED BY <2>5, <3>1, <3>2
  <2>7. \A g : Exists(g)' <=> Exists(g)
    BY <2>4, <2>6, NullAssumption DEF Exists
  <2>8. \A g : Kept(g)' = Kept(g)
    BY <1>1 DEF Kept, OwnRevisions
  <2>9. TableOK' /\ ExistingAreMinted'
    BY <1>1, <2>4, <2>6, <2>7 DEF FilesInv, TableOK, ExistingAreMinted
  <2>10. f \in gaps' \/ files[f].content = c \/ files[f].content \in Kept(f) \cup {Blank}
    <3>1. WriteIsCovered(r)
      BY DEF FilesInv, Busy
    <3>2. job.content \in {Keep, held.content} \/ held.content \in Kept(f) \cup {Blank}
      BY <1>1, <2>1, <2>4, <3>1 DEF WriteIsCovered
    <3>3. job.content \in {Keep, held.content} => c = held.content
      BY <2>3 DEF Chosen
    <3> QED BY <2>4, <3>2, <3>3
  <2>11. Traced
    <3>1. minted \in Nat /\ 1..minted \subseteq Files
      BY Minted DEF FilesInv, TableOK
    <3>2. gaps \subseteq gaps'
      BY <2>4
    <3>3. minted <= minted'
      BY <1>1, <3>1
    <3>4. ASSUME NEW g \in 1..minted, Exists(g)'
          PROVE  /\ Exists(g) /\ Kept(g) \subseteq Kept(g)'
                 /\ \/ files'[g].content = files[g].content
                    \/ files[g].content \in Kept(g)' \cup {Blank}
                    \/ g \in gaps'
      <4>1. CASE g = f
        BY <2>6, <2>7, <2>8, <2>10, <3>4, <4>1
      <4>2. CASE g # f
        BY <2>6, <2>7, <2>8, <3>1, <3>4, <4>2
      <4> QED BY <4>1, <4>2
    <3> QED BY <3>2, <3>3, <3>4 DEF Traced
  <2>12. FilesInv'
    BY <1>1, <2>9, <2>11, DoneKeeps
  <2>13. Trashed' = Trashed /\ Histories' = Histories
    BY <2>6, <2>7, <2>8 DEF Trashed, Histories
  <2>14. Shown' = [Shown EXCEPT ![f] = c]
    BY <2>4, <2>6, <2>7 DEF Shown
  <2>15. Shown[f] = files[f].content /\ Shown[f] # NULL
    BY <2>4, <2>5, StudioAssumption DEF Shown, File
  <2>16. CASE files[f].content = c
    <3>1. Shown' = Shown
      BY <2>14, <2>15, <2>16 DEF Shown
    <3>2. gaps' = gaps
      BY <2>4, <2>16
    <3> QED BY <2>12, <2>13, <3>1, <3>2 DEF HistoryStep
  <2>17. CASE gaps' = gaps \cup {f}
    <3>1. EditedWithGap
      BY <2>13, <2>14, <2>15, <2>17 DEF EditedWithGap
    <3> QED BY <2>12, <3>1 DEF HistoryStep
  <2>18. CASE gaps' = gaps /\ files[f].content \in Kept(f) \cup {Blank}
    <3>1. Edited
      BY <2>13, <2>14, <2>15, <2>18 DEF Edited, Histories
    <3> QED BY <2>12, <3>1 DEF HistoryStep
  <2>19. \/ files[f].content = c \/ gaps' = gaps \cup {f}
         \/ gaps' = gaps /\ files[f].content \in Kept(f) \cup {Blank}
    BY <2>4, <2>10
  <2> QED BY <2>16, <2>17, <2>18, <2>19
<1> QED BY <1>2, <1>3

\* A step that moves one file into the trash, out of it or further in it.
LEMMA MovedIs ==
  ASSUME FilesInv, NEW f \in Files, Exists(f), NEW t \in {"no", "recent", "expired"},
         files' = [files EXCEPT ![f].trashed = t], UNCHANGED <<revisions, minted, gaps, served>>
  PROVE  /\ TableOK' /\ ExistingAreMinted' /\ Traced
         /\ Shown' = Shown /\ Histories' = Histories /\ Shown[f] # NULL
         /\ Trashed' = IF t = "no" THEN Trashed \ {f} ELSE Trashed \cup {f}
<1>1. files[f] \in File /\ files \in [Files -> File \cup {NULL}]
  BY DEF FilesInv, TableOK, Exists
<1>2. /\ files' \in [Files -> File \cup {NULL}] /\ files'[f] \in File
      /\ files'[f].content = files[f].content /\ files'[f].trashed = t
      /\ \A g \in Files \ {f} : files'[g] = files[g]
  <2>. DEFINE copy == [files[f] EXCEPT !.trashed = t]
  <2>1. copy \in File /\ copy.content = files[f].content /\ copy.trashed = t
    BY <1>1 DEF File
  <2>2. files' = [files EXCEPT ![f] = copy]
    BY <1>1
  <2>. HIDE DEF copy
  <2> QED BY <1>1, <2>1, <2>2
<1>3. \A g : Exists(g)' <=> Exists(g)
  BY <1>2, NullAssumption DEF Exists
<1>4. \A g : Kept(g)' = Kept(g)
  BY DEF Kept, OwnRevisions
<1>5. TableOK' /\ ExistingAreMinted'
  BY <1>2, <1>3 DEF FilesInv, TableOK, ExistingAreMinted
<1>6. Traced
  <2>1. minted \in Nat /\ 1..minted \subseteq Files
    BY Minted DEF FilesInv, TableOK
  <2>2. \A g \in Files : files'[g].content = files[g].content
    BY <1>2
  <2> QED BY <1>3, <1>4, <2>1, <2>2 DEF Traced
<1>7. Shown' = Shown /\ Histories' = Histories
  BY <1>2, <1>3, <1>4 DEF Shown, Histories
<1>8. Shown[f] # NULL
  BY <1>1, StudioAssumption DEF Shown, File
<1>9. Trashed' = IF t = "no" THEN Trashed \ {f} ELSE Trashed \cup {f}
  BY <1>2, <1>3 DEF Trashed
<1> QED BY <1>5, <1>6, <1>7, <1>8, <1>9

LEMMA TrashSteps ==
  ASSUME FilesInv, NEW r \in Requests, TrashRow(r) \/ UntrashRow(r)
  PROVE  FilesInv' /\ HistoryStep
<1>1. UNCHANGED <<revisions, minted, gaps, served>> /\ Done(r)
  BY DEF TrashRow, UntrashRow
<1>2. CASE UNCHANGED files
  BY <1>1, <1>2, DoneQuietly, QuietStep DEF Table
<1>3. CASE ~UNCHANGED files
  <2>1. PICK f : f = requests[r].now.file
    OBVIOUS
  <2>2. CASE TrashRow(r)
    <3>1. f \in Files /\ Exists(f) /\ files' = [files EXCEPT ![f].trashed = "recent"]
      BY <1>3, <2>1, <2>2 DEF TrashRow, Exists
    <3>2. /\ TableOK' /\ ExistingAreMinted' /\ Traced
          /\ Shown' = Shown /\ Histories' = Histories /\ Shown[f] # NULL
          /\ Trashed' = Trashed \cup {f}
      BY <1>1, <3>1, MovedIs
    <3>3. Discarded
      <4>1. {f} \in SUBSET Files
        BY <3>1
      <4> QED BY <1>1, <3>2, <4>1 DEF Discarded
    <3> QED BY <1>1, <3>2, <3>3, DoneKeeps DEF HistoryStep
  <2>3. CASE UntrashRow(r)
    <3>1. /\ f \in Files /\ Exists(f) /\ f \in Trashed
          /\ files' = [files EXCEPT ![f].trashed = "no"]
      BY <1>3, <2>1, <2>3 DEF UntrashRow, Trashed
    <3>2. /\ TableOK' /\ ExistingAreMinted' /\ Traced
          /\ Shown' = Shown /\ Histories' = Histories
          /\ Trashed' = Trashed \ {f}
      BY <1>1, <3>1, MovedIs
    <3>3. Recovered
      BY <1>1, <3>1, <3>2 DEF Recovered
    <3> QED BY <1>1, <3>2, <3>3, DoneKeeps DEF HistoryStep
  <2> QED BY <2>2, <2>3
<1> QED BY <1>2, <1>3

LEMMA ExpireSteps ==
  ASSUME FilesInv, NEW f \in Files, Expire(f)
  PROVE  FilesInv' /\ HistoryStep
<1>1. /\ f \in Trashed /\ Exists(f) /\ files' = [files EXCEPT ![f].trashed = "expired"]
      /\ UNCHANGED <<revisions, minted, gaps, served, requests>>
  BY DEF Expire, Trashed
<1>2. /\ TableOK' /\ ExistingAreMinted' /\ Traced
      /\ Shown' = Shown /\ Histories' = Histories /\ Trashed' = Trashed \cup {f}
  BY <1>1, MovedIs
<1>3. \A q \in Requests : Busy(q)'
  BY <1>1, <1>2, OthersKeep
<1>4. Trashed' = Trashed
  BY <1>1, <1>2
<1> QED BY <1>1, <1>2, <1>3, <1>4 DEF FilesInv, HistoryStep

LEMMA DeleteIs ==
  ASSUME FilesInv, NEW F \in SUBSET Trashed, Delete(F)
  PROVE  TableOK' /\ ExistingAreMinted' /\ Traced /\ HistoryStep
<1>1. /\ files' = [f \in Files |-> IF f \in F THEN NULL ELSE files[f]]
      /\ revisions' = {v \in revisions : v.file \notin F}
      /\ UNCHANGED <<minted, gaps, served>>
  BY DEF Delete
<1>2. F \subseteq Files /\ F \subseteq Trashed
  BY DEF Trashed
<1>3. \A f : Exists(f)' <=> Exists(f) /\ f \notin F
  BY <1>1 DEF Exists
<1>4. \A f : Kept(f)' = IF f \in F THEN {} ELSE Kept(f)
  BY <1>1 DEF Kept, OwnRevisions
<1>5. TableOK' /\ ExistingAreMinted'
  <2>1. files' \in [Files -> File \cup {NULL}]
    BY <1>1 DEF FilesInv, TableOK
  <2>2. \A v \in revisions' : Exists(v.file)' /\ v.content # Blank
    BY <1>1, <1>3 DEF FilesInv, TableOK
  <2> QED BY <1>1, <1>3, <2>1, <2>2 DEF FilesInv, TableOK, ExistingAreMinted
<1>6. Traced
  <2>1. minted \in Nat /\ 1..minted \subseteq Files
    BY Minted DEF FilesInv, TableOK
  <2>2. \A f \in Files \ F : files'[f] = files[f]
    BY <1>1
  <2> QED BY <1>1, <1>3, <1>4, <2>1, <2>2 DEF Traced
<1>7. Shown' = [f \in Files |-> IF f \in F THEN NULL ELSE Shown[f]]
  BY <1>1, <1>3 DEF Shown
<1>8. Histories' = [f \in Files |-> IF f \in F THEN {} ELSE Histories[f]]
  BY <1>4 DEF Histories
<1>9. Trashed' = Trashed \ F
  BY <1>1, <1>3 DEF Trashed
<1>10. F \in SUBSET Files
  BY <1>2
<1>11. Removed
  BY <1>1, <1>2, <1>7, <1>8, <1>9, <1>10 DEF Removed
<1> QED BY <1>5, <1>6, <1>11 DEF HistoryStep

LEMMA DeleteSteps ==
  ASSUME FilesInv, NEW r \in Requests, Sweep(r) \/ PurgeRow(r)
  PROVE  FilesInv' /\ HistoryStep
<1>1. Done(r) /\ \E F \in SUBSET Trashed : Delete(F)
  <2>1. Expired \in SUBSET Trashed /\ Trashed \in SUBSET Trashed
        /\ {requests[r].now.file} \cap Trashed \in SUBSET Trashed
    BY DEF Expired
  <2> QED BY <2>1 DEF Sweep, PurgeRow
<1> QED BY <1>1, DeleteIs, DoneKeeps

LEMMA RestartSteps == ASSUME FilesInv, Restart PROVE FilesInv' /\ HistoryStep
<1>1. \E F \in SUBSET Trashed : Delete(F)
  <2>1. Expired \in SUBSET Trashed /\ {} \in SUBSET Trashed
    BY DEF Expired
  <2> QED BY <2>1 DEF Restart
<1>2. TableOK' /\ ExistingAreMinted' /\ HistoryStep
  BY <1>1, DeleteIs
<1>3. requests' \in [Requests -> Handler] /\ \A r \in Requests : requests'[r] = Idle
  BY IdleIs DEF Restart
<1>4. ASSUME NEW r \in Requests PROVE Busy(r)'
  BY <1>3, IdleIs DEF Busy, HoldsARow, SnapshotIsDue, WriteIsCovered
<1> QED BY <1>2, <1>3, <1>4 DEF FilesInv

LEMMA FilesStart == ASSUME Init PROVE FilesInv /\ History!Init
<1>1. \A f : ~Exists(f)
  BY DEF Init, Exists
<1>2. TableOK /\ ExistingAreMinted
  <2>1. 0 \in 0..MaxFiles /\ 0 \in 0..MaxServed
    BY StudioAssumption
  <2> QED BY <1>1, <2>1 DEF Init, TableOK, ExistingAreMinted
<1>3. requests \in [Requests -> Handler] /\ \A r \in Requests : requests[r] = Idle
  BY IdleIs DEF Init
<1>4. ASSUME NEW r \in Requests PROVE Busy(r)
  BY <1>3, IdleIs, NotBusy
<1>5. History!Init
  BY <1>1 DEF Init, History!Init, Trashed, OwnRevisions
<1> QED BY <1>2, <1>3, <1>4, <1>5 DEF FilesInv

LEMMA FilesStep == ASSUME FilesInv, [Next]_vars PROVE FilesInv' /\ HistoryStep
<1>1. CASE UNCHANGED vars
  <2>1. UNCHANGED Table /\ UNCHANGED served /\ UNCHANGED requests
    BY <1>1 DEF vars, Table
  <2>2. TableOK' /\ ExistingAreMinted' /\ \A r \in Requests : Busy(r)'
    BY <2>1, SameTable DEF FilesInv, TableOK, Table
  <2> QED BY <2>1, <2>2, QuietStep DEF FilesInv
<1>2. ASSUME NEW r \in Requests,
             \/ NewFile(r) \/ NewFolder(r) \/ Save(r) \/ Autosave(r) \/ Rename(r)
             \/ Duplicate(r) \/ RestoreRevision(r) \/ ImportFile(r) \/ ImportArchive(r)
             \/ RenameFolder(r) \/ DeleteFolder(r) \/ DeleteFile(r)
             \/ RestoreFile(r) \/ PurgeFile(r) \/ EmptyTrash(r)
      PROVE  FilesInv' /\ HistoryStep
  BY <1>2, StartsKeep, QuietStep
<1>3. ASSUME NEW r \in Requests,
             ProbePath(r) \/ ClaimPath(r) \/ LookUp(r) \/ ReadFirst(r) \/ Fail(r)
      PROVE  FilesInv' /\ HistoryStep
  BY <1>3, LooksKeep, QuietStep
<1>4. ASSUME NEW r \in Requests,
             \/ InsertFile(r) \/ ReadRow(r) \/ Snapshot(r) \/ WriteRow(r)
             \/ TrashRow(r) \/ UntrashRow(r) \/ Sweep(r) \/ PurgeRow(r)
      PROVE  FilesInv' /\ HistoryStep
  BY <1>4, InsertSteps, ReadSteps, QuietStep, SnapshotSteps, WriteSteps, TrashSteps, DeleteSteps
<1> QED BY <1>1, <1>2, <1>3, <1>4, RestartSteps, ExpireSteps DEF Next

LEMMA FilesInvAlways == Spec => []FilesInv
<1>1. Init => FilesInv
  BY FilesStart
<1>2. FilesInv /\ [Next]_vars => FilesInv'
  BY FilesStep
<1> QED BY <1>1, <1>2, PTL DEF Spec

\* Rows, revisions (each of a file that exists, none of them blank) and handlers
\* keep their types, and a handler holds a row exactly in an update's later steps.
THEOREM FilesTypeCorrect == Spec => []TypeOK
<1>1. FilesInv => TypeOK
  BY DEF FilesInv, TableOK, TypeOK, Busy, HoldsARow
<1> QED BY <1>1, FilesInvAlways, PTL

\* Whatever handlers overlap and wherever they stop, the workspace implements
\* FileHistory: an edit keeps what it replaces unless it went by an outdated
\* copy, and a file ceases to exist only from the trash.
THEOREM FilesImplementHistory == Spec => ImplementsHistory
<1>1. Init => History!Init
  BY FilesStart
<1>2. FilesInv /\ [Next]_vars => [History!Next]_(History!vars)
  BY FilesStep, HistoryIs
<1> QED BY <1>1, <1>2, FilesInvAlways, PTL DEF Spec, ImplementsHistory, History!Spec

-----------------------------------------------------------------------------
(* StudioQueries.                                                          *)

Positions == 1..MaxStatements
Body == [error : BOOLEAN, page : Nat, more : BOOLEAN]
Statement == [state : {"absent", "running", "finished", "failed"}, pages : Nat,
              explained : BOOLEAN]
RunStages == {"idle", "post", "read", "spawn", "wait", "over"}

Execution == [kind : {"none", "editor", "cell", "explain"}, engine : {"trino", "python"},
              total : 0..MaxStatements, stage : RunStages, at : Nat \ {0}, round : Nat,
              body : Body, rows : Seq(Nat)]

Verdict == [answer : {"none", "sql_ok", "sql_err", "py_ok", "py_err"}, rows : Seq(Nat),
            entry : {"none", "ok", "failed"}]

QueriesTypeOK ==
  /\ run \in [Runs -> Execution]
  /\ trino \in [Runs -> [Positions -> Statement]]
  /\ told \in [Runs -> Verdict]

\* The first pages of a statement, in order.
Pages(n) == [page \in 1..n |-> page]

\* Up to where an execution has come.
Placed(q) ==
  /\ run[q].stage \in {"idle", "spawn", "wait"} => run[q].at = 1
  /\ run[q].stage = "post" => run[q].at <= run[q].total \/ run[q].at = 1
  /\ run[q].stage = "read" => run[q].at <= run[q].total

\* The statements before its position have finished, those after it are unsent.
InOrder(q) ==
  /\ \A i \in Positions : i < run[q].at => trino[q][i].state = "finished"
  /\ \A i \in Positions : i > run[q].at => trino[q][i].state = "absent"
  /\ run[q].stage \in {"idle", "post", "spawn", "wait"} =>
       \A i \in Positions : i >= run[q].at => trino[q][i].state = "absent"

\* The answer that is about to be read is the coordinator's last, and with the
\* rows collected so far it makes all the pages there were.
UpToDate(q) ==
  run[q].stage = "read" =>
    LET s == trino[q][run[q].at]  body == run[q].body IN
    /\ ~body.error /\ ~body.more => s.state = "finished"
    /\ body.page = 0 => run[q].rows = Pages(s.pages)
    /\ body.page # 0 => body.page = s.pages /\ run[q].rows = Pages(s.pages - 1)

\* An answer is given at the end, and a result is whole.
Whole(q) ==
  /\ told[q].answer # "none" => run[q].stage = "over"
  /\ told[q].answer = "sql_ok" =>
       /\ \A i \in 1..run[q].total : trino[q][i].state = "finished"
       /\ told[q].rows = Pages(trino[q][run[q].total].pages)

Sound(q) == Placed(q) /\ InOrder(q) /\ UpToDate(q) /\ Whole(q)

QueriesInv == QueriesTypeOK /\ \A q \in Runs : Sound(q)

-----------------------------------------------------------------------------

\* One more page in order.
LEMMA OneMorePage ==
  ASSUME NEW n \in Nat \ {0}
  PROVE  Append(Pages(n - 1), n) = Pages(n) /\ Pages(n) \in Seq(Nat) /\ Pages(n - 1) \in Seq(Nat)
BY DEF Pages

LEMMA NoPage == <<>> = Pages(0) /\ Pages(0) \in Seq(Nat)
BY DEF Pages

\* Where an answer leaves a statement.
LEMMA AnsweredIs ==
  ASSUME NEW s \in Statement, NEW body \in Bodies(s)
  PROVE  /\ body \in Body
         /\ Answered(s, body) \in Statement
         /\ ~body.error /\ ~body.more => Answered(s, body).state = "finished"
         /\ body.page = 0 => Answered(s, body).pages = s.pages
         /\ body.page # 0 => body.page = s.pages + 1 /\ Answered(s, body).pages = s.pages + 1
<1>1. body \in Body /\ (body.page = 0 \/ body.page = s.pages + 1)
  <2>1. s.pages \in Nat
    BY DEF Statement
  <2>2. CASE body \in [error : {FALSE}, page : {0, s.pages + 1}, more : BOOLEAN]
    <3>1. {0, s.pages + 1} \subseteq Nat /\ {FALSE} \subseteq BOOLEAN
      BY <2>1
    <3>2. body \in [error : BOOLEAN, page : Nat, more : BOOLEAN] /\ body.page \in {0, s.pages + 1}
      BY <2>2, <3>1, Zenon
    <3> QED BY <3>2 DEF Body
  <2>3. CASE body = [error |-> TRUE, page |-> 0, more |-> FALSE]
    BY <2>3 DEF Body
  <2> QED BY <2>2, <2>3 DEF Bodies, NoBody
<1>. DEFINE state == CASE body.error -> "failed" [] body.more -> "running" [] OTHER -> "finished"
<1>2. state \in {"failed", "running", "finished"} /\ (~body.error /\ ~body.more => state = "finished")
  OBVIOUS
<1>3. Answered(s, body) =
        [s EXCEPT !.state = state, !.pages = IF body.page = 0 THEN @ ELSE body.page]
  BY Zenon DEF Answered
<1>. HIDE DEF state
<1> QED BY <1>1, <1>2, <1>3 DEF Body, Statement

\* What telling leaves.
LEMMA TellIs ==
  ASSUME QueriesTypeOK, NEW q \in Runs, NEW rows, NEW answer, Tell(q, answer, rows)
  PROVE  /\ run' = [run EXCEPT ![q].stage = "over"]
         /\ \E e \in {"none", "ok", "failed"} :
              told' = [told EXCEPT ![q] = [answer |-> answer, rows |-> rows, entry |-> e]]
<1>1. run' = [run EXCEPT ![q].stage = "over"]
  BY DEF Tell, GoOn, QueriesTypeOK, Execution
<1>. DEFINE e == IF run[q].kind # "editor" \/ run[q].total = 0 THEN "none"
                  ELSE IF answer \in {"sql_ok", "py_ok"} THEN "ok" ELSE "failed"
<1>2. e \in {"none", "ok", "failed"}
  OBVIOUS
<1>3. told' = [told EXCEPT ![q] = [answer |-> answer, rows |-> rows, entry |-> e]]
  BY Zenon DEF Tell
<1>. HIDE DEF e
<1> QED BY <1>1, <1>2, <1>3

\* An execution nobody touches stays sound.
LEMMA Untouched ==
  ASSUME NEW p \in Runs, Sound(p), run'[p] = run[p], trino'[p] = trino[p], told'[p] = told[p]
  PROVE  Sound(p)'
BY DEF Sound, Placed, InOrder, UpToDate, Whole

\* The handler ends without a result, whatever the request at hand did to the
\* statement it was about.
LEMMA EndsWithoutResult ==
  ASSUME QueriesInv, NEW q \in Runs, NEW answer \in {"sql_err", "py_ok", "py_err"},
         Tell(q, answer, <<>>), run[q].stage # "over",
         trino' \in [Runs -> [Positions -> Statement]],
         \A p \in Runs : \A i \in Positions :
           p # q \/ i # run[q].at => trino'[p][i] = trino[p][i]
  PROVE  QueriesInv'
<1>. USE DEF QueriesInv
<1>. <<>> \in Seq(Nat)
  OBVIOUS
<1>1. /\ run' = [run EXCEPT ![q].stage = "over"]
      /\ \E e \in {"none", "ok", "failed"} :
           told' = [told EXCEPT ![q] = [answer |-> answer, rows |-> <<>>, entry |-> e]]
  BY TellIs
<1>2. QueriesTypeOK'
  <2>1. run' \in [Runs -> Execution]
    <3>1. run[q] \in Execution
      BY DEF QueriesTypeOK
    <3>2. [run[q] EXCEPT !.stage = "over"] \in Execution
      BY <3>1 DEF Execution, RunStages
    <3> QED BY <1>1, <3>2 DEF QueriesTypeOK
  <2>2. told' \in [Runs -> Verdict]
    BY <1>1 DEF QueriesTypeOK, Verdict
  <2> QED BY <2>1, <2>2 DEF QueriesTypeOK, Execution
<1>3. ASSUME NEW p \in Runs, p # q PROVE Sound(p)'
  <2>1. run'[p] = run[p] /\ told'[p] = told[p]
    BY <1>1, <1>3 DEF QueriesTypeOK, Execution
  <2>2. trino'[p] = trino[p]
    BY <1>3 DEF QueriesTypeOK, Execution
  <2> QED BY <2>1, <2>2, Untouched
<1>4. Sound(q)'
  <2>1. run'[q].stage = "over" /\ run'[q].at = run[q].at /\ told'[q].answer = answer
    BY <1>1 DEF QueriesTypeOK, Execution
  <2>2. InOrder(q)'
    <3>1. \A i \in Positions : i # run[q].at => trino'[q][i] = trino[q][i]
      OBVIOUS
    <3>2. run[q].at \in Nat /\ \A i \in Positions : i \in Nat
      BY DEF QueriesTypeOK, Execution, Positions
    <3>3. InOrder(q)
      BY DEF Sound
    <3> QED BY <2>1, <3>1, <3>2, <3>3 DEF InOrder
  <2> QED BY <2>1, <2>2 DEF Sound, Placed, UpToDate, Whole
<1> QED BY <1>2, <1>3, <1>4

\* Another execution is not touched by a step of q that changes q's entries only.
LEMMA OthersStay ==
  ASSUME QueriesInv, QueriesTypeOK', NEW q \in Runs,
         \A p \in Runs : p # q =>
           run'[p] = run[p] /\ trino'[p] = trino[p] /\ told'[p] = told[p],
         Sound(q)'
  PROVE  QueriesInv'
BY Untouched DEF QueriesInv

-----------------------------------------------------------------------------
(* The steps.                                                              *)

LEMMA AskKeeps == ASSUME QueriesInv, NEW q \in Runs, Ask(q) PROVE QueriesInv'
<1>. USE QueriesAssumption DEF QueriesInv
<1>1. PICK kind \in {"editor", "cell", "explain"}, engine \in {"trino", "python"},
           total \in 0..MaxStatements :
        run' = [run EXCEPT ![q] = [NoRun EXCEPT !.kind = kind, !.engine = engine,
          !.total = total, !.stage = IF engine = "trino" THEN "post" ELSE "spawn"]]
  BY DEF Ask, GoOn
<1>. DEFINE first == IF engine = "trino" THEN "post" ELSE "spawn"
            new == [NoRun EXCEPT !.kind = kind, !.engine = engine, !.total = total,
                                 !.stage = first]
<1>2. /\ run' = [run EXCEPT ![q] = new] /\ trino' = trino /\ told' = told
      /\ run[q].stage = "idle"
  BY <1>1 DEF Ask, IsAt
<1>3. new \in Execution /\ new.at = 1 /\ new.total = total /\ new.stage = first
  <2>1. NoBody \in Body /\ <<>> \in Seq(Nat)
    BY DEF NoBody, Body
  <2>2. NoRun \in Execution /\ NoRun.at = 1
    BY <2>1 DEF NoRun, Execution, RunStages
  <2>3. first \in RunStages
    BY DEF RunStages
  <2>. HIDE DEF first
  <2> QED BY <2>2, <2>3 DEF Execution
<1>. HIDE DEF new
<1>4. QueriesTypeOK'
  BY <1>2, <1>3 DEF QueriesTypeOK
<1>5. Sound(q)'
  <2>1. run'[q] = new
    BY <1>2 DEF QueriesTypeOK, Execution
  <2>2. run[q].at = 1 /\ InOrder(q) /\ Whole(q)
    BY <1>2 DEF Sound, Placed
  <2>3. \A i \in Positions : trino'[q][i].state = "absent"
    BY <1>2, <2>2 DEF InOrder, Positions
  <2>4. told'[q].answer = "none"
    BY <1>2, <2>2 DEF Whole
  <2> QED
    BY <1>2, <1>3, <2>1, <2>3, <2>4 DEF Sound, Placed, InOrder, UpToDate, Whole, Positions
<1> QED BY <1>2, <1>4, <1>5, OthersStay DEF QueriesTypeOK, Execution

LEMMA EndsKeeps ==
  ASSUME QueriesInv, NEW q \in Runs,
         NotRun(q) \/ ReadError(q) \/ Collect(q) \/ TimeOut(q)
  PROVE  QueriesInv'
<1>1. /\ \E answer \in {"sql_err", "py_ok", "py_err"} : Tell(q, answer, <<>>)
      /\ run[q].stage # "over" /\ trino' = trino
  BY DEF NotRun, ReadError, Collect, TimeOut, IsAt, CellOutcome, PythonOutcome
<1>2. trino' \in [Runs -> [Positions -> Statement]]
  <2>1. trino \in [Runs -> [Positions -> Statement]]
    BY DEF QueriesInv, QueriesTypeOK
  <2> QED BY <1>1, <2>1
<1> QED BY <1>1, <1>2, EndsWithoutResult

\* An exchange about the statement at hand: it is answered, or the handler ends.
LEMMA ExchangeKeeps ==
  ASSUME QueriesInv, NEW q \in Runs, NEW s \in Statement,
         NEW round \in Nat, NEW rows \in Seq(Nat), rows = Pages(s.pages),
         run[q].stage \in {"post", "read"}, run[q].at <= run[q].total,
         Exchange(q, s, [run[q] EXCEPT !.round = round, !.rows = rows])
  PROVE  QueriesInv'
<1>. DEFINE n == run[q].at
            r == [run[q] EXCEPT !.round = round, !.rows = rows]
            Arrives(body) == trino' = [trino EXCEPT ![q][n] = Answered(s, body)]
<1>. USE QueriesAssumption DEF QueriesInv
<1>1. n \in Positions /\ n \in Nat /\ run[q].total \in 0..MaxStatements
  BY DEF QueriesTypeOK, Execution, Positions
<1>2. r.at = n
  BY DEF QueriesTypeOK, Execution
<1>3. ASSUME NEW body \in Bodies(s), Arrives(body)
      PROVE  /\ trino' \in [Runs -> [Positions -> Statement]]
             /\ trino'[q][n] = Answered(s, body)
             /\ \A p \in Runs : \A i \in Positions :
                  p # q \/ i # n => trino'[p][i] = trino[p][i]
  BY <1>1, <1>3, AnsweredIs DEF QueriesTypeOK, Execution
<1>4. CASE (trino' = trino \/ \E body \in Bodies(s) : Arrives(body)) /\ Tell(q, "sql_err", <<>>)
  <2>1. /\ trino' \in [Runs -> [Positions -> Statement]]
        /\ \A p \in Runs : \A i \in Positions : p # q \/ i # n => trino'[p][i] = trino[p][i]
    BY <1>3, <1>4 DEF QueriesTypeOK, Execution
  <2> QED BY <1>4, <2>1, EndsWithoutResult
<1>5. ASSUME NEW body \in Bodies(s), Arrives(body), told' = told,
             run' = [run EXCEPT ![q] = [r EXCEPT !.body = body, !.stage = "read"]]
      PROVE  QueriesInv'
  <2>. DEFINE new == [run[q] EXCEPT !.round = round, !.rows = rows, !.body = body,
                                    !.stage = "read"]
  <2>1. run' = [run EXCEPT ![q] = new]
    BY <1>5 DEF QueriesTypeOK, Execution
  <2>2. run[q] \in Execution /\ body \in Body
    BY AnsweredIs DEF QueriesTypeOK
  <2>3. /\ new \in Execution
        /\ new.at = n /\ new.total = run[q].total /\ new.stage = "read"
        /\ new.body = body /\ new.rows = rows
    BY <2>2 DEF Execution, RunStages
  <2>. HIDE DEF new
  <2>4. QueriesTypeOK'
    <3>1. trino' \in [Runs -> [Positions -> Statement]]
      BY <1>3, <1>5
    <3>2. run' \in [Runs -> Execution]
      BY <2>1, <2>3 DEF QueriesTypeOK
    <3> QED BY <1>5, <3>1, <3>2 DEF QueriesTypeOK
  <2>5. run'[q] = new
    BY <2>1 DEF QueriesTypeOK, Execution
  <2>6. Placed(q)'
    BY <2>3, <2>5 DEF Placed
  <2>7. InOrder(q)'
    <3>1. InOrder(q) /\ \A i \in Positions : i \in Nat
      BY DEF Sound, Positions
    <3>2. \A i \in Positions : i # n => trino'[q][i] = trino[q][i]
      BY <1>3, <1>5
    <3> QED BY <1>1, <2>3, <2>5, <3>1, <3>2 DEF InOrder
  <2>8. UpToDate(q)'
    <3>1. s.pages \in Nat /\ s.pages + 1 - 1 = s.pages /\ s.pages + 1 # 0
      BY DEF Statement
    <3>2. trino'[q][run'[q].at] = Answered(s, body)
      BY <1>3, <1>5, <2>3, <2>5
    <3>. DEFINE t == Answered(s, body)
    <3>3. /\ ~body.error /\ ~body.more => t.state = "finished"
          /\ body.page = 0 => t.pages = s.pages
          /\ body.page # 0 => body.page = s.pages + 1 /\ t.pages = s.pages + 1
      BY AnsweredIs
    <3>4. /\ run'[q].body = body /\ run'[q].rows = rows
          /\ trino'[q][run'[q].at] = t
      BY <2>3, <2>5, <3>2
    <3>. HIDE DEF t
    <3>5. /\ body.page = 0 => rows = Pages(t.pages)
          /\ body.page # 0 => body.page = t.pages /\ rows = Pages(t.pages - 1)
      BY <3>1, <3>3
    <3> QED BY <3>3, <3>4, <3>5 DEF UpToDate
  <2>9. Whole(q)'
    BY <1>5, <2>3, <2>5 DEF Sound, Whole
  <2>10. \A p \in Runs : p # q =>
           run'[p] = run[p] /\ trino'[p] = trino[p] /\ told'[p] = told[p]
    BY <1>5, <2>1 DEF QueriesTypeOK, Execution
  <2> QED BY <2>4, <2>6, <2>7, <2>8, <2>9, <2>10, OthersStay DEF Sound
<1> QED BY <1>2, <1>4, <1>5 DEF Exchange, GoOn

LEMMA PostKeeps == ASSUME QueriesInv, NEW q \in Runs, Post(q) PROVE QueriesInv'
<1>. DEFINE s == [NoStatement EXCEPT !.explained = run[q].kind = "explain" /\ run[q].at = 1]
<1>1. s \in Statement /\ s.pages = 0
  BY DEF NoStatement, Statement
<1>. HIDE DEF s
<1>2. run[q].stage = "post" /\ run[q].at <= run[q].total
  BY DEF QueriesInv, Sound, Placed, Post, IsAt, QueriesTypeOK, Execution
<1>3. Exchange(q, s, [run[q] EXCEPT !.round = 1, !.rows = <<>>])
  BY DEF Post, s
<1> QED BY <1>1, <1>2, <1>3, NoPage, ExchangeKeeps

\* The rows collected with the page at hand are all there were so far.
LEMMA RowsSoFar ==
  ASSUME QueriesInv, NEW q \in Runs, run[q].stage = "read"
  PROVE  LET s == trino[q][run[q].at] IN
         s \in Statement /\ Rows(run[q]) = Pages(s.pages) /\ Rows(run[q]) \in Seq(Nat)
<1>. DEFINE s == trino[q][run[q].at]
<1>. USE QueriesAssumption DEF QueriesInv
<1>1. run[q].at \in Positions
  BY DEF QueriesTypeOK, Execution, Positions, Sound, Placed
<1>2. s \in Statement /\ s.pages \in Nat /\ run[q].rows \in Seq(Nat) /\ run[q].body.page \in Nat
  BY <1>1 DEF QueriesTypeOK, Execution, Statement, Body
<1>3. /\ run[q].body.page = 0 => run[q].rows = Pages(s.pages)
      /\ run[q].body.page # 0 =>
           run[q].body.page = s.pages /\ run[q].rows = Pages(s.pages - 1)
  BY DEF Sound, UpToDate
<1>. HIDE DEF s
<1>4. CASE run[q].body.page = 0
  BY <1>2, <1>3, <1>4 DEF Rows, s
<1>5. CASE run[q].body.page # 0
  BY <1>2, <1>3, <1>5, OneMorePage DEF Rows, s
<1> QED BY <1>4, <1>5

LEMMA FetchKeeps == ASSUME QueriesInv, NEW q \in Runs, Fetch(q) PROVE QueriesInv'
<1>. DEFINE s == trino[q][run[q].at]
            r == [run[q] EXCEPT !.round = @ + 1, !.rows = Rows(run[q])]
<1>. USE QueriesAssumption DEF QueriesInv
<1>1. run[q].stage = "read" /\ run[q].at \in Positions /\ run[q].at <= run[q].total
      /\ run[q].round + 1 \in Nat
  BY DEF Fetch, IsAt, QueriesTypeOK, Execution, Positions, Sound, Placed
<1>2. [run[q] EXCEPT !.rows = Rows(run[q]), !.round = @ + 1]
        = [run[q] EXCEPT !.round = run[q].round + 1, !.rows = Rows(run[q])]
      /\ [run[q] EXCEPT !.rows = Rows(run[q]), !.round = @ + 1].at = run[q].at
  BY DEF QueriesTypeOK, Execution
<1>3. s \in Statement /\ Rows(run[q]) = Pages(s.pages) /\ Rows(run[q]) \in Seq(Nat)
  BY <1>1, RowsSoFar
<1>4. CASE Exchange(q, s, [run[q] EXCEPT !.round = run[q].round + 1, !.rows = Rows(run[q])])
  BY <1>1, <1>3, <1>4, ExchangeKeeps
<1>5. CASE /\ \E body \in Bodies(s) : trino' = [trino EXCEPT ![q][run[q].at] = Answered(s, body)]
           /\ Tell(q, "sql_err", <<>>)
  <2>1. PICK body \in Bodies(s) : trino' = [trino EXCEPT ![q][run[q].at] = Answered(s, body)]
    BY <1>5
  <2>2. Answered(s, body) \in Statement
    BY <1>3, AnsweredIs
  <2>3. /\ trino' \in [Runs -> [Positions -> Statement]]
        /\ \A p \in Runs : \A i \in Positions :
             p # q \/ i # run[q].at => trino'[p][i] = trino[p][i]
    BY <1>1, <2>1, <2>2 DEF QueriesTypeOK, Execution
  <2> QED BY <1>1, <1>5, <2>3, EndsWithoutResult
<1> QED BY <1>2, <1>4, <1>5 DEF Fetch

LEMMA ReadLastKeeps == ASSUME QueriesInv, NEW q \in Runs, ReadLast(q) PROVE QueriesInv'
<1>. DEFINE s == trino[q][run[q].at]
<1>. USE QueriesAssumption DEF QueriesInv
<1>1. /\ run[q].stage = "read" /\ run[q].at \in Positions /\ run[q].at <= run[q].total
      /\ run[q].at \in Nat \ {0} /\ run[q].total \in 0..MaxStatements
      /\ trino' = trino /\ s.state = "finished"
  BY DEF ReadLast, IsAt, QueriesTypeOK, Execution, Positions, Sound, Placed, UpToDate
<1>2. Rows(run[q]) = Pages(s.pages) /\ Rows(run[q]) \in Seq(Nat)
  BY <1>1, RowsSoFar
<1>3. InOrder(q)
  BY DEF Sound
<1>4. CASE run[q].at = run[q].total /\ Tell(q, "sql_ok", Rows(run[q]))
  <2>1. /\ run' = [run EXCEPT ![q].stage = "over"]
        /\ \E e \in {"none", "ok", "failed"} :
             told' = [told EXCEPT ![q] =
               [answer |-> "sql_ok", rows |-> Rows(run[q]), entry |-> e]]
    BY <1>4, TellIs
  <2>2. run[q] \in Execution
    BY DEF QueriesTypeOK
  <2>. DEFINE new == [run[q] EXCEPT !.stage = "over"]
  <2>3. /\ new \in Execution
        /\ new.at = run[q].at /\ new.total = run[q].total /\ new.stage = "over"
    BY <2>2 DEF Execution, RunStages
  <2>4. run' = [run EXCEPT ![q] = new]
    BY <2>1
  <2>. HIDE DEF new
  <2>5. QueriesTypeOK'
    <3>1. PICK e \in {"none", "ok", "failed"} : told' = [told EXCEPT ![q] =
                 [answer |-> "sql_ok", rows |-> Rows(run[q]), entry |-> e]]
      BY <2>1
    <3>2. [answer |-> "sql_ok", rows |-> Rows(run[q]), entry |-> e] \in Verdict
      BY <1>2 DEF Verdict
    <3>3. told' \in [Runs -> Verdict]
      BY <3>1, <3>2 DEF QueriesTypeOK
    <3>4. run' \in [Runs -> Execution]
      BY <2>3, <2>4 DEF QueriesTypeOK
    <3> QED BY <1>1, <3>3, <3>4 DEF QueriesTypeOK
  <2>6. run'[q] = new /\ told'[q].answer = "sql_ok" /\ told'[q].rows = Pages(s.pages)
    BY <1>2, <2>1, <2>4 DEF QueriesTypeOK, Execution
  <2>7. \A i \in 1..run[q].total : trino[q][i].state = "finished"
    BY <1>1, <1>3, <1>4 DEF InOrder, Positions
  <2>8. Sound(q)'
    BY <1>1, <1>3, <1>4, <2>3, <2>6, <2>7 DEF Sound, Placed, InOrder, UpToDate, Whole
  <2>9. \A p \in Runs : p # q =>
           run'[p] = run[p] /\ trino'[p] = trino[p] /\ told'[p] = told[p]
    BY <1>1, <2>1, <2>4 DEF QueriesTypeOK, Execution
  <2> QED BY <2>5, <2>8, <2>9, OthersStay
<1>5. CASE /\ run[q].at # run[q].total /\ told' = told
           /\ run' = [run EXCEPT ![q] = [run[q] EXCEPT !.at = @ + 1, !.stage = "post"]]
  <2>. DEFINE new == [run[q] EXCEPT !.at = @ + 1, !.stage = "post"]
  <2>1. run[q] \in Execution
    BY DEF QueriesTypeOK
  <2>2. /\ new \in Execution
        /\ new.at = run[q].at + 1 /\ new.total = run[q].total /\ new.stage = "post"
    <3>1. run[q].at + 1 \in Nat \ {0} /\ "post" \in RunStages
      BY <1>1 DEF RunStages
    <3>. DEFINE next == run[q].at + 1
    <3>2. new = [run[q] EXCEPT !.at = next, !.stage = "post"]
      OBVIOUS
    <3>. HIDE DEF next, new
    <3>3. next \in Nat \ {0}
      BY <3>1 DEF next
    <3>4. /\ new \in Execution
          /\ new.at = next /\ new.total = run[q].total /\ new.stage = "post"
      BY <2>1, <3>1, <3>2, <3>3 DEF Execution
    <3> QED BY <3>4 DEF next
  <2>. HIDE DEF new
  <2>3. run' = [run EXCEPT ![q] = new]
    BY <1>5 DEF new
  <2>4. QueriesTypeOK' /\ run'[q] = new
    BY <1>1, <1>5, <2>2, <2>3 DEF QueriesTypeOK
  <2>5. InOrder(q)'
    BY <1>1, <1>3, <2>2, <2>4 DEF InOrder, Positions
  <2>6. Sound(q)'
    BY <1>1, <1>5, <2>2, <2>4, <2>5 DEF Sound, Placed, UpToDate, Whole
  <2>7. \A p \in Runs : p # q =>
           run'[p] = run[p] /\ trino'[p] = trino[p] /\ told'[p] = told[p]
    BY <1>1, <1>5, <2>3 DEF QueriesTypeOK, Execution
  <2> QED BY <2>4, <2>6, <2>7, OthersStay
<1> QED BY <1>4, <1>5 DEF ReadLast, GoOn

\* A step that only moves an execution on to a stage in which nothing is sent.
LEMMA MovesKeep ==
  ASSUME QueriesInv, NEW q \in Runs, NEW stage \in {"wait", "over"},
         run' = [run EXCEPT ![q] = [run[q] EXCEPT !.stage = stage]],
         run[q].stage # "over", stage = "wait" => run[q].stage = "spawn",
         trino' = trino, told' = told
  PROVE  QueriesInv'
<1>. DEFINE new == [run[q] EXCEPT !.stage = stage]
<1>. USE DEF QueriesInv
<1>1. run[q] \in Execution
  BY DEF QueriesTypeOK
<1>2. /\ new \in Execution
      /\ new.at = run[q].at /\ new.total = run[q].total /\ new.stage = stage
  BY <1>1 DEF Execution, RunStages
<1>. HIDE DEF new
<1>3. run' = [run EXCEPT ![q] = new]
  BY DEF new
<1>4. QueriesTypeOK' /\ run'[q] = new
  BY <1>2, <1>3 DEF QueriesTypeOK
<1>5. Sound(q)'
  BY <1>2, <1>4 DEF Sound, Placed, InOrder, UpToDate, Whole
<1>6. \A p \in Runs : p # q =>
        run'[p] = run[p] /\ trino'[p] = trino[p] /\ told'[p] = told[p]
  BY <1>3 DEF QueriesTypeOK, Execution
<1> QED BY <1>4, <1>5, <1>6, OthersStay

LEMMA StandStill ==
  ASSUME QueriesInv, UNCHANGED <<run, trino, told>> PROVE QueriesInv'
BY Untouched DEF QueriesInv, QueriesTypeOK, Execution

-----------------------------------------------------------------------------

LEMMA QueriesStart == ASSUME QueriesInit PROVE QueriesInv
<1>1. NoBody \in Body /\ <<>> \in Seq(Nat) /\ NoStatement \in Statement
      /\ NoStatement.state = "absent"
  BY DEF NoBody, Body, NoStatement, Statement
<1>2. QueriesTypeOK
  BY <1>1, QueriesAssumption
     DEF QueriesInit, QueriesTypeOK, Execution, NoRun, NothingTold, Verdict, RunStages, Positions
<1>3. ASSUME NEW q \in Runs PROVE Sound(q)
  BY <1>1, <1>3 DEF QueriesInit, NoRun, NothingTold, Sound, Placed, InOrder, UpToDate, Whole,
     Positions
<1> QED BY <1>2, <1>3 DEF QueriesInv

LEMMA StepKeepsQueries == QueriesInv /\ [QueriesNext]_queryVars => QueriesInv'
<1>. SUFFICES ASSUME QueriesInv, [QueriesNext]_queryVars PROVE QueriesInv'
  OBVIOUS
<1>1. ASSUME NEW q \in Runs, Spawn(q) PROVE QueriesInv'
  BY <1>1, MovesKeep DEF Spawn, IsAt, GoOn
<1>2. ASSUME NEW q \in Runs, HangUp(q) PROVE QueriesInv'
  BY <1>2, MovesKeep DEF HangUp, GoOn
<1>3. ASSUME NEW q \in Runs, ChildWorks(q) \/ ChildEnds(q) PROVE QueriesInv'
  BY <1>3, StandStill DEF ChildWorks, ChildEnds
<1>4. CASE UNCHANGED queryVars
  BY <1>4, StandStill DEF queryVars
<1> QED
  BY <1>1, <1>2, <1>3, <1>4, AskKeeps, EndsKeeps, PostKeeps, FetchKeeps, ReadLastKeeps
     DEF QueriesNext, AllOver

\* The executions, the coordinator's statements and the answers keep their
\* types, for any number of executions, statements and rounds.
THEOREM QueriesTypeCorrect == QueriesSpec => []QueriesTypeOK
<1>1. QueriesInv => QueriesTypeOK
  BY DEF QueriesInv
<1> QED BY QueriesStart, StepKeepsQueries, <1>1, PTL DEF QueriesSpec

\* No statement of a buffer reaches the coordinator before all above it have
\* finished there, whatever requests and answers get lost, for buffers of any
\* length.
THEOREM InOrderAlways == QueriesSpec => []StatementsRunInOrder
<1>1. QueriesInv => StatementsRunInOrder
  <2>. SUFFICES ASSUME QueriesInv, NEW q \in Runs, NEW i \in Positions, NEW j \in Positions,
                       i < j, trino[q][j].state # "absent"
                PROVE  trino[q][i].state = "finished"
    BY DEF StatementsRunInOrder, Positions
  <2>1. run[q].at \in Nat /\ i \in Nat /\ j \in Nat /\ InOrder(q)
    BY DEF QueriesInv, QueriesTypeOK, Execution, Positions, Sound
  <2> QED BY <2>1 DEF InOrder
<1> QED BY QueriesStart, StepKeepsQueries, <1>1, PTL DEF QueriesSpec

\* What is shown as a result comes from a buffer whose statements have all
\* finished, and is every page of the last one in order, for any number of
\* pages and rounds.
THEOREM WholeAlways == QueriesSpec => []ResultsAreWhole
<1>1. QueriesInv => ResultsAreWhole
  BY DEF QueriesInv, Sound, Whole, ResultsAreWhole, Pages
<1> QED BY QueriesStart, StepKeepsQueries, <1>1, PTL DEF QueriesSpec

-----------------------------------------------------------------------------
(* StudioHistory.                                                          *)

Row == [revision : Nat, entries : Seq(Queries)]
HistoryTypeOK ==
  /\ row \in [Buckets -> Row]
  /\ query \in [Queries -> [stage : {"running", "loaded", "done"},
                         bucket : Buckets \cup {Waiting.bucket},
                         loaded : Row]]
  /\ saved \in [Buckets -> Seq(Queries)]

\* What a query has loaded is the row of its bucket at that revision: none at
\* revision 0, and if the revision is still the row's, the row itself.
LoadedRowsAreTrue == \A q \in Queries :
  LET loaded == query[q].loaded IN
  query[q].stage = "loaded" =>
    /\ query[q].bucket \in Buckets
    /\ loaded.revision <= row[query[q].bucket].revision
    /\ loaded.revision = 0 => loaded.entries = <<>>
    /\ loaded.revision = row[query[q].bucket].revision => loaded = row[query[q].bucket]

NoRowIsEmpty == \A b \in Buckets : row[b].revision = 0 => row[b] = NoRow

HistoryInv == HistoryTypeOK /\ LoadedRowsAreTrue /\ NoRowIsEmpty /\ KeepsTheNewest

LEMMA TruncateIs ==
  ASSUME NEW S, NEW s \in Seq(S), NEW n \in Nat
  PROVE  /\ Truncate(s, n) \in Seq(S)
         /\ Len(Truncate(s, n)) = IF Len(s) < n THEN Len(s) ELSE n
         /\ \A i \in 1..Len(Truncate(s, n)) : Truncate(s, n)[i] = s[i]
<1>. DEFINE m == IF Len(s) < n THEN Len(s) ELSE n
<1>1. m \in Nat /\ m <= Len(s) /\ Len(s) \in Nat
  OBVIOUS
<1>. HIDE DEF m
<1>2. /\ SubSeq(s, 1, m) \in Seq(S) /\ Len(SubSeq(s, 1, m)) = m
      /\ \A i \in 1..m : SubSeq(s, 1, m)[i] = s[i]
  BY <1>1, SubSeqProperties
<1>3. Truncate(s, n) = SubSeq(s, 1, m)
  BY DEF Truncate, m
<1> QED BY <1>2, <1>3 DEF m

\* Only the first n - 1 entries of a list matter to what is kept in front of it.
LEMMA PrependToTheNewest ==
  ASSUME NEW S, NEW s \in Seq(S), NEW e \in S, NEW n \in Nat \ {0}
  PROVE  Truncate(<<e>> \o Truncate(s, n), n) = Truncate(<<e>> \o s, n)
<1>. DEFINE t == Truncate(s, n)  whole == <<e>> \o s  part == <<e>> \o t
<1>1. /\ t \in Seq(S) /\ Len(t) = (IF Len(s) < n THEN Len(s) ELSE n)
      /\ \A i \in 1..Len(t) : t[i] = s[i]
  BY TruncateIs
<1>2. <<e>> \in Seq(S) /\ Len(<<e>>) = 1 /\ Len(s) \in Nat
  OBVIOUS
<1>. HIDE DEF t
<1>3. /\ whole \in Seq(S) /\ Len(whole) = 1 + Len(s)
      /\ \A i \in 1..Len(whole) : whole[i] = IF i = 1 THEN e ELSE s[i - 1]
  BY <1>2, ConcatProperties
<1>4. /\ part \in Seq(S) /\ Len(part) = 1 + Len(t)
      /\ \A i \in 1..Len(part) : part[i] = IF i = 1 THEN e ELSE t[i - 1]
  BY <1>1, <1>2, ConcatProperties
<1>. HIDE DEF whole, part
<1>5. /\ Truncate(whole, n) \in Seq(S) /\ Len(Truncate(whole, n)) = (IF Len(whole) < n THEN Len(whole) ELSE n)
      /\ \A i \in 1..Len(Truncate(whole, n)) : Truncate(whole, n)[i] = whole[i]
  BY <1>3, TruncateIs
<1>6. /\ Truncate(part, n) \in Seq(S) /\ Len(Truncate(part, n)) = (IF Len(part) < n THEN Len(part) ELSE n)
      /\ \A i \in 1..Len(Truncate(part, n)) : Truncate(part, n)[i] = part[i]
  BY <1>4, TruncateIs
<1>7. Len(Truncate(part, n)) = Len(Truncate(whole, n))
  BY <1>1, <1>2, <1>3, <1>4, <1>5, <1>6
<1>8. ASSUME NEW i \in 1..Len(Truncate(part, n))
      PROVE  Truncate(part, n)[i] = Truncate(whole, n)[i]
  <2>1. i \in 1..Len(part) /\ i \in 1..Len(whole) /\ (i # 1 => i - 1 \in 1..Len(t))
    BY <1>1, <1>2, <1>3, <1>4, <1>5, <1>6
  <2>2. part[i] = whole[i]
    BY <1>1, <1>3, <1>4, <2>1
  <2> QED BY <1>5, <1>6, <1>7, <2>2
<1>9. Truncate(part, n) = Truncate(whole, n)
  BY <1>5, <1>6, <1>7, <1>8, SeqEqual
<1> QED BY <1>9 DEF part, whole, t

LEMMA NothingTruncated == Truncate(<<>>, STUDIO_HISTORY_CAP) = <<>>
<1>1. <<>> \in Seq({}) /\ Len(<<>>) = 0
  OBVIOUS
<1>. DEFINE cut == Truncate(<<>>, STUDIO_HISTORY_CAP)
<1>2. STUDIO_HISTORY_CAP \in Nat /\ 0 < STUDIO_HISTORY_CAP
  BY HistoryAssumption
<1>3. /\ cut \in Seq({})
      /\ Len(cut) = IF Len(<<>>) < STUDIO_HISTORY_CAP THEN Len(<<>>) ELSE STUDIO_HISTORY_CAP
  BY <1>1, <1>2, TruncateIs, Zenon
<1>. HIDE DEF cut
<1>4. Len(cut) = 0
  BY <1>1, <1>2, <1>3
<1>5. cut = <<>>
  BY <1>3, <1>4, EmptySeq
<1> QED BY <1>5 DEF cut

LEMMA HistoryStarts == ASSUME HistoryInit PROVE HistoryInv
<1>. USE DEF HistoryInit
<1>1. NoRow \in Row /\ <<>> \in Seq(Queries)
  BY DEF NoRow, Row
<1>2. HistoryTypeOK
  BY <1>1 DEF HistoryTypeOK, Waiting
<1>3. LoadedRowsAreTrue
  BY DEF LoadedRowsAreTrue, Waiting
<1>4. NoRowIsEmpty /\ KeepsTheNewest
  BY NothingTruncated DEF NoRowIsEmpty, KeepsTheNewest, NoRow
<1> QED BY <1>2, <1>3, <1>4 DEF HistoryInv

LEMMA LoadKeepsHistory ==
  ASSUME HistoryInv, NEW q \in Queries, LoadHistory(q) PROVE HistoryInv'
<1>. USE DEF HistoryInv
<1>1. PICK b \in Buckets : \E loaded \in {row[b], NoRow} :
        query' = [query EXCEPT ![q] = [stage |-> "loaded", bucket |-> b, loaded |-> loaded]]
  BY DEF LoadHistory
<1>2. PICK loaded \in {row[b], NoRow} :
        query' = [query EXCEPT ![q] = [stage |-> "loaded", bucket |-> b, loaded |-> loaded]]
  BY <1>1
<1>3. UNCHANGED <<row, saved>>
  BY DEF LoadHistory
<1>4. /\ NoRow \in Row /\ NoRow.revision = 0 /\ NoRow.entries = <<>> /\ loaded \in Row
      /\ row[b] \in Row
  <2>1. row[b] \in Row
    BY DEF HistoryTypeOK
  <2>2. NoRow \in Row /\ NoRow.revision = 0 /\ NoRow.entries = <<>>
    BY DEF NoRow, Row
  <2> QED BY <2>1, <2>2
<1>5. HistoryTypeOK'
  BY <1>2, <1>3, <1>4 DEF HistoryTypeOK
<1>6. LoadedRowsAreTrue'
  <2>1. loaded.revision <= row[b].revision
    BY <1>4 DEF Row
  <2>2. loaded.revision = 0 => loaded.entries = <<>>
    BY <1>4 DEF NoRowIsEmpty
  <2>3. loaded.revision = row[b].revision => loaded = row[b]
    BY <1>4 DEF NoRowIsEmpty
  <2>4. query'[q] = [stage |-> "loaded", bucket |-> b, loaded |-> loaded]
    BY <1>2 DEF HistoryTypeOK
  <2>5. \A p \in Queries \ {q} : query'[p] = query[p]
    BY <1>2 DEF HistoryTypeOK
  <2> QED BY <1>3, <2>1, <2>2, <2>3, <2>4, <2>5 DEF LoadedRowsAreTrue
<1>7. NoRowIsEmpty' /\ KeepsTheNewest'
  BY <1>3 DEF NoRowIsEmpty, KeepsTheNewest
<1> QED BY <1>5, <1>6, <1>7

LEMMA SaveKeepsHistory ==
  ASSUME HistoryInv, NEW q \in Queries, SaveHistory(q) PROVE HistoryInv'
<1>. DEFINE b == query[q].bucket  loaded == query[q].loaded
            entries == Prepended(q, loaded.entries)
<1>. USE DEF HistoryInv
<1>1. query[q].stage = "loaded" /\ query' = [query EXCEPT ![q].stage = "done"]
  BY DEF SaveHistory
<1>2. /\ query' \in [Queries -> [stage : {"running", "loaded", "done"},
                         bucket : Buckets \cup {Waiting.bucket},
                    loaded : Row]]
      /\ query'[q].stage = "done" /\ \A p \in Queries \ {q} : query'[p] = query[p]
  BY <1>1 DEF HistoryTypeOK
<1>3. b \in Buckets /\ loaded \in Row /\ row[b] \in Row /\ saved[b] \in Seq(Queries)
  BY <1>1 DEF LoadedRowsAreTrue, HistoryTypeOK
<1>4. CASE UNCHANGED <<row, saved>>
  <2>1. HistoryTypeOK' /\ NoRowIsEmpty' /\ KeepsTheNewest'
    BY <1>2, <1>4 DEF HistoryTypeOK, NoRowIsEmpty, KeepsTheNewest
  <2>2. LoadedRowsAreTrue'
    BY <1>2, <1>4 DEF LoadedRowsAreTrue
  <2> QED BY <2>1, <2>2
<1>5. CASE /\ row[b].revision = loaded.revision
           /\ row' = [row EXCEPT ![b] = [revision |-> row[b].revision + 1, entries |-> entries]]
           /\ saved' = [saved EXCEPT ![b] = <<q>> \o saved[b]]
  <2>1. loaded = row[b] /\ loaded.entries = Truncate(saved[b], STUDIO_HISTORY_CAP)
    BY <1>1, <1>3, <1>5 DEF LoadedRowsAreTrue, KeepsTheNewest
  <2>2. <<q>> \o saved[b] \in Seq(Queries)
    BY <1>3, ConcatProperties
  <2>3. entries = Truncate(<<q>> \o saved[b], STUDIO_HISTORY_CAP)
    BY <1>3, <2>1, PrependToTheNewest, HistoryAssumption DEF Prepended
  <2>. HIDE DEF entries
  <2>4. entries \in Seq(Queries)
    <3>1. ASSUME NEW s \in Seq(Queries) PROVE Truncate(s, STUDIO_HISTORY_CAP) \in Seq(Queries)
      BY TruncateIs, HistoryAssumption
    <3> QED BY <2>2, <2>3, <3>1
  <2>. DEFINE new == [revision |-> row[b].revision + 1, entries |-> entries]
  <2>5. new \in Row /\ new.revision = row[b].revision + 1 /\ new.entries = entries
    <3>1. row[b].revision \in Nat
      BY <1>3 DEF Row
    <3>2. row[b].revision + 1 \in Nat
      BY <3>1
    <3>. HIDE DEF b
    <3> QED BY <2>4, <3>2 DEF Row
  <2>. HIDE DEF new
  <2>6. /\ row' \in [Buckets -> Row] /\ row'[b] = new
        /\ \A a \in Buckets \ {b} : row'[a] = row[a]
    BY <1>3, <1>5, <2>5 DEF HistoryTypeOK, new
  <2>7. /\ saved' \in [Buckets -> Seq(Queries)] /\ saved'[b] = <<q>> \o saved[b]
        /\ \A a \in Buckets \ {b} : saved'[a] = saved[a]
    BY <1>3, <1>5, <2>2 DEF HistoryTypeOK
  <2>8. HistoryTypeOK'
    BY <1>2, <2>6, <2>7 DEF HistoryTypeOK
  <2>9. LoadedRowsAreTrue'
    <3>1. row[b].revision \in Nat /\ new.revision # 0
      BY <1>3, <2>5 DEF Row
    <3>2. ASSUME NEW p \in Queries, query'[p].stage = "loaded"
          PROVE  LET mine == query'[p].loaded  a == query'[p].bucket IN
                 /\ a \in Buckets
                 /\ mine.revision <= row'[a].revision
                 /\ mine.revision = 0 => mine.entries = <<>>
                 /\ mine.revision = row'[a].revision => mine = row'[a]
      <4>1. p # q /\ query'[p] = query[p] /\ query[p].stage = "loaded"
        BY <1>2, <3>2
      <4>2. LET mine == query[p].loaded  a == query[p].bucket IN
            /\ a \in Buckets
            /\ mine.revision <= row[a].revision
            /\ mine.revision = 0 => mine.entries = <<>>
            /\ mine.revision = row[a].revision => mine = row[a]
        BY <4>1 DEF LoadedRowsAreTrue
      <4>3. query[p].loaded.revision \in Nat
        BY DEF HistoryTypeOK, Row
      <4>4. CASE query[p].bucket = b
        BY <2>5, <2>6, <3>1, <4>1, <4>2, <4>3, <4>4
      <4>5. CASE query[p].bucket # b
        BY <2>6, <4>1, <4>2, <4>5
      <4> QED BY <4>4, <4>5
    <3> QED BY <3>2 DEF LoadedRowsAreTrue
  <2>10. NoRowIsEmpty'
    <3>1. new.revision # 0
      BY <1>3, <2>5 DEF Row
    <3> QED BY <2>6, <3>1 DEF NoRowIsEmpty
  <2>11. KeepsTheNewest'
    BY <2>3, <2>5, <2>6, <2>7 DEF KeepsTheNewest
  <2> QED BY <2>8, <2>9, <2>10, <2>11
<1> QED BY <1>4, <1>5 DEF SaveHistory

LEMMA StepKeepsHistory ==
  ASSUME HistoryInv, [HistoryNext]_historyVars PROVE HistoryInv'
<1>1. CASE HistoryDone \/ UNCHANGED historyVars
  BY <1>1 DEF HistoryDone, historyVars, HistoryInv, HistoryTypeOK, LoadedRowsAreTrue,
              NoRowIsEmpty, KeepsTheNewest
<1> QED BY <1>1, LoadKeepsHistory, SaveKeepsHistory DEF HistoryNext

\* However queries overlap and whichever saves are refused, a bucket holds
\* exactly the newest entries whose save succeeded, for any cap.
THEOREM KeepsTheNewestAlways == HistorySpec => []KeepsTheNewest
<1>1. HistoryInit => HistoryInv
  BY HistoryStarts
<1>2. HistoryInv /\ [HistoryNext]_historyVars => HistoryInv'
  BY StepKeepsHistory
<1>3. HistoryInv => KeepsTheNewest
  BY DEF HistoryInv
<1> QED BY <1>1, <1>2, <1>3, PTL DEF HistorySpec

-----------------------------------------------------------------------------
(* SqlBuffer.  Induction over the numbers, by sets of them.                *)

LEMMA Least ==
  ASSUME NEW S, S \subseteq Nat, S # {}
  PROVE  \E n \in S : \A m \in S : n <= m
<1> DEFINE Below(n) == 0..(n - 1)
           T == {Below(n) : n \in S}
           R == StrictSubsetOrdering(Nat)
<1>1. IsWellFoundedOn(R, FiniteSubsetsOf(Nat))
  BY FS_StrictSubsetOrderingWellFounded
<1>2. T \subseteq FiniteSubsetsOf(Nat) /\ T # {}
  <2>1. \A n \in S : Below(n) \subseteq Nat /\ IsFiniteSet(Below(n))
    BY FS_Interval
  <2> QED
    BY <2>1 DEF FiniteSubsetsOf
<1>3. \A x, y \in SUBSET Nat : x \subseteq y /\ x # y => <<x, y>> \in R
  BY DEF StrictSubsetOrdering
<1>4. PICK x \in T : \A y \in T : ~ (<<y, x>> \in R)
  <2> HIDE DEF T, R
  <2> QED
    BY <1>1, <1>2, WFMin
<1>5. PICK n \in S : x = Below(n)
  BY <1>4
<1> HIDE DEF R
<1>6. ASSUME NEW m \in S, m < n PROVE FALSE
  <2>1. m \in Nat /\ n \in Nat
    OBVIOUS
  <2>2. Below(m) \subseteq Below(n)
    BY <1>6, <2>1
  <2>3. m \in Below(n) /\ m \notin Below(m)
    BY <1>6, <2>1
  <2>4. Below(m) \in SUBSET Nat /\ Below(n) \in SUBSET Nat
    BY <2>1
  <2>5. <<Below(m), Below(n)>> \in R
    <3> HIDE DEF Below
    <3> QED
      BY <1>3, <2>2, <2>3, <2>4
  <2> QED
    BY <1>4, <1>5, <2>5
<1> QED
  BY <1>6

LEMMA Induction ==
  ASSUME NEW S, 0 \in S, \A n \in Nat : n \in S => n + 1 \in S
  PROVE  Nat \subseteq S
<1> SUFFICES ASSUME Nat \ S # {} PROVE FALSE
  OBVIOUS
<1>1. PICK n \in Nat \ S : \A m \in Nat \ S : n <= m
  BY Least
<1>2. n # 0 /\ n - 1 \in Nat
  BY <1>1
<1>3. n - 1 \in S
  BY <1>1, <1>2
<1> QED
  BY <1>1, <1>2, <1>3

LEMMA StrongInduction ==
  ASSUME NEW S, \A n \in Nat : (\A m \in 0..(n - 1) : m \in S) => n \in S
  PROVE  Nat \subseteq S
<1> SUFFICES ASSUME Nat \ S # {} PROVE FALSE
  OBVIOUS
<1>1. PICK n \in Nat \ S : \A m \in Nat \ S : n <= m
  BY Least
<1>2. \A m \in 0..(n - 1) : m \in S
  BY <1>1
<1> QED
  BY <1>1, <1>2

(* The rounds of a loop are a function.                                    *)
MayLoop(D, d, next, N) == d \in D /\ next \in [D -> D] /\ N \in Nat

Loops(f, D, d, next, N) ==
  f \in [0..N -> D] /\ \A n \in 0..N : f[n] = IF n = 0 THEN d ELSE next[f[n - 1]]

LEMMA Rounds ==
  ASSUME NEW D, NEW d, NEW next, NEW N, MayLoop(D, d, next, N)
  PROVE  \E f : Loops(f, D, d, next, N)
<1>0. d \in D /\ next \in [D -> D] /\ N \in Nat
  BY DEF MayLoop
<1> DEFINE Is(f, m) == \A n \in 0..m : f[n] = IF n = 0 THEN d ELSE next[f[n - 1]]
           S == {m \in Nat : \E f \in [0..m -> D] : Is(f, m)}
<1>1. 0 \in S
  <2>1. [n \in 0..0 |-> d] \in [0..0 -> D] /\ Is([n \in 0..0 |-> d], 0)
    BY <1>0
  <2> QED
    BY <2>1
<1>2. ASSUME NEW m \in Nat, m \in S PROVE m + 1 \in S
  <2>1. PICK f \in [0..m -> D] : Is(f, m)
    BY <1>2
  <2> DEFINE g == [n \in 0..(m + 1) |-> IF n = m + 1 THEN next[f[m]] ELSE f[n]]
  <2>2. g \in [0..(m + 1) -> D]
    BY <1>0
  <2>3. Is(g, m + 1)
    <3> SUFFICES ASSUME NEW n \in 0..(m + 1)
                 PROVE  g[n] = IF n = 0 THEN d ELSE next[g[n - 1]]
      OBVIOUS
    <3>1. CASE n = m + 1
      BY <3>1
    <3>2. CASE n \in 0..m
      BY <2>1, <3>2
    <3> QED
      BY <3>1, <3>2
  <2> HIDE DEF g, Is
  <2> QED
    BY <2>2, <2>3
<1> HIDE DEF S
<1>3. N \in S
  BY <1>0, <1>1, <1>2, Induction
<1> QED
  BY <1>3 DEF S, Loops

-----------------------------------------------------------------------------
(* The lexemes of a buffer, by the places they stand at.                   *)

Text == Seq(Chars)
Quotes == {"'", "\""}

LEMMA Part ==
  ASSUME NEW s \in Text, NEW a \in Nat, NEW b \in Nat, 1 <= a, a <= b + 1, b <= Len(s)
  PROVE  /\ SubSeq(s, a, b) \in Text
         /\ Len(SubSeq(s, a, b)) = b - a + 1
         /\ DOMAIN SubSeq(s, a, b) = 1..(b - a + 1)
         /\ \A n \in 1..(b - a + 1) : SubSeq(s, a, b)[n] = s[a + n - 1]
  BY SubSeqProperties DEF Text

(* How many q there are from i to k.                                       *)
LEMMA CountStep ==
  ASSUME NEW s \in Text, NEW q, NEW i \in Nat, NEW k \in Nat, 1 <= i, i <= k + 1, k < Len(s)
  PROVE  /\ Count(SubSeq(s, i, k), q) \in Nat
         /\ Count(SubSeq(s, i, k + 1), q)
              = Count(SubSeq(s, i, k), q) + (IF s[k + 1] = q THEN 1 ELSE 0)
<1> DEFINE A == {n \in 1..(k - i + 1) : s[i + n - 1] = q}
           B == {n \in 1..(k - i + 2) : s[i + n - 1] = q}
<1>1. Count(SubSeq(s, i, k), q) = Cardinality(A)
  <2>1. {n \in DOMAIN SubSeq(s, i, k) : SubSeq(s, i, k)[n] = q} = A
    BY Part
  <2> QED
    BY <2>1 DEF Count
<1>2. Count(SubSeq(s, i, k + 1), q) = Cardinality(B)
  <2>1. {n \in DOMAIN SubSeq(s, i, k + 1) : SubSeq(s, i, k + 1)[n] = q} = B
    BY Part
  <2> QED
    BY <2>1 DEF Count
<1>3. IsFiniteSet(A)
  <2>1. IsFiniteSet(1..(k - i + 1))
    BY FS_Interval
  <2> QED
    BY <2>1, FS_Subset
<1>4. Cardinality(A) \in Nat
  BY <1>3, FS_CardinalityType
<1>5. CASE s[k + 1] = q
  <2>1. B = A \cup {k - i + 2} /\ k - i + 2 \notin A
    BY <1>5
  <2>2. Cardinality(B) = Cardinality(A) + 1
    BY <1>3, <2>1, FS_AddElement
  <2> QED
    BY <1>1, <1>2, <1>4, <1>5, <2>2
<1>6. CASE s[k + 1] # q
  <2>1. B = A
    BY <1>6
  <2>2. Cardinality(B) = Cardinality(A)
    BY <2>1
  <2> HIDE DEF A, B
  <2> QED
    BY <1>1, <1>2, <1>4, <1>6, <2>2
<1> QED
  BY <1>5, <1>6

LEMMA CountNone ==
  ASSUME NEW s \in Text, NEW q, NEW i \in Nat, 1 <= i, i <= Len(s) + 1
  PROVE  Count(SubSeq(s, i, i - 1), q) = 0
<1>1. {n \in DOMAIN SubSeq(s, i, i - 1) : SubSeq(s, i, i - 1)[n] = q} = {}
  BY Part
<1> QED
  BY <1>1, FS_EmptySet DEF Count

(* Lexeme, of the characters from i to before j.                           *)
Even(s, i, k) == Count(SubSeq(s, i, k), s[i]) % 2 = 0

Dashes(s, i) == s[i] = "-" /\ s[i + 1] = "-"
Opens(s, i) == s[i] = "/" /\ s[i + 1] = "*"
Closes(s, i) == s[i] = "*" /\ s[i + 1] = "/"

LineFrom(s, i, j) == i + 2 <= j /\ Dashes(s, i) /\ \A k \in i..(j - 2) : s[k] # NL
BlockFrom(s, i, j) == i + 2 <= j /\ Opens(s, i) /\ \A k \in (i + 2)..(j - 3) : ~Closes(s, k)
QuotedFrom(s, i, j) ==
  s[i] \in Quotes /\ \A k \in i..(j - 2) : Even(s, i, k) => s[k] = s[i] /\ s[k + 1] = s[i]
LexemeFrom(s, i, j) ==
  j = i + 1 \/ LineFrom(s, i, j) \/ BlockFrom(s, i, j) \/ QuotedFrom(s, i, j)

LEMMA LexemesFrom ==
  ASSUME NEW s \in Text, NEW i \in Nat, NEW j \in Nat, 1 <= i, i < j, j <= Len(s) + 1
  PROVE  LET t == SubSeq(s, i, j - 1) IN
         /\ t \in Text /\ Len(t) = j - i /\ t[1] = s[i]
         /\ LineComment(t) <=> LineFrom(s, i, j)
         /\ BlockComment(t) <=> BlockFrom(s, i, j)
         /\ Quoted(t) <=> QuotedFrom(s, i, j)
         /\ Lexeme(t) <=> LexemeFrom(s, i, j)
<1> DEFINE t == SubSeq(s, i, j - 1)
<1>1. /\ t \in Text /\ Len(t) = j - i
      /\ \A n \in 1..(j - i) : t[n] = s[i + n - 1]
  <2>1. j - 1 \in Nat /\ i <= (j - 1) + 1 /\ j - 1 <= Len(s) /\ (j - 1) - i + 1 = j - i
    BY DEF Text
  <2>2. /\ t \in Text /\ Len(t) = (j - 1) - i + 1
        /\ \A n \in 1..((j - 1) - i + 1) : t[n] = s[i + n - 1]
    BY <2>1, Part
  <2> HIDE DEF t
  <2> QED
    BY <2>1, <2>2
<1>2. t[1] = s[i]
  BY <1>1
<1>3. \A n \in 1..(j - i) : SubSeq(t, 1, n) = SubSeq(s, i, i + n - 1)
  <2> TAKE n \in 1..(j - i)
  <2>1. SubSeq(t, 1, n) \in Text /\ Len(SubSeq(t, 1, n)) = n
        /\ \A m \in 1..n : SubSeq(t, 1, n)[m] = t[m]
    <3>1. t \in Text /\ n \in Nat /\ 1 <= n + 1 /\ n <= Len(t) /\ n - 1 + 1 = n
      BY <1>1
    <3>2. \A m \in 1..n : 1 + m - 1 = m
      OBVIOUS
    <3> HIDE DEF t
    <3> QED
      BY <3>1, <3>2, Part
  <2>2. SubSeq(s, i, i + n - 1) \in Text /\ Len(SubSeq(s, i, i + n - 1)) = n
        /\ \A m \in 1..n : SubSeq(s, i, i + n - 1)[m] = s[i + m - 1]
    <3>1. i + n - 1 \in Nat /\ i <= (i + n - 1) + 1 /\ i + n - 1 <= Len(s)
          /\ (i + n - 1) - i + 1 = n
      BY DEF Text
    <3> QED
      BY <3>1, Part
  <2> HIDE DEF t
  <2>3. \A m \in 1..n : SubSeq(t, 1, n)[m] = SubSeq(s, i, i + n - 1)[m]
    BY <1>1, <2>1, <2>2
  <2> QED
    BY <2>1, <2>2, <2>3, SeqEqual DEF Text
<1> HIDE DEF t
<1>4. LineComment(t) <=> LineFrom(s, i, j)
  <2>1. Begins(t, "-", "-") <=> i + 2 <= j /\ Dashes(s, i)
    BY <1>1 DEF Begins, Dashes
  <2>2. ASSUME i + 2 <= j
        PROVE  (\A n \in 1..(Len(t) - 1) : t[n] # NL) <=> (\A k \in i..(j - 2) : s[k] # NL)
    <3>1. ASSUME \A n \in 1..(Len(t) - 1) : t[n] # NL, NEW k \in i..(j - 2)
          PROVE  s[k] # NL
      <4>1. k - i + 1 \in 1..(Len(t) - 1) /\ t[k - i + 1] = s[i + (k - i + 1) - 1]
        BY <1>1
      <4> QED
        BY <3>1, <4>1
    <3>2. ASSUME \A k \in i..(j - 2) : s[k] # NL, NEW n \in 1..(Len(t) - 1)
          PROVE  t[n] # NL
      <4>1. i + n - 1 \in i..(j - 2)
        BY <1>1
      <4> QED
        BY <1>1, <3>2, <4>1
    <3> QED
      BY <3>1, <3>2
  <2> QED
    BY <2>1, <2>2 DEF LineComment, LineFrom
<1>5. BlockComment(t) <=> BlockFrom(s, i, j)
  <2>1. Begins(t, "/", "*") <=> i + 2 <= j /\ Opens(s, i)
    BY <1>1 DEF Begins, Opens
  <2>2. ASSUME i + 2 <= j
        PROVE  (\A n \in 3..(Len(t) - 2) : ~(t[n] = "*" /\ t[n + 1] = "/"))
                 <=> (\A k \in (i + 2)..(j - 3) : ~Closes(s, k))
    <3>1. ASSUME \A n \in 3..(Len(t) - 2) : ~(t[n] = "*" /\ t[n + 1] = "/"),
                 NEW k \in (i + 2)..(j - 3)
          PROVE  ~Closes(s, k)
      <4>1. k - i + 1 \in 3..(Len(t) - 2) /\ t[k - i + 1] = s[k] /\ t[(k - i + 1) + 1] = s[k + 1]
        <5>1. k - i + 1 \in 3..(Len(t) - 2) /\ (k - i + 1) + 1 \in 1..(j - i)
              /\ i + (k - i + 1) - 1 = k /\ i + ((k - i + 1) + 1) - 1 = k + 1
          BY <1>1
        <5> QED
          BY <1>1, <5>1
      <4> QED
        BY <3>1, <4>1 DEF Closes
    <3>2. ASSUME \A k \in (i + 2)..(j - 3) : ~Closes(s, k), NEW n \in 3..(Len(t) - 2)
          PROVE  ~(t[n] = "*" /\ t[n + 1] = "/")
      <4>1. i + n - 1 \in (i + 2)..(j - 3) /\ t[n] = s[i + n - 1] /\ t[n + 1] = s[(i + n - 1) + 1]
        <5>1. i + n - 1 \in (i + 2)..(j - 3) /\ n \in 1..(j - i) /\ n + 1 \in 1..(j - i)
              /\ i + (n + 1) - 1 = (i + n - 1) + 1
          BY <1>1
        <5> QED
          BY <1>1, <5>1
      <4> QED
        BY <3>2, <4>1 DEF Closes
    <3> QED
      BY <3>1, <3>2
  <2> QED
    BY <2>1, <2>2 DEF BlockComment, BlockFrom
<1>6. Quoted(t) <=> QuotedFrom(s, i, j)
  <2>1. \A n \in 1..(Len(t) - 1), k \in i..(j - 2) :
          k = i + n - 1 =>
            /\ (Count(SubSeq(t, 1, n), t[1]) % 2 = 0) <=> Even(s, i, k)
            /\ t[n] = s[k] /\ t[n + 1] = s[k + 1]
    <3> TAKE n \in 1..(Len(t) - 1), k \in i..(j - 2)
    <3> HAVE k = i + n - 1
    <3>1. SubSeq(t, 1, n) = SubSeq(s, i, k)
      BY <1>1, <1>3
    <3>2. t[n] = s[k]
      BY <1>1
    <3>3. t[n + 1] = s[k + 1]
      <4>1. n + 1 \in 1..(j - i) /\ i + (n + 1) - 1 = k + 1
        BY <1>1
      <4> QED
        BY <1>1, <4>1
    <3> QED
      BY <1>2, <3>1, <3>2, <3>3 DEF Even
  <2>2. \A n \in 1..(Len(t) - 1) : i + n - 1 \in i..(j - 2)
    BY <1>1
  <2>3. \A k \in i..(j - 2) : k - i + 1 \in 1..(Len(t) - 1) /\ k = i + (k - i + 1) - 1
    BY <1>1
  <2>4. ASSUME Quoted(t) PROVE QuotedFrom(s, i, j)
    <3>1. ASSUME NEW k \in i..(j - 2), Even(s, i, k) PROVE s[k] = s[i] /\ s[k + 1] = s[i]
      <4> DEFINE n == k - i + 1
      <4>1. n \in 1..(Len(t) - 1) /\ k = i + n - 1
        BY <2>3
      <4> HIDE DEF n
      <4> QED
        BY <1>2, <2>1, <2>4, <3>1, <4>1 DEF Quoted
    <3> QED
      BY <1>2, <2>4, <3>1 DEF Quoted, QuotedFrom, Quotes
  <2>5. ASSUME QuotedFrom(s, i, j) PROVE Quoted(t)
    <3>1. ASSUME NEW n \in 1..(Len(t) - 1), Count(SubSeq(t, 1, n), t[1]) % 2 = 0
          PROVE  t[n] = t[1] /\ t[n + 1] = t[1]
      <4> DEFINE k == i + n - 1
      <4>1. k \in i..(j - 2) /\ k = i + n - 1
        BY <2>2
      <4> HIDE DEF k
      <4> QED
        BY <1>2, <2>1, <2>5, <3>1, <4>1 DEF QuotedFrom
    <3> QED
      BY <1>2, <2>5, <3>1 DEF Quoted, QuotedFrom, Quotes
  <2> QED
    BY <2>4, <2>5
<1>7. Lexeme(t) <=> LexemeFrom(s, i, j)
  BY <1>1, <1>4, <1>5, <1>6 DEF Lexeme, LexemeFrom
<1> QED
  BY <1>1, <1>2, <1>4, <1>5, <1>6, <1>7 DEF t

(* What is a lexeme stays one when its end is cut off.                     *)
LEMMA Shorter ==
  ASSUME NEW s, NEW i \in Nat, NEW j \in Nat, NEW k \in Nat, i < k, k <= j, LexemeFrom(s, i, j)
  PROVE  LexemeFrom(s, i, k)
  BY DEF LexemeFrom, LineFrom, BlockFrom, QuotedFrom

LEMMA AfterIs ==
  ASSUME NEW s \in Text, NEW i \in 1..Len(s), NEW e \in (i + 1)..(Len(s) + 1),
         LexemeFrom(s, i, e), e <= Len(s) => ~LexemeFrom(s, i, e + 1)
  PROVE  After(s, i) = e
<1> DEFINE Ends(j) == /\ Lexeme(SubSeq(s, i, j - 1))
                      /\ \A k \in (j + 1)..(Len(s) + 1) : ~Lexeme(SubSeq(s, i, k - 1))
<1>0. Len(s) \in Nat
  BY DEF Text
<1>1. \A j \in (i + 1)..(Len(s) + 1) : Lexeme(SubSeq(s, i, j - 1)) <=> LexemeFrom(s, i, j)
  <2> TAKE j \in (i + 1)..(Len(s) + 1)
  <2>1. i \in Nat /\ j \in Nat /\ 1 <= i /\ i < j /\ j <= Len(s) + 1
    BY <1>0
  <2> QED
    BY <2>1, LexemesFrom
<1>2. ASSUME NEW k \in (e + 1)..(Len(s) + 1) PROVE ~LexemeFrom(s, i, k)
  <2>1. i \in Nat /\ k \in Nat /\ e + 1 \in Nat /\ i < e + 1 /\ e + 1 <= k /\ e <= Len(s)
    BY <1>0
  <2> QED
    BY <2>1, Shorter
<1>3. Ends(e)
  BY <1>0, <1>1, <1>2
<1>4. ASSUME NEW j \in (i + 1)..(Len(s) + 1), Ends(j) PROVE j = e
  <2>1. ~(j < e)
    BY <1>0, <1>1, <1>4
  <2>2. ~(j > e)
    BY <1>0, <1>1, <1>2, <1>4
  <2> QED
    BY <1>0, <2>1, <2>2
<1>5. After(s, i) = CHOOSE j \in (i + 1)..(Len(s) + 1) : Ends(j)
  BY DEF After
<1> HIDE DEF Ends
<1> QED
  BY <1>3, <1>4, <1>5

LEMMA AfterEnds ==
  ASSUME NEW s \in Text, NEW i \in 1..Len(s)
  PROVE  /\ After(s, i) \in (i + 1)..(Len(s) + 1)
         /\ LexemeFrom(s, i, After(s, i))
         /\ \A k \in (After(s, i) + 1)..(Len(s) + 1) : ~LexemeFrom(s, i, k)
<1> DEFINE Rest == {m \in Nat : m < Len(s) + 1 - i /\ LexemeFrom(s, i, Len(s) + 1 - m)}
<1>0. Len(s) \in Nat
  BY DEF Text
<1>1. Rest # {}
  <2>1. Len(s) - i \in Nat /\ Len(s) + 1 - (Len(s) - i) = i + 1
    BY <1>0
  <2>2. Len(s) - i \in Rest
    BY <1>0, <2>1 DEF LexemeFrom
  <2> QED
    BY <2>2
<1>2. PICK m \in Rest : \A n \in Rest : m <= n
  BY <1>1, Least
<1> DEFINE e == Len(s) + 1 - m
<1>3. e \in (i + 1)..(Len(s) + 1) /\ LexemeFrom(s, i, e)
  BY <1>0, <1>2
<1>4. ASSUME NEW k \in (e + 1)..(Len(s) + 1) PROVE ~LexemeFrom(s, i, k)
  <2>1. Len(s) + 1 - k \in Nat /\ Len(s) + 1 - k < m /\ Len(s) + 1 - (Len(s) + 1 - k) = k
        /\ Len(s) + 1 - k < Len(s) + 1 - i
    BY <1>0, <1>2
  <2> QED
    BY <1>0, <1>2, <2>1
<1>5. After(s, i) = e
  <2> HIDE DEF e
  <2>1. e <= Len(s) => e + 1 \in (e + 1)..(Len(s) + 1)
    BY <1>0, <1>3
  <2> QED
    BY <1>3, <1>4, <2>1, AfterIs
<1> HIDE DEF e
<1> QED
  BY <1>3, <1>4, <1>5

-----------------------------------------------------------------------------
(* The scanner at its places.                                              *)

(* In the lexeme that began at i, having read what stands before p.        *)
Within(s, i, p, mode) ==
  /\ i < p /\ p <= Len(s) + 1
  /\ mode = "line" => i + 2 <= p /\ Dashes(s, i) /\ \A k \in i..(p - 1) : s[k] # NL
  /\ mode = "block" =>
       /\ i + 2 <= p /\ Opens(s, i)
       /\ \A k \in (i + 2)..(p - 1) : k < Len(s) => ~Closes(s, k)
  /\ mode \in Quotes => s[i] = mode /\ QuotedFrom(s, i, p) /\ ~Even(s, i, p - 1)

LEMMA AtTheEnd ==
  ASSUME NEW s \in Text, NEW i \in 1..Len(s), NEW mode \in Modes, mode # "code",
         Within(s, i, Len(s) + 1, mode)
  PROVE  After(s, i) = Len(s) + 1
<1>0. Len(s) \in Nat
  BY DEF Text
<1>1. LexemeFrom(s, i, Len(s) + 1)
  <2>1. CASE mode = "line"
    BY <1>0, <2>1 DEF Within, LexemeFrom, LineFrom
  <2>2. CASE mode = "block"
    BY <1>0, <2>2 DEF Within, LexemeFrom, BlockFrom
  <2>3. CASE mode \in Quotes
    BY <2>3 DEF Within, LexemeFrom
  <2> QED
    BY <2>1, <2>2, <2>3 DEF Modes, Quotes
<1> QED
  BY <1>0, <1>1, AfterIs

LEMMA Parity ==
  ASSUME NEW c \in Nat
  PROVE  /\ c % 2 # 0 => (c + 1) % 2 = 0
         /\ c % 2 = 0 => (c + 1) % 2 # 0
         /\ c % 2 # 0 => (c + 1 + 1) % 2 # 0
  OBVIOUS

(* A round in a comment or a string, and one in code.                      *)
Follows(s, i, next, p) ==
  IF next.mode = "code" THEN After(s, i) = p + next.width
  ELSE Within(s, i, p + next.width, next.mode)

LEMMA RoundInLine ==
  ASSUME NEW s \in Text, NEW i \in 1..Len(s), NEW p \in 1..Len(s), Within(s, i, p, "line")
  PROVE  Follows(s, i, InLine(s, p), p)
<1>0. Len(s) \in Nat
  BY DEF Text
<1>1. i + 2 <= p /\ Dashes(s, i) /\ \A k \in i..(p - 1) : s[k] # NL
  BY DEF Within
<1>2. CASE s[p] = NL
  <2>1. p + 1 \in (i + 1)..(Len(s) + 1)
    BY <1>0, <1>1
  <2>2. LexemeFrom(s, i, p + 1)
    BY <1>1 DEF LexemeFrom, LineFrom
  <2>3. ~LexemeFrom(s, i, p + 2)
    BY <1>1, <1>2 DEF LexemeFrom, LineFrom, BlockFrom, QuotedFrom, Opens, Dashes, Quotes
  <2>4. After(s, i) = p + 1
    BY <2>1, <2>2, <2>3, AfterIs
  <2> QED
    BY <1>2, <2>4 DEF Follows, InLine, To
<1>3. CASE s[p] # NL
  <2>1. Within(s, i, p + 1, "line")
    BY <1>0, <1>1, <1>3 DEF Within, Quotes
  <2> QED
    BY <1>3, <2>1 DEF Follows, InLine, To
<1> QED
  BY <1>2, <1>3

LEMMA RoundInBlock ==
  ASSUME NEW s \in Text, NEW i \in 1..Len(s), NEW p \in 1..Len(s), Within(s, i, p, "block")
  PROVE  Follows(s, i, InBlock(s, p), p)
<1>0. Len(s) \in Nat
  BY DEF Text
<1>1. i + 2 <= p /\ Opens(s, i) /\ \A k \in (i + 2)..(p - 1) : k < Len(s) => ~Closes(s, k)
  BY DEF Within
<1>2. CASE Two(s, p, "*", "/")
  <2>1. p + 2 \in (i + 1)..(Len(s) + 1) /\ Closes(s, p)
    BY <1>0, <1>1, <1>2 DEF Two, Closes
  <2>2. LexemeFrom(s, i, p + 2)
    BY <1>0, <1>1, <1>2 DEF LexemeFrom, BlockFrom, Two
  <2>3. ~LexemeFrom(s, i, p + 3)
    BY <1>1, <2>1 DEF LexemeFrom, LineFrom, BlockFrom, QuotedFrom, Opens, Dashes, Quotes
  <2>4. After(s, i) = p + 2
    BY <2>1, <2>2, <2>3, AfterIs
  <2> QED
    BY <1>2, <2>4 DEF Follows, InBlock, To
<1>3. CASE ~Two(s, p, "*", "/")
  <2>1. p < Len(s) => ~Closes(s, p)
    BY <1>3 DEF Two, Closes
  <2>2. Within(s, i, p + 1, "block")
    BY <1>0, <1>1, <2>1 DEF Within, Quotes
  <2> QED
    BY <1>3, <2>2 DEF Follows, InBlock, To
<1> QED
  BY <1>2, <1>3

LEMMA RoundInQuotes ==
  ASSUME NEW s \in Text, NEW i \in 1..Len(s), NEW p \in 1..Len(s), NEW q \in Quotes,
         Within(s, i, p, q)
  PROVE  Follows(s, i, InQuotes(s, p, q), p)
<1>0. Len(s) \in Nat
  BY DEF Text
<1>1. i < p /\ s[i] = q /\ QuotedFrom(s, i, p) /\ ~Even(s, i, p - 1)
  BY DEF Within
<1> DEFINE C(k) == Count(SubSeq(s, i, k), q)
<1>2. C(p - 1) \in Nat /\ C(p) = C(p - 1) + (IF s[p] = q THEN 1 ELSE 0)
  <2>1. p - 1 \in Nat /\ i \in Nat /\ 1 <= i /\ i <= (p - 1) + 1 /\ p - 1 < Len(s) /\ (p - 1) + 1 = p
    BY <1>0, <1>1
  <2> QED
    BY <2>1, CountStep
<1>3. p < Len(s) => C(p + 1) = C(p) + (IF s[p + 1] = q THEN 1 ELSE 0)
  <2>1. i \in Nat /\ 1 <= i /\ p \in Nat /\ i <= p + 1
    BY <1>0, <1>1
  <2> QED
    BY <2>1, CountStep
<1>4. \A k \in Nat : Even(s, i, k) <=> C(k) % 2 = 0
  BY <1>1 DEF Even
<1>5. p - 1 \in Nat /\ p \in Nat /\ p + 1 \in Nat
  BY <1>0, <1>1
<1> HIDE DEF C
<1>6. C(p - 1) % 2 # 0
  BY <1>1, <1>4, <1>5
<1>7. CASE Two(s, p, q, q)
  <2>1. p < Len(s) /\ s[p] = q /\ s[p + 1] = q
    BY <1>7 DEF Two
  <2>2. C(p + 1) = C(p - 1) + 1 + 1
    BY <1>2, <1>3, <2>1
  <2>3. ~Even(s, i, p + 1)
    BY <1>2, <1>4, <1>5, <1>6, <2>2, Parity
  <2>4. QuotedFrom(s, i, p + 2)
    <3>1. ASSUME NEW k \in i..p, Even(s, i, k) PROVE s[k] = s[i] /\ s[k + 1] = s[i]
      <4>1. CASE k \in i..(p - 2)
        BY <1>1, <3>1, <4>1 DEF QuotedFrom
      <4>2. CASE k = p - 1
        BY <1>1, <3>1, <4>2
      <4>3. CASE k = p
        BY <1>1, <2>1, <4>3
      <4> QED
        BY <1>0, <1>1, <4>1, <4>2, <4>3
    <3>2. (p + 2) - 2 = p
      BY <1>5
    <3> QED
      BY <1>1, <3>1, <3>2 DEF QuotedFrom
  <2>5. Within(s, i, p + 2, q)
    <3>1. (p + 2) - 1 = p + 1 /\ i < p + 2 /\ p + 2 <= Len(s) + 1
      BY <1>0, <1>1, <2>1
    <3> QED
      BY <1>1, <2>3, <2>4, <3>1 DEF Within, Quotes
  <2> QED
    BY <1>7, <2>5 DEF Follows, InQuotes, To, Quotes
<1>8. CASE ~Two(s, p, q, q) /\ s[p] = q
  <2>1. Even(s, i, p)
    BY <1>2, <1>4, <1>5, <1>6, <1>8, Parity
  <2>2. LexemeFrom(s, i, p + 1)
    <3>1. ASSUME NEW k \in i..(p - 1), Even(s, i, k) PROVE s[k] = s[i] /\ s[k + 1] = s[i]
      <4>1. CASE k \in i..(p - 2)
        BY <1>1, <3>1, <4>1 DEF QuotedFrom
      <4>2. CASE k = p - 1
        BY <1>1, <3>1, <4>2
      <4> QED
        BY <1>0, <1>1, <4>1, <4>2
    <3>2. (p + 1) - 2 = p - 1
      BY <1>5
    <3> QED
      BY <1>1, <3>1, <3>2 DEF QuotedFrom, LexemeFrom
  <2>3. p + 1 <= Len(s) => ~LexemeFrom(s, i, p + 2)
    <3> HAVE p + 1 <= Len(s)
    <3>1. s[p + 1] # q
      BY <1>8 DEF Two
    <3>2. ~QuotedFrom(s, i, p + 2)
      <4>1. p \in i..((p + 2) - 2)
        BY <1>0, <1>1
      <4> QED
        BY <1>1, <2>1, <3>1, <4>1 DEF QuotedFrom
    <3>3. p + 2 # i + 1
      BY <1>0, <1>1
    <3> QED
      BY <1>1, <3>2, <3>3 DEF LexemeFrom, LineFrom, BlockFrom, Opens, Dashes, Quotes
  <2>4. After(s, i) = p + 1
    <3>1. p + 1 \in (i + 1)..(Len(s) + 1) /\ (p + 1) + 1 = p + 2
      BY <1>0, <1>1
    <3> QED
      BY <2>2, <2>3, <3>1, AfterIs
  <2> QED
    BY <1>8, <2>4 DEF Follows, InQuotes, To
<1>9. CASE s[p] # q
  <2>1. ~Even(s, i, p)
    BY <1>2, <1>4, <1>5, <1>6, <1>9
  <2>2. QuotedFrom(s, i, p + 1)
    <3>1. ASSUME NEW k \in i..(p - 1), Even(s, i, k) PROVE s[k] = s[i] /\ s[k + 1] = s[i]
      <4>1. CASE k \in i..(p - 2)
        BY <1>1, <3>1, <4>1 DEF QuotedFrom
      <4>2. CASE k = p - 1
        BY <1>1, <3>1, <4>2
      <4> QED
        BY <1>0, <1>1, <4>1, <4>2
    <3>2. (p + 1) - 2 = p - 1
      BY <1>5
    <3> QED
      BY <1>1, <3>1, <3>2 DEF QuotedFrom
  <2>3. Within(s, i, p + 1, q)
    <3>1. (p + 1) - 1 = p /\ i < p + 1 /\ p + 1 <= Len(s) + 1
      BY <1>0, <1>1
    <3> QED
      BY <1>1, <2>1, <2>2, <3>1 DEF Within, Quotes
  <2>4. ~Two(s, p, q, q)
    BY <1>9 DEF Two
  <2> QED
    BY <1>9, <2>3, <2>4 DEF Follows, InQuotes, To, Quotes
<1> QED
  BY <1>7, <1>8, <1>9

LEMMA RoundInCode ==
  ASSUME NEW s \in Text, NEW i \in 1..Len(s)
  PROVE  Follows(s, i, InCode(s, i), i)
<1>0. Len(s) \in Nat /\ i \in Nat
  BY DEF Text
<1>1. CASE Two(s, i, "-", "-")
  <2>1. InCode(s, i) = To("line", 2)
    BY <1>1 DEF InCode, Two
  <2>2. Within(s, i, i + 2, "line")
    BY <1>0, <1>1 DEF Within, Two, Dashes, Quotes, NL
  <2> QED
    BY <2>1, <2>2 DEF Follows, To
<1>2. CASE Two(s, i, "/", "*")
  <2>1. InCode(s, i) = To("block", 2)
    BY <1>2 DEF InCode, Two
  <2>2. Within(s, i, i + 2, "block")
    BY <1>0, <1>2 DEF Within, Two, Opens, Quotes
  <2> QED
    BY <2>1, <2>2 DEF Follows, To
<1>3. CASE s[i] \in Quotes
  <2>1. InCode(s, i) = To(s[i], 1)
    BY <1>3 DEF InCode, Two, Quotes
  <2>2. ~Even(s, i, i)
    <3>1. i - 1 \in Nat /\ (i - 1) + 1 = i /\ 1 <= i /\ i <= Len(s) + 1 /\ i - 1 < Len(s)
      BY <1>0
    <3>2. Count(SubSeq(s, i, i), s[i]) = 0 + 1
      BY <1>0, <3>1, CountStep, CountNone
    <3> QED
      BY <3>2 DEF Even
  <2>3. Within(s, i, i + 1, s[i])
    <3>1. (i + 1) - 1 = i /\ i < i + 1 /\ i + 1 <= Len(s) + 1 /\ i..((i + 1) - 2) = {}
      BY <1>0
    <3> QED
      BY <1>3, <2>2, <3>1 DEF Within, QuotedFrom, Quotes
  <2>4. To(s[i], 1).mode = s[i] /\ To(s[i], 1).width = 1 /\ s[i] # "code"
    BY <1>3 DEF To, Quotes
  <2> QED
    BY <2>1, <2>3, <2>4 DEF Follows
<1>4. CASE ~Two(s, i, "-", "-") /\ ~Two(s, i, "/", "*") /\ s[i] \notin Quotes
  <2>1. InCode(s, i) = To("code", 1)
    BY <1>4 DEF InCode, Quotes
  <2>2. i + 1 <= Len(s) => ~LexemeFrom(s, i, i + 2)
    BY <1>0, <1>4 DEF LexemeFrom, LineFrom, BlockFrom, QuotedFrom, Opens, Dashes, Two
  <2>3. After(s, i) = i + 1
    <3>1. i + 1 \in (i + 1)..(Len(s) + 1) /\ (i + 1) + 1 = i + 2
      BY <1>0
    <3> QED
      BY <2>2, <3>1, AfterIs DEF LexemeFrom
  <2> QED
    BY <2>1, <2>3 DEF Follows, To
<1> QED
  BY <1>1, <1>2, <1>3, <1>4

-----------------------------------------------------------------------------
(* The lexemes of a buffer lie end to end.                                 *)

StartsBy(s, start) ==
  /\ start \in [0..Len(s) -> 1..(Len(s) + 1)]
  /\ \A n \in 0..Len(s) :
       start[n] = IF n = 0 THEN 1
                  ELSE IF start[n - 1] > Len(s) THEN start[n - 1] ELSE After(s, start[n - 1])

LEMMA StartsAreRounds ==
  ASSUME NEW s \in Text
  PROVE  \E start : StartsBy(s, start) /\ Starts(s) = {start[n] : n \in 0..Len(s)} \ {Len(s) + 1}
<1> DEFINE N == Len(s)
           D == 1..(N + 1)
           next == [p \in D |-> IF p > N THEN p ELSE After(s, p)]
           Loop(f, n) == IF n = 0 THEN 1 ELSE IF f[n - 1] > N THEN f[n - 1] ELSE After(s, f[n - 1])
           start == CHOOSE f : f = [n \in 0..N |-> Loop(f, n)]
<1>0. N \in Nat
  BY DEF Text
<1>1. \A p \in D : p <= N => After(s, p) \in D
  BY <1>0, AfterEnds
<1>2. next \in [D -> D] /\ 1 \in D
  BY <1>0, <1>1
<1>3. PICK f \in [0..N -> D] : \A n \in 0..N : f[n] = IF n = 0 THEN 1 ELSE next[f[n - 1]]
  <2>1. MayLoop(D, 1, next, N)
    BY <1>0, <1>2 DEF MayLoop
  <2> HIDE DEF next, D, N
  <2>2. PICK f : Loops(f, D, 1, next, N)
    BY <2>1, Rounds
  <2> QED
    BY <2>2 DEF Loops
<1>4. f = [n \in 0..N |-> Loop(f, n)]
  <2>1. ASSUME NEW n \in 0..N PROVE f[n] = Loop(f, n)
    <3>1. CASE n = 0
      BY <1>3, <3>1
    <3>2. CASE n # 0
      <4>1. f[n] = next[f[n - 1]]
        BY <1>3, <3>2
      <4>2. f[n - 1] \in D
        BY <3>2
      <4> QED
        BY <3>2, <4>1, <4>2
    <3> QED
      BY <3>1, <3>2
  <2> HIDE DEF Loop, D
  <2> QED
    BY <2>1
<1>5. start = [n \in 0..N |-> Loop(start, n)]
  <2> HIDE DEF Loop
  <2> QED
    BY <1>4
<1>6. Starts(s) = {start[n] : n \in 0..N} \ {N + 1}
  BY DEF Starts
<1> HIDE DEF start
<1>7. \A n \in 0..N : start[n] = Loop(start, n)
  <2> HIDE DEF Loop, N
  <2> QED
    BY <1>5
<1>8. \A n \in 0..N : start[n] \in D
  <2> DEFINE S == {n \in Nat : n <= N => start[n] \in D}
  <2>1. 0 \in S
    BY <1>0, <1>2, <1>7
  <2>2. ASSUME NEW n \in Nat, n \in S PROVE n + 1 \in S
    <3>1. SUFFICES ASSUME n + 1 <= N PROVE start[n + 1] \in D
      OBVIOUS
    <3>2. start[n] \in D /\ n + 1 \in 0..N /\ n + 1 # 0 /\ n + 1 - 1 = n
      BY <1>0, <2>2, <3>1
    <3>3. start[n + 1] = IF start[n] > N THEN start[n] ELSE After(s, start[n])
      BY <1>7, <3>2
    <3> QED
      BY <1>1, <3>2, <3>3, <1>0
  <2> HIDE DEF S
  <2>3. Nat \subseteq S
    BY <2>1, <2>2, Induction
  <2> QED
    BY <2>3, <1>0 DEF S
<1>9. start \in [0..N -> D]
  <2> HIDE DEF Loop, D, N
  <2> QED
    BY <1>5, <1>8
<1> QED
  BY <1>6, <1>7, <1>9 DEF StartsBy

LEMMA StartsFollow ==
  ASSUME NEW s \in Text
  PROVE  /\ Starts(s) \subseteq 1..Len(s)
         /\ s # <<>> => 1 \in Starts(s)
         /\ \A i \in Starts(s) : After(s, i) \in Starts(s) \cup {Len(s) + 1}
         /\ \A i \in Starts(s) : i # 1 => \E k \in Starts(s) : k < i /\ After(s, k) = i
<1> DEFINE N == Len(s)
<1>0. N \in Nat
  BY DEF Text
<1>1. PICK start : StartsBy(s, start) /\ Starts(s) = {start[n] : n \in 0..N} \ {N + 1}
  BY StartsAreRounds
<1>2. /\ \A n \in 0..N : start[n] \in 1..(N + 1)
      /\ \A n \in 0..N :
           start[n] = IF n = 0 THEN 1
                      ELSE IF start[n - 1] > N THEN start[n - 1] ELSE After(s, start[n - 1])
  BY <1>1 DEF StartsBy
<1>3. \A k \in 1..N : After(s, k) \in (k + 1)..(N + 1)
  BY AfterEnds
<1>4. Starts(s) \subseteq 1..N
  <2>1. ASSUME NEW n \in 0..N, start[n] # N + 1 PROVE start[n] \in 1..N
    <3>1. start[n] \in 1..(N + 1)
      BY <1>2
    <3> QED
      BY <1>0, <2>1, <3>1
  <2> QED
    BY <1>1, <2>1
<1>5. s # <<>> => 1 \in Starts(s)
  <2>1. s # <<>> => N # 0
    BY EmptySeq DEF Text
  <2>2. start[0] = 1 /\ 0 \in 0..N
    BY <1>0, <1>2
  <2> QED
    BY <1>0, <1>1, <2>1, <2>2
<1>6. \A n \in 0..N : start[n] > n \/ start[n] = N + 1
  <2> DEFINE S == {n \in Nat : n <= N => start[n] > n \/ start[n] = N + 1}
  <2>1. 0 \in S
    BY <1>0, <1>2
  <2>2. ASSUME NEW n \in Nat, n \in S PROVE n + 1 \in S
    <3>1. SUFFICES ASSUME n + 1 <= N PROVE start[n + 1] > n + 1 \/ start[n + 1] = N + 1
      OBVIOUS
    <3>2. start[n] \in 1..(N + 1) /\ n + 1 \in 0..N /\ n + 1 # 0 /\ n + 1 - 1 = n
      BY <1>0, <1>2, <3>1
    <3>3. start[n + 1] = IF start[n] > N THEN start[n] ELSE After(s, start[n])
      BY <1>2, <3>2
    <3>4. start[n] > n \/ start[n] = N + 1
      BY <1>0, <2>2, <3>1
    <3>5. CASE start[n] > N
      BY <1>0, <3>2, <3>3, <3>5
    <3>6. CASE start[n] <= N
      <4>1. start[n + 1] \in (start[n] + 1)..(N + 1)
        BY <1>0, <1>3, <3>2, <3>3, <3>6
      <4> QED
        BY <1>0, <3>2, <3>4, <3>6, <4>1
    <3> QED
      BY <1>0, <3>2, <3>5, <3>6
  <2> HIDE DEF S
  <2>3. Nat \subseteq S
    BY <2>1, <2>2, Induction
  <2> QED
    BY <2>3, <1>0 DEF S
<1>7. ASSUME NEW i \in Starts(s) PROVE After(s, i) \in Starts(s) \cup {N + 1}
  <2>1. PICK n \in 0..N : start[n] = i
    BY <1>1
  <2>2. i \in 1..N
    BY <1>4
  <2>3. n + 1 \in 0..N /\ n + 1 # 0 /\ n + 1 - 1 = n
    BY <1>0, <1>6, <2>1, <2>2
  <2>4. start[n + 1] = After(s, i)
    BY <1>0, <1>2, <2>1, <2>2, <2>3
  <2> QED
    BY <1>1, <2>3, <2>4
<1>8. ASSUME NEW i \in Starts(s), i # 1 PROVE \E k \in Starts(s) : k < i /\ After(s, k) = i
  <2> DEFINE S == {n \in 0..N : start[n] = i}
  <2>1. S # {}
    BY <1>1
  <2>2. PICK n \in S : \A m \in S : n <= m
    <3>1. S \subseteq Nat
      BY <1>0
    <3> QED
      BY <2>1, <3>1, Least
  <2>3. n # 0 /\ n \in 0..N /\ n - 1 \in 0..N
    BY <1>0, <1>2, <1>8, <2>2
  <2>4. start[n] = i /\ i \in 1..N
    BY <1>4, <2>2
  <2>5. start[n] = IF start[n - 1] > N THEN start[n - 1] ELSE After(s, start[n - 1])
    BY <1>2, <2>3
  <2>6. start[n - 1] \in 1..(N + 1)
    BY <1>2, <2>3
  <2>7. start[n - 1] <= N /\ After(s, start[n - 1]) = i
    BY <1>0, <2>4, <2>5, <2>6
  <2>8. start[n - 1] \in Starts(s) /\ start[n - 1] < i
    <3>1. start[n - 1] \in 1..N
      BY <1>0, <2>6, <2>7
    <3>2. start[n - 1] \in Starts(s)
      BY <1>0, <1>1, <2>3, <3>1
    <3>3. After(s, start[n - 1]) \in (start[n - 1] + 1)..(N + 1)
      BY <1>3, <3>1
    <3>4. start[n - 1] < i
      BY <1>0, <2>7, <3>1, <3>3
    <3> QED
      BY <3>2, <3>4
  <2> QED
    BY <2>7, <2>8
<1> QED
  BY <1>4, <1>5, <1>7, <1>8

LEMMA NoneBetween ==
  ASSUME NEW s \in Text, NEW i \in Starts(s), NEW k \in Starts(s), i < k
  PROVE  After(s, i) <= k
<1> DEFINE S == {x \in Nat : x \in Starts(s) /\ \E y \in Starts(s) : y < x /\ x < After(s, y)}
<1>0. Len(s) \in Nat /\ Starts(s) \subseteq 1..Len(s)
  BY StartsFollow DEF Text
<1>1. \A x \in Starts(s) : x \in Nat /\ After(s, x) \in Nat /\ x < After(s, x)
  BY <1>0, AfterEnds
<1>2. S = {}
  <2> SUFFICES ASSUME S # {} PROVE FALSE
    OBVIOUS
  <2>1. PICK x \in S : \A z \in S : x <= z
    BY Least
  <2>2. PICK y \in Starts(s) : y < x /\ x < After(s, y)
    BY <2>1
  <2>3. x \in Starts(s) /\ x \in Nat /\ y \in Nat /\ x # 1
    BY <1>0, <2>1, <2>2
  <2>4. PICK z \in Starts(s) : z < x /\ After(s, z) = x
    BY <2>3, StartsFollow
  <2>5. z \in Nat
    BY <1>1
  <2>6. CASE z = y
    BY <2>2, <2>3, <2>4, <2>6
  <2>7. CASE z > y
    <3>1. z \in S
      BY <1>1, <2>2, <2>3, <2>4, <2>5, <2>7
    <3> QED
      BY <2>1, <2>3, <2>4, <2>5, <3>1
  <2>8. CASE z < y
    <3>1. y \in S
      BY <2>2, <2>3, <2>4, <2>5, <2>8
    <3> QED
      BY <2>1, <2>2, <2>3, <3>1
  <2> QED
    BY <2>3, <2>5, <2>6, <2>7, <2>8
<1> QED
  BY <1>1, <1>2

-----------------------------------------------------------------------------
(* The scanner meets in code where lexemes start, and only there.          *)

Places(s) == (1..(Len(s) + 1)) \X Modes

LEMMA ScanGoesOn ==
  ASSUME NEW s \in Text, NEW p \in 1..Len(s), NEW mode \in Modes
  PROVE  /\ Scan(s, p, mode).mode \in Modes
         /\ Scan(s, p, mode).width \in {1, 2}
         /\ p + Scan(s, p, mode).width <= Len(s) + 1
<1> DEFINE Fine(next) ==
             next.mode \in Modes /\ next.width \in {1, 2} /\ p + next.width <= Len(s) + 1
<1>0. Len(s) \in Nat
  BY DEF Text
<1>1. \A m \in Modes : Fine(To(m, 1)) /\ (p < Len(s) => Fine(To(m, 2)))
  BY <1>0 DEF To
<1>2. /\ "code" \in Modes /\ "line" \in Modes /\ "block" \in Modes /\ Quotes \subseteq Modes
      /\ \A c, d : Two(s, p, c, d) => p < Len(s)
  BY DEF Modes, Quotes, Two
<1> HIDE DEF Fine
<1>3. CASE mode = "line"
  <2>1. Scan(s, p, mode) = To(IF s[p] = NL THEN "code" ELSE "line", 1)
    BY <1>3 DEF Scan, InLine
  <2> QED
    BY <1>1, <1>2, <2>1 DEF Fine
<1>4. CASE mode = "block"
  <2>1. Scan(s, p, mode) = IF Two(s, p, "*", "/") THEN To("code", 2) ELSE To("block", 1)
    BY <1>4 DEF Scan, InBlock
  <2> QED
    BY <1>1, <1>2, <2>1 DEF Fine
<1>5. CASE mode \in Quotes
  <2>1. Scan(s, p, mode) = IF Two(s, p, mode, mode) THEN To(mode, 2)
                           ELSE To(IF s[p] = mode THEN "code" ELSE mode, 1)
    BY <1>5 DEF Scan, InQuotes, Quotes
  <2> QED
    BY <1>1, <1>2, <1>5, <2>1 DEF Fine
<1>6. CASE mode = "code"
  <2>1. Scan(s, p, mode) = InCode(s, p)
    BY <1>6 DEF Scan
  <2>2. CASE Two(s, p, "-", "-")
    <3>1. InCode(s, p) = To("line", 2)
      BY <2>2 DEF InCode, Two
    <3> QED
      BY <1>1, <1>2, <2>1, <2>2, <3>1 DEF Fine
  <2>3. CASE Two(s, p, "/", "*")
    <3>1. InCode(s, p) = To("block", 2)
      BY <2>3 DEF InCode, Two
    <3> QED
      BY <1>1, <1>2, <2>1, <2>3, <3>1 DEF Fine
  <2>4. CASE s[p] \in Quotes
    <3>1. InCode(s, p) = To(s[p], 1)
      BY <2>4 DEF InCode, Two, Quotes
    <3> QED
      BY <1>1, <1>2, <2>1, <2>4, <3>1 DEF Fine
  <2>5. CASE ~Two(s, p, "-", "-") /\ ~Two(s, p, "/", "*") /\ s[p] \notin Quotes
    <3>1. InCode(s, p) = To("code", 1)
      BY <2>5 DEF InCode, Quotes
    <3> QED
      BY <1>1, <1>2, <2>1, <3>1 DEF Fine
  <2> QED
    BY <2>2, <2>3, <2>4, <2>5
<1> QED
  BY <1>3, <1>4, <1>5, <1>6 DEF Modes, Quotes

LEMMA ScanFollows ==
  ASSUME NEW s \in Text, NEW i \in 1..Len(s), NEW p \in 1..Len(s), NEW mode \in Modes,
         IF mode = "code" THEN i = p ELSE Within(s, i, p, mode)
  PROVE  Follows(s, i, Scan(s, p, mode), p)
<1>2. CASE mode = "line"
  <2>1. Scan(s, p, mode) = InLine(s, p)
    BY <1>2 DEF Scan
  <2> QED
    BY <1>2, <2>1, RoundInLine
<1>3. CASE mode = "block"
  <2>1. Scan(s, p, mode) = InBlock(s, p)
    BY <1>3 DEF Scan
  <2> QED
    BY <1>3, <2>1, RoundInBlock
<1>4. CASE mode \in Quotes
  <2>1. Scan(s, p, mode) = InQuotes(s, p, mode) /\ mode # "code"
    BY <1>4 DEF Scan, Quotes
  <2> QED
    BY <1>4, <2>1, RoundInQuotes
<1>5. CASE mode = "code"
  <2>1. Scan(s, p, mode) = InCode(s, p)
    BY <1>5 DEF Scan
  <2> QED
    BY <1>5, <2>1, RoundInCode
<1> QED
  BY <1>2, <1>3, <1>4, <1>5 DEF Modes, Quotes

LEMMA WithinReach ==
  ASSUME NEW s \in Text, NEW i \in 1..Len(s), NEW p \in 1..(Len(s) + 1),
         NEW mode \in Modes, mode # "code", Within(s, i, p, mode)
  PROVE  p <= After(s, i)
<1>0. Len(s) \in Nat
  BY DEF Text
<1>1. LexemeFrom(s, i, p)
  <2>1. CASE mode = "line"
    BY <1>0, <2>1 DEF Within, LexemeFrom, LineFrom
  <2>2. CASE mode = "block"
    BY <1>0, <2>2 DEF Within, LexemeFrom, BlockFrom
  <2>3. CASE mode \in Quotes
    BY <2>3 DEF Within, LexemeFrom
  <2> QED
    BY <2>1, <2>2, <2>3 DEF Modes, Quotes
<1>2. After(s, i) \in 1..(Len(s) + 1)
      /\ \A k \in (After(s, i) + 1)..(Len(s) + 1) : ~LexemeFrom(s, i, k)
  BY <1>0, AfterEnds
<1> QED
  BY <1>0, <1>1, <1>2

PassedBy(s, at) ==
  /\ at \in [0..Len(s) -> Places(s)]
  /\ \A n \in 0..Len(s) : at[n] = IF n = 0 THEN <<1, "code">> ELSE Round(s, at[n - 1])

LEMMA RoundGoesOn ==
  ASSUME NEW s \in Text, NEW p \in 1..(Len(s) + 1), NEW mode \in Modes
  PROVE  /\ Round(s, <<p, mode>>) \in Places(s)
         /\ p > Len(s) => Round(s, <<p, mode>>) = <<p, mode>>
         /\ p <= Len(s) =>
              Round(s, <<p, mode>>) = <<p + Scan(s, p, mode).width, Scan(s, p, mode).mode>>
<1>0. Len(s) \in Nat
  BY DEF Text
<1>1. <<p, mode>>[1] = p /\ <<p, mode>>[2] = mode
  OBVIOUS
<1>2. CASE p > Len(s)
  BY <1>0, <1>1, <1>2 DEF Round, Places
<1>3. CASE p <= Len(s)
  <2>1. Round(s, <<p, mode>>) = <<p + Scan(s, p, mode).width, Scan(s, p, mode).mode>>
    BY <1>0, <1>1, <1>3 DEF Round
  <2>2. /\ Scan(s, p, mode).mode \in Modes /\ Scan(s, p, mode).width \in {1, 2}
        /\ p + Scan(s, p, mode).width <= Len(s) + 1
    BY <1>0, <1>3, ScanGoesOn
  <2>3. p + Scan(s, p, mode).width \in 1..(Len(s) + 1)
    BY <1>0, <2>2
  <2> QED
    BY <1>0, <1>3, <2>1, <2>2, <2>3 DEF Places
<1> QED
  BY <1>0, <1>2, <1>3

LEMMA PassedAreRounds ==
  ASSUME NEW s \in Text
  PROVE  \E at : PassedBy(s, at) /\ Passed(s) = {at[n] : n \in 0..Len(s)}
<1> DEFINE N == Len(s)
           D == Places(s)
           next == [p \in D |-> Round(s, p)]
           Loop(f, n) == IF n = 0 THEN <<1, "code">> ELSE Round(s, f[n - 1])
           at == CHOOSE f : f = [n \in 0..N |-> Loop(f, n)]
           first == <<1, "code">>
<1>0. N \in Nat
  BY DEF Text
<1>1. \A p \in D : Round(s, p) \in D
  <2> TAKE p \in D
  <2>1. p = <<p[1], p[2]>> /\ p[1] \in 1..(N + 1) /\ p[2] \in Modes
    BY DEF Places
  <2> QED
    BY <2>1, RoundGoesOn
<1>2. next \in [D -> D] /\ first \in D
  <2>1. 1 \in 1..(N + 1) /\ "code" \in Modes
    BY <1>0 DEF Modes
  <2>2. first \in D
    BY <2>1 DEF Places
  <2> HIDE DEF D
  <2> QED
    BY <1>1, <2>2
<1>3. PICK f \in [0..N -> D] : \A n \in 0..N : f[n] = IF n = 0 THEN first ELSE next[f[n - 1]]
  <2>1. MayLoop(D, first, next, N)
    BY <1>0, <1>2 DEF MayLoop
  <2> HIDE DEF next, D, N, first
  <2>2. PICK f : Loops(f, D, first, next, N)
    BY <2>1, Rounds
  <2> QED
    BY <2>2 DEF Loops
<1>4. f = [n \in 0..N |-> Loop(f, n)]
  <2>1. ASSUME NEW n \in 0..N PROVE f[n] = Loop(f, n)
    <3>1. CASE n = 0
      BY <1>3, <3>1
    <3>2. CASE n # 0
      <4>1. f[n] = next[f[n - 1]]
        BY <1>3, <3>2
      <4>2. f[n - 1] \in D
        BY <3>2
      <4> QED
        BY <3>2, <4>1, <4>2
    <3> QED
      BY <3>1, <3>2
  <2> HIDE DEF Loop, D
  <2> QED
    BY <2>1
<1>5. at = [n \in 0..N |-> Loop(at, n)]
  <2> HIDE DEF Loop
  <2> QED
    BY <1>4
<1>6. Passed(s) = {at[n] : n \in 0..N}
  BY DEF Passed
<1> HIDE DEF at
<1>7. \A n \in 0..N : at[n] = Loop(at, n)
  <2> HIDE DEF Loop, N
  <2> QED
    BY <1>5
<1>8. \A n \in 0..N : at[n] \in D
  <2> DEFINE S == {n \in Nat : n <= N => at[n] \in D}
  <2>1. 0 \in S
    BY <1>0, <1>2, <1>7
  <2>2. ASSUME NEW n \in Nat, n \in S PROVE n + 1 \in S
    <3>1. SUFFICES ASSUME n + 1 <= N PROVE at[n + 1] \in D
      OBVIOUS
    <3>2. at[n] \in D /\ n + 1 \in 0..N /\ n + 1 # 0 /\ n + 1 - 1 = n
      BY <1>0, <2>2, <3>1
    <3>3. at[n + 1] = Round(s, at[n])
      BY <1>7, <3>2
    <3> QED
      BY <1>1, <3>2, <3>3
  <2> HIDE DEF S
  <2>3. Nat \subseteq S
    BY <2>1, <2>2, Induction
  <2> QED
    BY <2>3, <1>0 DEF S
<1>9. at \in [0..N -> D]
  <2> HIDE DEF Loop, D, N
  <2> QED
    BY <1>5, <1>8
<1> QED
  BY <1>6, <1>7, <1>9 DEF PassedBy

(* After n rounds the scanner stands in the lexeme that began at i, has    *)
(* met every start up to there, and has read a character in each round.    *)
Seen(at, n, k) == \E l \in 0..n : at[l] = <<k, "code">>

Midway(s, at, n, i) ==
  LET p == at[n][1]  mode == at[n][2] IN
  /\ i \in Starts(s) /\ i <= p
  /\ IF mode = "code" THEN i = p ELSE Within(s, i, p, mode)
  /\ \A k \in Starts(s) : k <= i => Seen(at, n, k)

Scanned(s, at, n) ==
  LET p == at[n][1] IN
  /\ p > n
  /\ \/ p = Len(s) + 1 /\ \A k \in Starts(s) : Seen(at, n, k)
     \/ \E i \in Starts(s) : Midway(s, at, n, i)

LEMMA ScannedNext ==
  ASSUME NEW s \in Text, NEW at, PassedBy(s, at), NEW n \in Nat, n + 1 <= Len(s), Scanned(s, at, n)
  PROVE  Scanned(s, at, n + 1)
<1> DEFINE N == Len(s)
           p == at[n][1]
           mode == at[n][2]
           next == Scan(s, p, mode)
           p2 == at[n + 1][1]
           mode2 == at[n + 1][2]
<1>0. N \in Nat /\ n \in 0..N /\ n + 1 \in 0..N /\ n + 1 # 0 /\ n + 1 - 1 = n
  BY DEF Text
<1>1. at[n] = <<p, mode>> /\ p \in 1..(N + 1) /\ mode \in Modes
  BY <1>0 DEF PassedBy, Places
<1>2. at[n + 1] = Round(s, <<p, mode>>)
  <2>1. at[n + 1] = Round(s, at[n])
    BY <1>0 DEF PassedBy
  <2> HIDE DEF p, mode
  <2> QED
    BY <1>1, <2>1
<1>3. \A k : Seen(at, n, k) => Seen(at, n + 1, k)
  BY <1>0 DEF Seen
<1>4. p > n
  BY DEF Scanned
<1>5. Starts(s) \subseteq 1..N
  BY StartsFollow
<1>6. CASE p > N
  <2>1. at[n + 1] = at[n] /\ p = N + 1
    BY <1>0, <1>1, <1>2, <1>6, RoundGoesOn
  <2>2. \A k \in Starts(s) : Seen(at, n, k)
    <3>1. ASSUME NEW i \in Starts(s), Midway(s, at, n, i), NEW k \in Starts(s) PROVE Seen(at, n, k)
      <4>1. mode # "code" /\ Within(s, i, N + 1, mode)
        BY <1>0, <1>5, <2>1, <3>1 DEF Midway
      <4>2. After(s, i) = N + 1
        BY <1>1, <1>5, <4>1, AtTheEnd
      <4>3. k <= i
        BY <1>0, <1>5, <4>2, NoneBetween
      <4> QED
        BY <3>1, <4>3 DEF Midway
    <3> QED
      BY <3>1 DEF Scanned
  <2> QED
    BY <1>0, <1>3, <2>1, <2>2 DEF Scanned
<1>7. CASE p <= N
  <2>1. at[n + 1] = <<p + next.width, next.mode>>
    BY <1>0, <1>1, <1>2, <1>7, RoundGoesOn
  <2>2. p2 = p + next.width /\ mode2 = next.mode
    BY <2>1
  <2>3. next.width \in {1, 2} /\ p + next.width <= N + 1 /\ next.mode \in Modes
    BY <1>0, <1>1, <1>7, ScanGoesOn
  <2>4. p2 > n + 1 /\ p2 \in 1..(N + 1)
    BY <1>0, <1>1, <1>4, <2>2, <2>3
  <2>5. PICK i \in Starts(s) : Midway(s, at, n, i)
    BY <1>0, <1>7 DEF Scanned
  <2>6. /\ i \in 1..N /\ i <= p
        /\ IF mode = "code" THEN i = p ELSE Within(s, i, p, mode)
        /\ \A k \in Starts(s) : k <= i => Seen(at, n + 1, k)
    BY <1>3, <1>5, <2>5 DEF Midway
  <2>7. Follows(s, i, next, p)
    BY <1>0, <1>1, <1>7, <2>6, ScanFollows
  <2> HIDE DEF next, p, mode, p2, mode2
  <2>8. CASE next.mode = "code"
    <3>1. After(s, i) = p2
      BY <2>2, <2>7, <2>8 DEF Follows
    <3>2. \A k \in Starts(s) : k <= i \/ p2 <= k
      BY <1>0, <1>5, <2>6, <3>1, NoneBetween
    <3>3. CASE p2 = N + 1
      <4>1. \A k \in Starts(s) : Seen(at, n + 1, k)
        BY <1>0, <1>5, <2>6, <3>2, <3>3
      <4> QED
        BY <2>4, <3>3, <4>1 DEF Scanned, p2
    <3>4. CASE p2 # N + 1
      <4>1. p2 \in Starts(s)
        BY <3>1, <3>4, StartsFollow
      <4>2. Seen(at, n + 1, p2)
        <5>1. at[n + 1] = <<p2, "code">>
          BY <2>1, <2>2, <2>8
        <5> QED
          BY <1>0, <5>1 DEF Seen
      <4>3. \A k \in Starts(s) : k <= p2 => Seen(at, n + 1, k)
        BY <1>0, <1>5, <2>4, <2>6, <3>2, <4>2
      <4>4. Midway(s, at, n + 1, p2)
        BY <2>2, <2>4, <2>8, <4>1, <4>3 DEF Midway, p2, mode2
      <4> QED
        BY <2>4, <4>1, <4>4 DEF Scanned, p2
    <3> QED
      BY <3>3, <3>4
  <2>9. CASE next.mode # "code"
    <3>1. Within(s, i, p2, mode2) /\ mode2 # "code"
      BY <2>2, <2>7, <2>9 DEF Follows
    <3>2. i <= p2
      BY <1>1, <2>2, <2>3, <2>6
    <3>3. Midway(s, at, n + 1, i)
      BY <2>6, <3>1, <3>2 DEF Midway, p2, mode2
    <3> QED
      BY <2>4, <3>3 DEF Scanned, p2
  <2> QED
    BY <2>8, <2>9
<1> QED
  BY <1>0, <1>1, <1>6, <1>7

LEMMA OpenWhereStarts ==
  ASSUME NEW s \in Text
  PROVE  InTheOpen(s) = Starts(s)
<1> DEFINE N == Len(s)
<1>0. N \in Nat
  BY DEF Text
<1>1. PICK at : PassedBy(s, at) /\ Passed(s) = {at[n] : n \in 0..N}
  BY PassedAreRounds
<1>2. at[0] = <<1, "code">>
  BY <1>0, <1>1 DEF PassedBy
<1>3. Scanned(s, at, 0)
  <2>1. CASE s = <<>>
    <3>1. N = 0 /\ Starts(s) = {}
      BY <2>1, StartsFollow
    <3> QED
      BY <1>2, <3>1 DEF Scanned
  <2>2. CASE s # <<>>
    <3>1. 1 \in Starts(s)
      BY <2>2, StartsFollow
    <3>2. \A k \in Starts(s) : k <= 1 => Seen(at, 0, k)
      <4>1. Starts(s) \subseteq 1..N
        BY StartsFollow
      <4> QED
        BY <1>0, <1>2, <4>1 DEF Seen
    <3>3. Midway(s, at, 0, 1)
      BY <1>2, <3>1, <3>2 DEF Midway
    <3> QED
      BY <1>2, <3>1, <3>3 DEF Scanned
  <2> QED
    BY <2>1, <2>2
<1>4. \A n \in 0..N : Scanned(s, at, n)
  <2> DEFINE S == {n \in Nat : n <= N => Scanned(s, at, n)}
  <2>1. 0 \in S
    BY <1>3
  <2>2. ASSUME NEW n \in Nat, n \in S PROVE n + 1 \in S
    BY <1>0, <1>1, <2>2, ScannedNext
  <2> HIDE DEF S
  <2>3. Nat \subseteq S
    BY <2>1, <2>2, Induction
  <2> QED
    BY <2>3, <1>0 DEF S
<1>5. ASSUME NEW i \in InTheOpen(s) PROVE i \in Starts(s)
  <2>1. i \in 1..N /\ <<i, "code">> \in Passed(s)
    BY <1>5 DEF InTheOpen
  <2>2. PICK n \in 0..N : at[n] = <<i, "code">>
    BY <1>1, <2>1
  <2>3. at[n][1] = i /\ at[n][2] = "code" /\ i # N + 1
    BY <1>0, <2>1, <2>2
  <2>4. PICK k \in Starts(s) : Midway(s, at, n, k)
    BY <1>4, <2>3 DEF Scanned
  <2> QED
    BY <2>3, <2>4 DEF Midway
<1>6. ASSUME NEW i \in Starts(s) PROVE i \in InTheOpen(s)
  <2>1. i \in 1..N
    BY StartsFollow
  <2>2. Seen(at, N, i)
    <3>1. at[N][1] \in 1..(N + 1) /\ at[N][2] \in Modes
      BY <1>0, <1>1 DEF PassedBy, Places
    <3>2. at[N][1] = N + 1
      BY <1>0, <1>4, <3>1 DEF Scanned
    <3>3. ASSUME NEW k \in Starts(s), Midway(s, at, N, k) PROVE Seen(at, N, i)
      <4>1. k \in 1..N
        BY StartsFollow
      <4>2. at[N][2] # "code" /\ Within(s, k, N + 1, at[N][2])
        BY <1>0, <3>2, <3>3, <4>1 DEF Midway
      <4>3. After(s, k) = N + 1
        BY <3>1, <4>1, <4>2, AtTheEnd
      <4>4. i <= k
        BY <1>0, <2>1, <4>1, <4>3, NoneBetween
      <4> QED
        BY <3>3, <4>4 DEF Midway
    <3> QED
      BY <1>0, <1>4, <3>3 DEF Scanned
  <2>3. <<i, "code">> \in Passed(s)
    BY <1>1, <2>2 DEF Seen
  <2> QED
    BY <2>1, <2>3 DEF InTheOpen
<1> QED
  BY <1>5, <1>6

-----------------------------------------------------------------------------
(* What a piece holds.                                                     *)

(* A lexeme that is more than a comment or white space.                    *)
Matters(s, i) == ~Two(s, i, "-", "-") /\ ~Two(s, i, "/", "*") /\ s[i] \notin White

LEMMA SolidMatters ==
  ASSUME NEW s \in Text, NEW i \in 1..Len(s)
  PROVE  /\ Solid(SubSeq(s, i, After(s, i) - 1)) <=> Matters(s, i)
         /\ InCode(s, i).mode \in {"line", "block"} <=> Two(s, i, "-", "-") \/ Two(s, i, "/", "*")
         /\ s[i] \in White \cup {";"} => After(s, i) = i + 1
<1> DEFINE e == After(s, i)
           t == SubSeq(s, i, e - 1)
<1>0. Len(s) \in Nat /\ i \in Nat
  BY DEF Text
<1>1. e \in (i + 1)..(Len(s) + 1) /\ LexemeFrom(s, i, e)
  BY AfterEnds
<1>2. /\ t[1] = s[i]
      /\ LineComment(t) <=> LineFrom(s, i, e)
      /\ BlockComment(t) <=> BlockFrom(s, i, e)
  <2>1. e \in Nat /\ 1 <= i /\ i < e /\ e <= Len(s) + 1
    BY <1>0, <1>1
  <2> HIDE DEF e
  <2> QED
    BY <1>0, <2>1, LexemesFrom
<1>3. Follows(s, i, InCode(s, i), i)
  BY RoundInCode
<1> HIDE DEF t
<1>4. CASE Two(s, i, "-", "-")
  <2>1. InCode(s, i) = To("line", 2)
    BY <1>4 DEF InCode, Two
  <2>2. Within(s, i, i + 2, "line")
    BY <1>3, <2>1 DEF Follows, To
  <2>3. i + 2 <= e
    <3>1. i + 2 \in 1..(Len(s) + 1) /\ "line" \in Modes /\ "line" # "code"
      BY <1>0, <1>4 DEF Two, Modes
    <3> QED
      BY <2>2, <3>1, WithinReach
  <2>4. s[i] = "-"
    BY <1>4 DEF Two
  <2>5. LineFrom(s, i, e)
    BY <1>0, <1>1, <2>3, <2>4 DEF LexemeFrom, BlockFrom, Opens, QuotedFrom, Quotes
  <2>6. s[i] \notin White \cup {";"}
    BY <2>4 DEF White, NL
  <2>7. ~Solid(t) /\ ~Matters(s, i)
    BY <1>2, <1>4, <2>5 DEF Solid, Matters
  <2>8. InCode(s, i).mode = "line"
    BY <2>1 DEF To
  <2> QED
    BY <1>4, <2>6, <2>7, <2>8 DEF t, e
<1>5. CASE Two(s, i, "/", "*")
  <2>1. InCode(s, i) = To("block", 2)
    BY <1>5 DEF InCode, Two
  <2>2. Within(s, i, i + 2, "block")
    BY <1>3, <2>1 DEF Follows, To
  <2>3. i + 2 <= e
    <3>1. i + 2 \in 1..(Len(s) + 1) /\ "block" \in Modes /\ "block" # "code"
      BY <1>0, <1>5 DEF Two, Modes
    <3> QED
      BY <2>2, <3>1, WithinReach
  <2>4. s[i] = "/"
    BY <1>5 DEF Two
  <2>5. BlockFrom(s, i, e)
    BY <1>0, <1>1, <2>3, <2>4 DEF LexemeFrom, LineFrom, Dashes, QuotedFrom, Quotes
  <2>6. s[i] \notin White \cup {";"}
    BY <2>4 DEF White, NL
  <2>7. ~Solid(t) /\ ~Matters(s, i)
    BY <1>2, <1>5, <2>5 DEF Solid, Matters
  <2>8. InCode(s, i).mode = "block"
    BY <2>1 DEF To
  <2> QED
    BY <1>5, <2>6, <2>7, <2>8 DEF t, e
<1>6. CASE ~Two(s, i, "-", "-") /\ ~Two(s, i, "/", "*")
  <2>1. ~LineFrom(s, i, e) /\ ~BlockFrom(s, i, e)
    BY <1>0, <1>1, <1>6 DEF LineFrom, BlockFrom, Dashes, Opens, Two
  <2>2. InCode(s, i) = IF s[i] \in Quotes THEN To(s[i], 1) ELSE To("code", 1)
    BY <1>6 DEF InCode, Quotes
  <2>3. InCode(s, i).mode \notin {"line", "block"}
    <3>1. /\ To("code", 1).mode = "code"
          /\ s[i] \in Quotes => To(s[i], 1).mode = s[i] /\ s[i] \notin {"line", "block"}
      BY DEF To, Quotes
    <3> QED
      BY <2>2, <3>1
  <2>4. s[i] \in White \cup {";"} => After(s, i) = i + 1
    <3>1. s[i] \in White \cup {";"} => s[i] \notin Quotes
      BY DEF White, NL, Quotes
    <3>2. To("code", 1).mode = "code" /\ To("code", 1).width = 1
      BY DEF To
    <3> QED
      BY <1>3, <2>2, <3>1, <3>2 DEF Follows
  <2>5. Solid(t) <=> s[i] \notin White
    BY <1>2, <2>1 DEF Solid
  <2> QED
    BY <1>6, <2>3, <2>4, <2>5 DEF Matters, t, e
<1> QED
  BY <1>4, <1>5, <1>6

LEMMA NothingMatters ==
  ASSUME NEW s \in Text
  PROVE  CommentOnly(s) <=> \A i \in Starts(s) : ~Matters(s, i)
<1>1. \A i \in Starts(s) : i \in 1..Len(s)
  BY StartsFollow
<1> QED
  BY <1>1, OpenWhereStarts, SolidMatters DEF CommentOnly, Matters

(* The lexemes of a part that begins where one of them does.               *)
LEMMA LexemesInPart ==
  ASSUME NEW s \in Text, NEW c \in 1..Len(s), NEW d \in c..Len(s),
         NEW i \in 1..(d - c + 1), NEW j \in (i + 1)..(d - c + 2)
  PROVE  LexemeFrom(SubSeq(s, c, d), i, j) <=> LexemeFrom(s, i + c - 1, j + c - 1)
<1> DEFINE t == SubSeq(s, c, d)
<1>0. Len(s) \in Nat /\ c \in Nat /\ d \in Nat /\ i \in Nat /\ j \in Nat
  BY DEF Text
<1>1. t \in Text /\ Len(t) = d - c + 1 /\ \A n \in 1..(d - c + 1) : t[n] = s[c + n - 1]
  <2>1. 1 <= c /\ c <= d + 1 /\ d <= Len(s)
    BY <1>0
  <2> QED
    BY <1>0, <2>1, Part
<1> HIDE DEF t
<1>2. /\ SubSeq(t, i, j - 1) \in Text /\ Len(SubSeq(t, i, j - 1)) = j - i
      /\ \A n \in 1..(j - i) : SubSeq(t, i, j - 1)[n] = t[i + n - 1]
  <2>1. j - 1 \in Nat /\ 1 <= i /\ i <= (j - 1) + 1 /\ j - 1 <= Len(t) /\ (j - 1) - i + 1 = j - i
    BY <1>0, <1>1
  <2> QED
    BY <1>0, <1>1, <2>1, Part
<1> DEFINE u == SubSeq(s, i + c - 1, (j + c - 1) - 1)
<1>3. u \in Text /\ Len(u) = j - i /\ \A n \in 1..(j - i) : u[n] = s[(i + c - 1) + n - 1]
  <2>1. /\ i + c - 1 \in Nat /\ (j + c - 1) - 1 \in Nat /\ 1 <= i + c - 1
        /\ i + c - 1 <= ((j + c - 1) - 1) + 1 /\ (j + c - 1) - 1 <= Len(s)
        /\ ((j + c - 1) - 1) - (i + c - 1) + 1 = j - i
    BY <1>0
  <2> QED
    BY <2>1, Part
<1> HIDE DEF u
<1>4. \A n \in 1..(j - i) : SubSeq(t, i, j - 1)[n] = u[n]
  <2> TAKE n \in 1..(j - i)
  <2>1. i + n - 1 \in 1..(d - c + 1) /\ c + (i + n - 1) - 1 = (i + c - 1) + n - 1
    BY <1>0
  <2> QED
    BY <1>1, <1>2, <1>3, <2>1
<1>5. SubSeq(t, i, j - 1) = u
  BY <1>2, <1>3, <1>4, SeqEqual DEF Text
<1>6. Lexeme(SubSeq(t, i, j - 1)) <=> LexemeFrom(t, i, j)
  <2>1. 1 <= i /\ i < j /\ j <= Len(t) + 1
    BY <1>0, <1>1
  <2> QED
    BY <1>0, <1>1, <2>1, LexemesFrom
<1>7. Lexeme(u) <=> LexemeFrom(s, i + c - 1, j + c - 1)
  <2>1. /\ i + c - 1 \in Nat /\ j + c - 1 \in Nat /\ 1 <= i + c - 1
        /\ i + c - 1 < j + c - 1 /\ j + c - 1 <= Len(s) + 1
    BY <1>0
  <2> QED
    BY <2>1, LexemesFrom DEF u
<1> QED
  BY <1>5, <1>6, <1>7 DEF t

LEMMA AfterInPart ==
  ASSUME NEW s \in Text, NEW c \in 1..Len(s), NEW d \in c..Len(s), NEW i \in 1..(d - c + 1)
  PROVE  After(SubSeq(s, c, d), i) =
           IF After(s, i + c - 1) <= d THEN After(s, i + c - 1) - c + 1 ELSE d - c + 2
<1> DEFINE t == SubSeq(s, c, d)
           k == i + c - 1
           e == After(s, k)
           f == IF e <= d THEN e - c + 1 ELSE d - c + 2
<1>0. Len(s) \in Nat /\ c \in Nat /\ d \in Nat /\ i \in Nat /\ k \in 1..Len(s)
  BY DEF Text
<1>1. t \in Text /\ Len(t) = d - c + 1
  <2>1. 1 <= c /\ c <= d + 1 /\ d <= Len(s)
    BY <1>0
  <2> QED
    BY <1>0, <2>1, Part
<1>2. /\ e \in (k + 1)..(Len(s) + 1) /\ LexemeFrom(s, k, e)
      /\ \A x \in (e + 1)..(Len(s) + 1) : ~LexemeFrom(s, k, x)
  BY <1>0, AfterEnds
<1>3. \A j \in (i + 1)..(d - c + 2) : LexemeFrom(t, i, j) <=> LexemeFrom(s, k, j + c - 1)
  BY LexemesInPart
<1> HIDE DEF t, e
<1>4. CASE e <= d
  <2>1. f = e - c + 1 /\ f \in (i + 1)..(d - c + 1) /\ f + c - 1 = e /\ (f + 1) + c - 1 = e + 1
    BY <1>0, <1>2, <1>4
  <2> HIDE DEF f
  <2>2. LexemeFrom(t, i, f)
    BY <1>0, <1>2, <1>3, <2>1
  <2>3. ~LexemeFrom(t, i, f + 1)
    <3>1. f + 1 \in (i + 1)..(d - c + 2) /\ e + 1 \in (e + 1)..(Len(s) + 1)
      BY <1>0, <1>2, <1>4, <2>1
    <3> QED
      BY <1>2, <1>3, <2>1, <3>1
  <2>4. After(t, i) = f
    <3>1. i \in 1..Len(t) /\ f \in (i + 1)..(Len(t) + 1)
      BY <1>0, <1>1, <2>1
    <3> QED
      BY <1>1, <2>2, <2>3, <3>1, AfterIs
  <2> QED
    BY <2>4 DEF t, f, e
<1>5. CASE ~(e <= d)
  <2>1. f = d - c + 2 /\ f \in (i + 1)..(d - c + 2) /\ f + c - 1 = d + 1 /\ d + 1 <= e
    BY <1>0, <1>2, <1>5
  <2> HIDE DEF f
  <2>2. LexemeFrom(s, k, d + 1)
    <3>1. k \in Nat /\ d + 1 \in Nat /\ e \in Nat /\ k < d + 1
      BY <1>0, <1>2
    <3> QED
      BY <1>2, <2>1, <3>1, Shorter
  <2>3. LexemeFrom(t, i, f)
    BY <1>3, <2>1, <2>2
  <2>4. After(t, i) = f
    <3>1. i \in 1..Len(t) /\ f \in (i + 1)..(Len(t) + 1) /\ f = Len(t) + 1
      BY <1>0, <1>1, <2>1
    <3>2. ~(f <= Len(t))
      BY <1>0, <1>1, <3>1
    <3> QED
      BY <1>1, <2>3, <3>1, <3>2, AfterIs
  <2> QED
    BY <2>4 DEF t, f, e
<1> QED
  BY <1>4, <1>5

LEMMA StartsInPart ==
  ASSUME NEW s \in Text, NEW c \in Starts(s), NEW d \in c..Len(s), NEW i \in 1..(d - c + 1)
  PROVE  i \in Starts(SubSeq(s, c, d)) <=> i + c - 1 \in Starts(s)
<1> DEFINE t == SubSeq(s, c, d)
           Same(n) == n \in Starts(t) <=> n + c - 1 \in Starts(s)
           S == {n \in Nat : n \in 1..(d - c + 1) => Same(n)}
<1>0. Len(s) \in Nat /\ c \in 1..Len(s) /\ d \in Nat /\ i \in Nat
  BY StartsFollow DEF Text
<1>1. t \in Text /\ Len(t) = d - c + 1 /\ t # <<>>
  <2>1. c \in Nat /\ 1 <= c /\ c <= d + 1 /\ d <= Len(s) /\ d - c + 1 # 0
    BY <1>0
  <2>2. t \in Text /\ Len(t) = d - c + 1
    BY <1>0, <2>1, Part
  <2> HIDE DEF t
  <2> QED
    BY <2>1, <2>2, EmptySeq DEF Text
<1>2. \A n \in 1..(d - c + 1) :
        After(t, n) = IF After(s, n + c - 1) <= d THEN After(s, n + c - 1) - c + 1 ELSE d - c + 2
  BY <1>0, AfterInPart
<1> HIDE DEF t
<1>3. ASSUME NEW n \in Nat, \A m \in 0..(n - 1) : m \in S PROVE n \in S
  <2> SUFFICES ASSUME n \in 1..(d - c + 1) PROVE Same(n)
    OBVIOUS
  <2>1. \A m \in 1..(n - 1) : m \in Starts(t) <=> m + c - 1 \in Starts(s)
    <3> TAKE m \in 1..(n - 1)
    <3>1. m \in S /\ m \in 1..(d - c + 1)
      BY <1>0, <1>3
    <3> QED
      BY <3>1
  <2>2. CASE n = 1
    <3>1. 1 \in Starts(t) /\ 1 + c - 1 = c
      BY <1>0, <1>1, StartsFollow
    <3> QED
      BY <2>2, <3>1
  <2>3. CASE n # 1
    <3>1. ASSUME n \in Starts(t) PROVE n + c - 1 \in Starts(s)
      <4>1. PICK k \in Starts(t) : k < n /\ After(t, k) = n
        BY <1>1, <2>3, <3>1, StartsFollow
      <4>2. k \in 1..(n - 1) /\ k \in 1..(d - c + 1)
        <5>1. k \in 1..Len(t)
          BY <1>1, StartsFollow
        <5> QED
          BY <1>0, <1>1, <4>1, <5>1
      <4>3. k + c - 1 \in Starts(s) /\ k + c - 1 \in 1..Len(s)
        BY <2>1, <4>1, <4>2, StartsFollow
      <4>4. After(s, k + c - 1) \in Nat
        BY <1>0, <4>3, AfterEnds
      <4>5. After(s, k + c - 1) <= d /\ After(s, k + c - 1) = n + c - 1
        <5> DEFINE e == After(s, k + c - 1)
        <5>1. n = IF e <= d THEN e - c + 1 ELSE d - c + 2
          BY <1>2, <4>1, <4>2
        <5> HIDE DEF e
        <5> QED
          BY <1>0, <4>4, <5>1 DEF e
      <4> QED
        BY <1>0, <4>3, <4>5, StartsFollow
    <3>2. ASSUME n + c - 1 \in Starts(s) PROVE n \in Starts(t)
      <4>1. PICK k \in Starts(s) : k < n + c - 1 /\ After(s, k) = n + c - 1
        BY <1>0, <2>3, <3>2, StartsFollow
      <4>2. k \in 1..Len(s)
        BY StartsFollow
      <4>3. c <= k
        <5> SUFFICES ASSUME k < c PROVE FALSE
          BY <1>0, <4>2
        <5>1. After(s, k) <= c
          BY NoneBetween
        <5> QED
          BY <1>0, <2>3, <4>1, <5>1
      <4> DEFINE m == k - c + 1
      <4>4. m \in 1..(n - 1) /\ m \in 1..(d - c + 1) /\ m + c - 1 = k
        BY <1>0, <4>1, <4>2, <4>3
      <4> HIDE DEF m
      <4>5. m \in Starts(t)
        BY <2>1, <4>4
      <4>6. After(t, m) = n
        <5>1. After(t, m) = IF After(s, k) <= d THEN After(s, k) - c + 1 ELSE d - c + 2
          BY <1>2, <4>4
        <5> QED
          BY <1>0, <4>1, <5>1
      <4> QED
        BY <1>0, <1>1, <4>5, <4>6, StartsFollow
    <3> QED
      BY <3>1, <3>2
  <2> QED
    BY <2>2, <2>3
<1> HIDE DEF S
<1>4. Nat \subseteq S
  BY <1>3, StrongInduction
<1> QED
  BY <1>0, <1>4 DEF S, t

(* What trimming leaves: nothing of white space, or a part between two     *)
(* characters that are none.                                               *)
LEMMA Trimmed ==
  ASSUME NEW r \in Text
  PROVE  \/ Trim(r) = <<>> /\ \A n \in 1..Len(r) : r[n] \in White
         \/ \E x \in 1..Len(r), y \in 1..Len(r) :
              /\ x <= y /\ Trim(r) = SubSeq(r, x, y)
              /\ \A n \in 1..Len(r) : n < x \/ y < n => r[n] \in White
<1> DEFINE solid == {i \in DOMAIN r : r[i] \notin White}
           first == CHOOSE i \in solid : \A j \in solid : i <= j
           last == CHOOSE i \in solid : \A j \in solid : i >= j
<1>0. Len(r) \in Nat /\ DOMAIN r = 1..Len(r)
  BY DEF Text
<1>1. CASE solid = {}
  <2>1. Trim(r) = <<>>
    BY <1>1 DEF Trim
  <2> QED
    BY <1>0, <1>1, <2>1
<1>2. CASE solid # {}
  <2>1. \E i \in solid : \A j \in solid : i <= j
    <3>1. solid \subseteq Nat
      BY <1>0
    <3> QED
      BY <1>2, <3>1, Least
  <2>2. first \in solid /\ \A j \in solid : first <= j
    BY <2>1
  <2>3. \E i \in solid : \A j \in solid : i >= j
    <3> DEFINE From == {m \in Nat : m <= Len(r) /\ Len(r) - m \in solid}
    <3>1. From # {}
      <4>1. PICK i \in solid : TRUE
        BY <1>2
      <4>2. Len(r) - i \in Nat /\ Len(r) - i <= Len(r) /\ Len(r) - (Len(r) - i) = i
        BY <1>0
      <4> QED
        BY <4>1, <4>2
    <3>2. PICK m \in From : \A k \in From : m <= k
      BY <3>1, Least
    <3>3. ASSUME NEW j \in solid PROVE Len(r) - m >= j
      <4>1. Len(r) - j \in Nat /\ Len(r) - j <= Len(r) /\ Len(r) - (Len(r) - j) = j /\ j \in Nat
        BY <1>0
      <4>2. m <= Len(r) - j
        BY <3>2, <4>1
      <4> QED
        BY <1>0, <4>1, <4>2
    <3> QED
      BY <3>2, <3>3
  <2>4. last \in solid /\ \A j \in solid : last >= j
    BY <2>3
  <2>5. Trim(r) = SubSeq(r, first, last)
    BY <1>2 DEF Trim
  <2> HIDE DEF first, last
  <2>6. first \in 1..Len(r) /\ last \in 1..Len(r) /\ first <= last
    BY <1>0, <2>2, <2>4
  <2>7. ASSUME NEW n \in 1..Len(r), n < first \/ last < n PROVE r[n] \in White
    BY <1>0, <2>2, <2>4, <2>6, <2>7
  <2> QED
    BY <2>5, <2>6, <2>7
<1> QED
  BY <1>1, <1>2

(* Where a piece may end.                                                  *)
PieceEnd(s, b) == b \in TopLevel(s) \cup {Len(s) + 1}

LEMMA PieceEnds ==
  ASSUME NEW s \in Text, NEW b \in Nat, PieceEnd(s, b)
  PROVE  b \in 1..(Len(s) + 1) /\ (b # Len(s) + 1 => s[b] = ";" /\ b \in Starts(s))
<1>1. Len(s) \in Nat /\ Starts(s) \subseteq 1..Len(s)
  BY StartsFollow DEF Text
<1>2. b # Len(s) + 1 => s[b] = ";" /\ b \in Starts(s)
  BY Zenon DEF PieceEnd, TopLevel
<1>3. b \in Starts(s) => b \in 1..Len(s)
  BY <1>1
<1>4. b \in 1..(Len(s) + 1)
  <2>1. CASE b = Len(s) + 1
    BY <1>1, <2>1
  <2>2. CASE b \in Starts(s)
    BY <1>1, <1>3, <2>2
  <2> QED
    BY <1>2, <2>1, <2>2
<1> QED
  BY <1>2, <1>4

(* A piece from a start to before a semicolon, or to the end, is only      *)
(* comments and white space exactly if no lexeme in it is more.            *)
LEMMA PieceMatters ==
  ASSUME NEW s \in Text, NEW a \in Nat, NEW b \in Nat,
         a \in Starts(s) \/ a = Len(s) + 1, a <= b,
         PieceEnd(s, b)
  PROVE  CommentOnly(Trim(SubSeq(s, a, b - 1))) <=>
           \A i \in Starts(s) \cap a..(b - 1) : ~Matters(s, i)
<1> DEFINE r == SubSeq(s, a, b - 1)
           t == Trim(r)
<1>0. Len(s) \in Nat /\ a \in 1..(Len(s) + 1) /\ b \in 1..(Len(s) + 1) /\ a <= b
      /\ Starts(s) \subseteq 1..Len(s)
  <2>1. Len(s) \in Nat /\ Starts(s) \subseteq 1..Len(s)
    BY StartsFollow DEF Text
  <2>2. b \in 1..(Len(s) + 1) /\ a \in 1..(Len(s) + 1)
    <3>1. b \in 1..(Len(s) + 1)
      BY PieceEnds
    <3>2. CASE a = Len(s) + 1
      BY <2>1, <3>1, <3>2
    <3>3. CASE a \in Starts(s)
      BY <2>1, <3>1, <3>3
    <3> QED
      BY <3>1, <3>2, <3>3
  <2> QED
    BY <2>1, <2>2
<1>1. r \in Text /\ Len(r) = b - a /\ \A n \in 1..(b - a) : r[n] = s[a + n - 1]
  <2>1. b - 1 \in Nat /\ 1 <= a /\ a <= (b - 1) + 1 /\ b - 1 <= Len(s) /\ (b - 1) - a + 1 = b - a
    BY <1>0
  <2> QED
    BY <1>0, <2>1, Part
<1> HIDE DEF r
<1>2. CASE t = <<>> /\ \A n \in 1..Len(r) : r[n] \in White
  <2>1. <<>> \in Text /\ Len(<<>>) = 0
    BY EmptySeq DEF Text
  <2>2. Starts(<<>>) = {}
    BY <2>1, StartsFollow
  <2>3. CommentOnly(t)
    BY <1>2, <2>1, <2>2, NothingMatters
  <2>4. ASSUME NEW i \in Starts(s) \cap a..(b - 1) PROVE ~Matters(s, i)
    <3>1. i - a + 1 \in 1..(b - a) /\ a + (i - a + 1) - 1 = i
      BY <1>0
    <3>2. s[i] \in White
      BY <1>1, <1>2, <3>1
    <3> QED
      BY <3>2 DEF Matters
  <2> QED
    BY <2>3, <2>4 DEF t, r
<1>3. ASSUME NEW x \in 1..Len(r), NEW y \in 1..Len(r), x <= y, t = SubSeq(r, x, y),
             \A n \in 1..Len(r) : n < x \/ y < n => r[n] \in White
      PROVE  CommentOnly(t) <=> \A i \in Starts(s) \cap a..(b - 1) : ~Matters(s, i)
  <2> DEFINE c == a + x - 1
             d == a + y - 1
  <2>0. /\ c \in a..(b - 1) /\ d \in c..(b - 1) /\ c \in 1..Len(s) /\ d \in c..Len(s)
        /\ a \in Nat /\ b \in Nat /\ c \in Nat /\ d \in Nat /\ x \in Nat /\ y \in Nat
        /\ d - c = y - x
    BY <1>0, <1>1, <1>3
  <2>1. t = SubSeq(s, c, d) /\ t \in Text /\ Len(t) = d - c + 1
        /\ \A n \in 1..(d - c + 1) : t[n] = s[c + n - 1]
    <3>1. /\ t \in Text /\ Len(t) = y - x + 1
          /\ \A n \in 1..(y - x + 1) : t[n] = r[x + n - 1]
      <4>1. 1 <= x /\ x <= y + 1 /\ y <= Len(r)
        BY <1>1, <1>3, <2>0
      <4> HIDE DEF t
      <4> QED
        BY <1>1, <1>3, <2>0, <4>1, Part
    <3> DEFINE u == SubSeq(s, c, d)
    <3> HIDE DEF t, c, d
    <3>2. u \in Text /\ Len(u) = d - c + 1 /\ \A n \in 1..(d - c + 1) : u[n] = s[c + n - 1]
      <4>1. 1 <= c /\ c <= d + 1 /\ d <= Len(s)
        BY <1>0, <2>0
      <4> QED
        BY <2>0, <4>1, Part
    <3> HIDE DEF u
    <3>3. \A n \in 1..(d - c + 1) : t[n] = s[c + n - 1]
      <4> TAKE n \in 1..(d - c + 1)
      <4>1. x + n - 1 \in 1..(b - a) /\ a + (x + n - 1) - 1 = c + n - 1
        BY <1>0, <1>1, <1>3, <2>0 DEF c
      <4>2. n \in 1..(y - x + 1)
        BY <2>0
      <4> QED
        BY <1>1, <3>1, <4>1, <4>2
    <3>4. t = u
      <4>1. Len(t) = Len(u) /\ \A n \in 1..Len(t) : t[n] = u[n]
        BY <2>0, <3>1, <3>2, <3>3
      <4> QED
        BY <3>1, <3>2, <4>1, SeqEqual DEF Text
    <3> QED
      BY <2>0, <3>1, <3>3, <3>4 DEF u
  <2>2. \A n \in a..(b - 1) : n < c \/ d < n => s[n] \in White
    <3> TAKE n \in a..(b - 1)
    <3> HAVE n < c \/ d < n
    <3>1. /\ n - a + 1 \in 1..Len(r) /\ a + (n - a + 1) - 1 = n
          /\ n - a + 1 < x \/ y < n - a + 1
      BY <1>0, <1>1, <2>0
    <3>2. r[n - a + 1] = s[n]
      BY <1>1, <3>1
    <3> QED
      BY <1>3, <3>1, <3>2
  <2> HIDE DEF t, c, d
  <2>3. c \in Starts(s)
    <3> DEFINE S == {n \in Nat : a + n <= c => a + n \in Starts(s)}
    <3>1. 0 \in S
      <4>1. a \in Starts(s)
        BY <1>0, <2>0
      <4> QED
        BY <2>0, <4>1
    <3>2. ASSUME NEW n \in Nat, n \in S PROVE n + 1 \in S
      <4> SUFFICES ASSUME a + (n + 1) <= c PROVE a + (n + 1) \in Starts(s)
        OBVIOUS
      <4>1. a + n \in Starts(s) /\ a + n \in a..(b - 1) /\ a + n < c /\ a + n \in 1..Len(s)
            /\ a + (n + 1) = (a + n) + 1
        BY <1>0, <2>0, <3>2
      <4>2. s[a + n] \in White
        BY <2>2, <4>1
      <4>3. After(s, a + n) = (a + n) + 1
        BY <4>1, <4>2, SolidMatters
      <4>4. (a + n) + 1 # Len(s) + 1
        BY <1>0, <2>0, <4>1
      <4> QED
        BY <4>1, <4>3, <4>4, StartsFollow
    <3> HIDE DEF S
    <3>3. Nat \subseteq S
      BY <3>1, <3>2, Induction
    <3>4. c - a \in S /\ a + (c - a) = c
      BY <2>0, <3>3
    <3> QED
      BY <2>0, <3>4 DEF S
  <2>4. d < Len(s) => s[d + 1] \in White \cup {";"}
    <3> HAVE d < Len(s)
    <3>1. CASE d + 1 \in a..(b - 1)
      <4>1. d < d + 1
        BY <2>0
      <4>2. s[d + 1] \in White
        BY <2>2, <3>1, <4>1
      <4> QED
        BY <4>2
    <3>2. CASE d + 1 = b
      <4>1. b # Len(s) + 1
        BY <1>0, <2>0, <3>2
      <4>2. s[b] = ";"
        BY <4>1, PieceEnds
      <4> QED
        BY <3>2, <4>2
    <3>3. d + 1 \in a..(b - 1) \/ d + 1 = b
      BY <1>0, <2>0
    <3> QED
      BY <3>1, <3>2, <3>3
  <2>5. ASSUME NEW n \in 1..(d - c + 1) PROVE Matters(t, n) <=> Matters(s, c + n - 1)
    <3>1. t[n] = s[c + n - 1]
      BY <2>1
    <3>2. \A v, w \in {"-", "*", "/"} : Two(t, n, v, w) <=> Two(s, c + n - 1, v, w)
      <4>1. CASE n < d - c + 1
        <5>1. t[n + 1] = s[(c + n - 1) + 1] /\ c + n - 1 < Len(s) /\ n < Len(t)
          <6>1. n + 1 \in 1..(d - c + 1) /\ c + (n + 1) - 1 = (c + n - 1) + 1 /\ c + n - 1 < Len(s)
            BY <1>0, <2>0, <4>1
          <6> QED
            BY <2>1, <4>1, <6>1
        <5> QED
          BY <3>1, <5>1 DEF Two
      <4>2. CASE n = d - c + 1
        <5>1. ~(n < Len(t)) /\ c + n - 1 = d /\ (c + n - 1) + 1 = d + 1
          BY <2>0, <2>1, <4>2
        <5>2. d < Len(s) => s[d + 1] \notin {"-", "*", "/"}
          BY <2>4 DEF White, NL
        <5> QED
          BY <5>1, <5>2 DEF Two
      <4> QED
        BY <2>0, <4>1, <4>2
    <3> QED
      BY <3>1, <3>2 DEF Matters
  <2>6. \A n \in 1..(d - c + 1) : n \in Starts(t) <=> c + n - 1 \in Starts(s)
    <3> TAKE n \in 1..(d - c + 1)
    <3>1. n \in Starts(SubSeq(s, c, d)) <=> n + c - 1 \in Starts(s)
      BY <2>0, <2>3, StartsInPart
    <3>2. n + c - 1 = c + n - 1
      BY <2>0
    <3> QED
      BY <2>1, <3>1, <3>2
  <2>7. CommentOnly(t) <=> \A n \in Starts(t) : ~Matters(t, n)
    BY <2>1, NothingMatters
  <2>8. Starts(t) \subseteq 1..(d - c + 1)
    BY <2>1, StartsFollow
  <2>9. ASSUME CommentOnly(t), NEW i \in Starts(s) \cap a..(b - 1) PROVE ~Matters(s, i)
    <3>1. CASE i < c \/ d < i
      BY <2>2, <3>1 DEF Matters
    <3>2. CASE i \in c..d
      <4> DEFINE n == i - c + 1
      <4>1. n \in 1..(d - c + 1) /\ c + n - 1 = i
        BY <2>0, <3>2
      <4> HIDE DEF n
      <4> QED
        BY <2>5, <2>6, <2>7, <2>9, <4>1
    <3> QED
      BY <2>0, <3>1, <3>2
  <2>10. ASSUME \A i \in Starts(s) \cap a..(b - 1) : ~Matters(s, i), NEW n \in Starts(t)
         PROVE  ~Matters(t, n)
    <3>1. n \in 1..(d - c + 1)
      BY <2>8
    <3>2. c + n - 1 \in Starts(s) /\ c + n - 1 \in a..(b - 1)
      <4>1. c + n - 1 \in a..(b - 1)
        BY <2>0, <3>1
      <4> QED
        BY <2>6, <3>1, <4>1
    <3> QED
      BY <2>5, <2>10, <3>1, <3>2
  <2> QED
    BY <2>7, <2>9, <2>10
<1> QED
  <2>1. \/ t = <<>> /\ \A n \in 1..Len(r) : r[n] \in White
        \/ \E x \in 1..Len(r), y \in 1..Len(r) :
             /\ x <= y /\ t = SubSeq(r, x, y)
             /\ \A n \in 1..Len(r) : n < x \/ y < n => r[n] \in White
    BY <1>1, Trimmed
  <2> QED
    BY <1>2, <1>3, <2>1 DEF r

-----------------------------------------------------------------------------
(* The statements, in order.                                               *)

Sorts(f, S, n) == f \in [1..n -> S] /\ \A a, b \in 1..n : a < b => f[a] < f[b]

LEMMA AscendingIs ==
  ASSUME NEW S, S \subseteq Nat, IsFiniteSet(S)
  PROVE  Cardinality(S) \in Nat /\ Sorts(Ascending(S), S, Cardinality(S))
<1> DEFINE HasOrder(X, n) == \E f : Sorts(f, X, n)
           T == {n \in Nat : \A X \in SUBSET Nat :
                               IsFiniteSet(X) /\ Cardinality(X) = n => HasOrder(X, n)}
<1>1. 0 \in T
  <2> SUFFICES ASSUME NEW X \in SUBSET Nat PROVE HasOrder(X, 0)
    OBVIOUS
  <2>1. 1..0 = {}
    OBVIOUS
  <2>2. Sorts([k \in 1..0 |-> k], X, 0)
    BY <2>1 DEF Sorts
  <2> QED
    BY <2>2
<1>2. ASSUME NEW n \in Nat, n \in T PROVE n + 1 \in T
  <2> SUFFICES ASSUME NEW X \in SUBSET Nat, IsFiniteSet(X), Cardinality(X) = n + 1
               PROVE  HasOrder(X, n + 1)
    OBVIOUS
  <2>1. X # {}
    BY FS_EmptySet
  <2>2. PICK m \in X : \A k \in X : m <= k
    BY <2>1, Least
  <2> DEFINE Y == X \ {m}
  <2>3. IsFiniteSet(Y) /\ Cardinality(Y) = n
    <3>1. IsFiniteSet(Y) /\ Cardinality(Y) = Cardinality(X) - 1
      BY FS_RemoveElement
    <3> QED
      BY <3>1
  <2>4. PICK f : Sorts(f, Y, n)
    BY <1>2, <2>3
  <2>5. f \in [1..n -> Y] /\ \A a, b \in 1..n : a < b => f[a] < f[b]
    BY <2>4 DEF Sorts
  <2> DEFINE g == [k \in 1..(n + 1) |-> IF k = 1 THEN m ELSE f[k - 1]]
  <2>6. \A k \in 2..(n + 1) : g[k] = f[k - 1] /\ k - 1 \in 1..n /\ g[k] \in X /\ m < g[k]
    <3> TAKE k \in 2..(n + 1)
    <3>1. k - 1 \in 1..n /\ k \in 1..(n + 1) /\ k # 1
      OBVIOUS
    <3>2. g[k] = f[k - 1] /\ f[k - 1] \in Y
      BY <2>5, <3>1
    <3>3. f[k - 1] \in Nat /\ m \in Nat /\ m <= f[k - 1] /\ m # f[k - 1]
      BY <2>2, <3>2
    <3> QED
      BY <3>1, <3>2, <3>3
  <2>7. g[1] = m
    OBVIOUS
  <2>8. g \in [1..(n + 1) -> X]
    <3>1. \A k \in 1..(n + 1) : k = 1 \/ k \in 2..(n + 1)
      OBVIOUS
    <3>2. \A k \in 1..(n + 1) : g[k] \in X
      <4> HIDE DEF g
      <4> QED
        BY <2>6, <2>7, <3>1
    <3> QED
      BY <3>2
  <2>9. \A a, b \in 1..(n + 1) : a < b => g[a] < g[b]
    <3> TAKE a, b \in 1..(n + 1)
    <3> HAVE a < b
    <3>1. b \in 2..(n + 1)
      OBVIOUS
    <3> HIDE DEF g
    <3>2. CASE a = 1
      BY <2>6, <2>7, <3>1, <3>2
    <3>3. CASE a # 1
      <4>1. a \in 2..(n + 1) /\ a - 1 < b - 1
        BY <3>3
      <4> QED
        BY <2>5, <2>6, <3>1, <4>1
    <3> QED
      BY <3>2, <3>3
  <2> HIDE DEF g
  <2>10. Sorts(g, X, n + 1)
    BY <2>8, <2>9 DEF Sorts
  <2> QED
    BY <2>10
<1> HIDE DEF T
<1>3. Nat \subseteq T
  BY <1>1, <1>2, Induction
<1>4. Cardinality(S) \in Nat
  BY FS_CardinalityType
<1>5. PICK f : Sorts(f, S, Cardinality(S))
  BY <1>3, <1>4 DEF T
<1>6. f \in [1..Cardinality(S) -> S] /\ \A a, b \in DOMAIN f : a < b => f[a] < f[b]
  BY <1>5 DEF Sorts
<1>7. /\ Ascending(S) \in [1..Cardinality(S) -> S]
      /\ \A a, b \in DOMAIN Ascending(S) : a < b => Ascending(S)[a] < Ascending(S)[b]
  BY <1>6, Zenon DEF Ascending
<1> QED
  BY <1>4, <1>7 DEF Sorts

(* The pieces begin where a lexeme does, and end before a semicolon.       *)
Cutting(s) == Ascending(TopLevel(s) \cup {Len(s) + 1})
PieceStart(s, n) == IF n = 1 THEN 1 ELSE Cutting(s)[n - 1] + 1

LEMMA PieceBounds ==
  ASSUME NEW s \in Text
  PROVE  \E m \in Nat :
           /\ DOMAIN Cutting(s) = 1..m
           /\ \A n \in 1..m :
                /\ Cutting(s)[n] \in Nat /\ PieceEnd(s, Cutting(s)[n])
                /\ PieceStart(s, n) \in Nat /\ PieceStart(s, n) <= Cutting(s)[n]
                /\ PieceStart(s, n) \in Starts(s) \/ PieceStart(s, n) = Len(s) + 1
<1> DEFINE N == Len(s)
           C == TopLevel(s) \cup {N + 1}
           m == Cardinality(C)
           f == Cutting(s)
<1>0. N \in Nat /\ Starts(s) \subseteq 1..N
  BY StartsFollow DEF Text
<1>1. TopLevel(s) \subseteq Starts(s)
  BY Zenon DEF TopLevel
<1> HIDE DEF N
<1>2. C \subseteq 1..(N + 1)
  BY <1>0, <1>1
<1>3. C \subseteq Nat /\ IsFiniteSet(C)
  <2>1. IsFiniteSet(1..(N + 1))
    BY <1>0, FS_Interval
  <2> QED
    BY <1>0, <1>2, <2>1, FS_Subset
<1> HIDE DEF C
<1>4. m \in Nat /\ Sorts(f, C, m)
  BY <1>3, AscendingIs DEF Cutting, C, N
<1> HIDE DEF m, f
<1>5. /\ f \in [1..m -> C]
      /\ \A a, b \in 1..m : a < b => f[a] < f[b]
  BY <1>4 DEF Sorts
<1>6. DOMAIN f = 1..m
  BY <1>5
<1>7. ASSUME NEW n \in 1..m
      PROVE  /\ f[n] \in Nat /\ PieceEnd(s, f[n])
             /\ PieceStart(s, n) \in Nat /\ PieceStart(s, n) <= f[n]
             /\ PieceStart(s, n) \in Starts(s) \/ PieceStart(s, n) = N + 1
  <2>1. f[n] \in C /\ f[n] \in 1..(N + 1) /\ f[n] \in Nat
    BY <1>2, <1>3, <1>5
  <2>2. PieceEnd(s, f[n])
    BY <2>1 DEF PieceEnd, C, N
  <2>3. CASE n = 1
    <3>1. PieceStart(s, n) = 1
      BY <2>3 DEF PieceStart
    <3>2. 1 \in Starts(s) \/ 1 = N + 1
      <4>1. CASE s = <<>>
        BY <4>1, EmptySeq DEF N
      <4>2. CASE s # <<>>
        BY <4>2, StartsFollow
      <4> QED
        BY <4>1, <4>2
    <3> QED
      BY <2>1, <2>2, <3>1, <3>2
  <2>4. CASE n # 1
    <3>1. n - 1 \in 1..m /\ n - 1 < n
      BY <1>4, <2>4
    <3> DEFINE k == f[n - 1]
    <3>2. k \in C /\ k \in 1..(N + 1) /\ k < f[n]
      BY <1>2, <1>5, <3>1
    <3>3. PieceStart(s, n) = k + 1
      BY <2>4 DEF PieceStart, f
    <3> HIDE DEF k
    <3>4. k # N + 1 /\ k + 1 <= f[n] /\ k \in Nat /\ k \in 1..N
      BY <1>0, <2>1, <3>2
    <3>5. s[k] = ";" /\ k \in Starts(s)
      <4>1. PieceEnd(s, k)
        BY <3>2 DEF PieceEnd, C, N
      <4> QED
        BY <3>4, <4>1, PieceEnds DEF N
    <3>6. After(s, k) = k + 1
      BY <3>4, <3>5, SolidMatters DEF N
    <3>7. k + 1 \in Starts(s) \/ k + 1 = N + 1
      BY <3>5, <3>6, StartsFollow DEF N
    <3> QED
      BY <2>1, <2>2, <3>3, <3>4, <3>7
  <2> QED
    BY <2>3, <2>4
<1> QED
  BY <1>4, <1>6, <1>7 DEF f, N

(* The scanner cuts where the lexemes say, and keeps what matters.         *)
LEMMA SplitsText ==
  ASSUME NEW s \in Text
  PROVE  SplitSqlStatements(s) = Meant(s)
<1> DEFINE ends == Cutting(s)
           piece == [n \in DOMAIN ends |-> Trim(SubSeq(s, PieceStart(s, n), ends[n] - 1))]
           Holds(n) == \E i \in Starts(s) \cap PieceStart(s, n)..(ends[n] - 1) :
                         Solid(SubSeq(s, i, After(s, i) - 1))
           K == {n \in DOMAIN piece : ~CommentOnly(piece[n])}
           H == {n \in DOMAIN ends : Holds(n)}
           keptK == Ascending(K)
           keptH == Ascending(H)
<1>1. Cuts(s) = TopLevel(s)
  BY Zenon, OpenWhereStarts DEF Cuts, TopLevel
<1>2. Pieces(s, Cuts(s)) = piece
  BY <1>1 DEF Pieces, Cutting, PieceStart
<1>3. SplitSqlStatements(s) = [n \in DOMAIN keptK |-> piece[keptK[n]]]
  BY <1>2 DEF SplitSqlStatements
<1>4. Meant(s) = [n \in DOMAIN keptH |->
                   Trim(SubSeq(s, PieceStart(s, keptH[n]), ends[keptH[n]] - 1))]
  BY DEF Meant, Cutting, PieceStart
<1>5. PICK m \in Nat :
        /\ DOMAIN ends = 1..m
        /\ \A n \in 1..m :
             /\ ends[n] \in Nat /\ PieceEnd(s, ends[n])
             /\ PieceStart(s, n) \in Nat /\ PieceStart(s, n) <= ends[n]
             /\ PieceStart(s, n) \in Starts(s) \/ PieceStart(s, n) = Len(s) + 1
  BY PieceBounds
<1>6. ASSUME NEW n \in 1..m PROVE ~CommentOnly(piece[n]) <=> Holds(n)
  <2>1. piece[n] = Trim(SubSeq(s, PieceStart(s, n), ends[n] - 1))
    BY <1>5
  <2>2. CommentOnly(piece[n]) <=>
          \A i \in Starts(s) \cap PieceStart(s, n)..(ends[n] - 1) : ~Matters(s, i)
    <3> HIDE DEF ends, piece
    <3> QED
      BY <1>5, <2>1, PieceMatters
  <2>3. \A i \in Starts(s) : Solid(SubSeq(s, i, After(s, i) - 1)) <=> Matters(s, i)
    <3>1. Starts(s) \subseteq 1..Len(s)
      BY StartsFollow
    <3> QED
      BY <3>1, SolidMatters
  <2> HIDE DEF piece, ends
  <2> QED
    BY <2>2, <2>3
<1>7. K = H
  <2>1. DOMAIN piece = 1..m
    BY <1>5
  <2> HIDE DEF piece, ends, Holds
  <2> QED
    BY <1>5, <1>6, <2>1
<1>8. DOMAIN keptH = 1..Cardinality(H) /\ \A n \in DOMAIN keptH : keptH[n] \in DOMAIN ends
  <2>1. H \subseteq 1..m
    BY <1>5
  <2> HIDE DEF H
  <2>2. H \subseteq Nat /\ IsFiniteSet(H)
    <3>1. IsFiniteSet(1..m)
      BY FS_Interval
    <3>2. H \subseteq Nat
      BY <2>1
    <3>3. IsFiniteSet(H)
      BY <2>1, <3>1, FS_Subset
    <3> QED
      BY <3>2, <3>3
  <2>3. Sorts(keptH, H, Cardinality(H))
    BY <2>2, AscendingIs
  <2> QED
    BY <1>5, <2>1, <2>3 DEF Sorts
<1>9. \A n \in DOMAIN keptH :
        piece[keptH[n]] = Trim(SubSeq(s, PieceStart(s, keptH[n]), ends[keptH[n]] - 1))
  <2> HIDE DEF keptH, ends
  <2> QED
    BY <1>8
<1>10. keptK = keptH
  BY <1>7
<1> HIDE DEF keptK, keptH, piece, ends
<1> QED
  BY <1>3, <1>4, <1>9, <1>10

(* Whatever is typed: the statements split_sql_statements sends on are     *)
(* those the lexemes of the buffer mean, for buffers of any length.        *)
THEOREM SplitsAlwaysAsMeant == BufferSpec => []SplitsAsMeant
<1>1. BufferInit => buffer \in Text
  BY DEF BufferInit, Text
<1>2. buffer \in Text /\ [BufferNext]_buffer => (buffer \in Text)'
  <2> SUFFICES ASSUME buffer \in Text, [BufferNext]_buffer PROVE buffer' \in Text
    OBVIOUS
  <2>1. ASSUME NEW c \in Chars, Type(c) PROVE buffer' \in Text
    BY <2>1, AppendProperties DEF Type, Text
  <2>2. CASE Filled
    BY <2>2 DEF Filled
  <2>3. CASE UNCHANGED buffer
    BY <2>3
  <2> QED
    BY <2>1, <2>2, <2>3 DEF BufferNext
<1>3. buffer \in Text => SplitsAsMeant
  BY SplitsText DEF SplitsAsMeant
<1> QED
  BY <1>1, <1>2, <1>3, PTL DEF BufferSpec
=============================================================================
