----------------------------- MODULE ModelCards -----------------------------
(***************************************************************************)
(* The model-card registry of computeza-compliance: a JSONL file and its   *)
(* cache.  create looks for a duplicate under the read lock, appends a     *)
(* line with no lock held and enters the card into the cache afterwards;   *)
(* delete holds the write lock while it rewrites the file beside the old   *)
(* one and renames it into place.  A client that hangs up, or an I/O       *)
(* error, ends a request at any await.                                     *)
(***************************************************************************)
EXTENDS Naturals, Sequences, SequencesExt

CONSTANTS
  Ids,        \* the identifiers of cards
  Clients,    \* requests at work at a time
  NoId,
  MaxAsked    \* bound: requests ever asked

ASSUME CardsAssumption == NoId \notin Ids /\ MaxAsked \in Nat

VARIABLES
  attached,   \* the server is up, and could read the file
  cached,     \* the cards in memory
  written,    \* the lines of the file that have their newline
  unended,    \* what stands after the last newline
  inode,      \* how often the file has been replaced
  clerk,      \* what each request is doing
  asked,      \* how many requests have come in
  promised,   \* history: what the last answer about each card said
  disturbed   \* history: cards whose request was cut off or overtaken

registryVars == <<attached, cached, written, unended, inode, clerk, asked, promised, disturbed>>

AtRest == [stage |-> "rest", id |-> NoId, handle |-> 0]

RegistryInit ==
  /\ attached = TRUE /\ cached = {} /\ written = {} /\ unended = <<>> /\ inode = 0
  /\ clerk = [c \in Clients |-> AtRest]
  /\ asked = 0
  /\ promised = [id \in Ids |-> "gone"]
  /\ disturbed = {}

Turn(c, stage) == clerk' = [clerk EXCEPT ![c].stage = stage]
IsAt(c, stage) == clerk[c].stage = stage

(* The write lock is held while a delete rewrites.                         *)
Unlocked == \A c \in Clients : ~IsAt(c, "rewrite")

Answer(c, word) ==
  /\ clerk' = [clerk EXCEPT ![c] = AtRest]
  /\ promised' = [promised EXCEPT ![clerk[c].id] = word]

Come(c) ==
  /\ attached /\ IsAt(c, "rest") /\ asked < MaxAsked
  /\ asked' = asked + 1
  /\ \E id \in Ids, stage \in {"check", "retain"} :
       clerk' = [clerk EXCEPT ![c] = [stage |-> stage, id |-> id, handle |-> 0]]
  /\ UNCHANGED <<attached, cached, written, unended, inode, promised, disturbed>>

-----------------------------------------------------------------------------
(* create: refuse a duplicate or a prohibited classification; open the     *)
(* file to append, whichever file has the name by now.                     *)
Check(c) ==
  /\ IsAt(c, "check") /\ Unlocked
  /\ \/ clerk[c].id \notin cached /\ Turn(c, "open")
     \/ clerk' = [clerk EXCEPT ![c] = AtRest]
  /\ UNCHANGED <<attached, cached, written, unended, inode, asked, promised, disturbed>>

OpenFile(c) ==
  /\ IsAt(c, "open")
  /\ clerk' = [clerk EXCEPT ![c].stage = "line", ![c].handle = inode]
  /\ UNCHANGED <<attached, cached, written, unended, inode, asked, promised, disturbed>>

(* What is appended to a file that was replaced is gone with it.           *)
AppendLine(c) ==
  LET id == clerk[c].id IN
  /\ IsAt(c, "line")
  /\ Turn(c, "newline")
  /\ unended' = IF clerk[c].handle # inode THEN unended ELSE Append(unended, id)
  /\ UNCHANGED <<attached, cached, written, inode, asked, promised, disturbed>>

AppendNewline(c) ==
  /\ IsAt(c, "newline")
  /\ Turn(c, "push")
  /\ IF clerk[c].handle # inode THEN UNCHANGED <<written, unended>>
     ELSE written' = written \cup {unended} /\ unended' = <<>>
  /\ UNCHANGED <<attached, cached, inode, asked, promised, disturbed>>

Push(c) ==
  /\ IsAt(c, "push") /\ Unlocked
  /\ cached' = cached \cup {clerk[c].id}
  /\ Answer(c, "there")
  /\ UNCHANGED <<attached, written, unended, inode, asked, disturbed>>

-----------------------------------------------------------------------------
Retain(c) ==
  LET id == clerk[c].id IN
  /\ IsAt(c, "retain") /\ Unlocked
  /\ cached' = cached \ {id}
  /\ IF cached' = cached THEN Answer(c, "gone")
     ELSE Turn(c, "rewrite") /\ UNCHANGED promised
  /\ UNCHANGED <<attached, written, unended, inode, asked, disturbed>>

Creating == {clerk[c].id : c \in {d \in Clients :
               clerk[d].stage \in {"line", "newline", "push"}}}

(* (A mistake: the new file is put in place before the card is left out.)  *)
RenameAll(c) ==
  LET id == clerk[c].id IN
  /\ IsAt(c, "rewrite")
  /\ written' = {<<other>> : other \in cached \cup {id}} /\ unended' = <<>>
  /\ inode' = inode + 1
  /\ Answer(c, "gone")
  /\ disturbed' = disturbed \cup Creating
  /\ UNCHANGED <<attached, cached, asked>>

(* The file now holds what the cache holds, whatever creates have appended *)
(* in the meantime.                                                        *)
Rename(c) ==
  /\ IsAt(c, "rewrite")
  /\ written' = {<<id>> : id \in cached} /\ unended' = <<>>
  /\ inode' = inode + 1
  /\ Answer(c, "gone")
  /\ disturbed' = disturbed \cup Creating
  /\ UNCHANGED <<attached, cached, asked>>

-----------------------------------------------------------------------------
(* An error, or the client hangs up, at an await; a line may be written in *)
(* part.                                                                   *)
Cut(c) ==
  /\ ~IsAt(c, "rest")
  /\ clerk' = [clerk EXCEPT ![c] = AtRest]
  /\ disturbed' = IF clerk[c].stage \in {"check", "open", "retain"} THEN disturbed
                  ELSE disturbed \cup {clerk[c].id}
  /\ unended' \in IF IsAt(c, "line") /\ clerk[c].handle = inode
               THEN {unended, Append(unended, NoId)} ELSE {unended}
  /\ UNCHANGED <<attached, cached, written, inode, asked, promised>>

(* The lines that are not blank.                                           *)
Lines == (written \cup {unended}) \ {<<>>}

(* The server dies with every request, and opens the file again: each line *)
(* must be one card, or the console goes on without a registry.            *)
Restart ==
  /\ clerk' = [c \in Clients |-> AtRest]
  /\ disturbed' = disturbed \cup {clerk[c].id : c \in {d \in Clients :
                    clerk[d].stage \in {"line", "newline", "push", "rewrite"}}}
  /\ attached' = \A line \in Lines : Len(line) = 1 /\ line # <<NoId>>
  /\ cached' = IF attached' THEN {line[1] : line \in Lines} ELSE {}
  /\ UNCHANGED <<written, unended, inode, asked, promised>>

RegistryNext ==
  \/ \E c \in Clients :
       \/ Come(c) \/ Check(c) \/ OpenFile(c) \/ AppendLine(c) \/ AppendNewline(c)
       \/ Push(c) \/ Retain(c) \/ Rename(c) \/ Cut(c)
  \/ Restart

RegistrySpec == RegistryInit /\ [][RegistryNext]_registryVars

-----------------------------------------------------------------------------
Filed(id) == \E line \in Lines : Contains(line, id)

(* An answer holds until the next request about that card: what was        *)
(* registered is in memory and in the file, what was deleted in neither,   *)
(* across restarts; unless a request about the card was cut off or its     *)
(* append was overtaken by a rewrite.  (Where an append was cut in two, or *)
(* two overlapped, the next start cannot read the file and goes on without *)
(* a registry.)                                                            *)
AnswersHold ==
  attached => \A id \in Ids \ disturbed :
    (\A c \in Clients : clerk[c].id # id) =>
      IF promised[id] = "there" THEN id \in cached /\ Filed(id)
      ELSE id \notin cached /\ ~Filed(id)
=============================================================================
