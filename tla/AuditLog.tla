------------------------------ MODULE AuditLog ------------------------------
(***************************************************************************)
(* The signed, hash-chained audit log of computeza-audit: the file, the    *)
(* writer that appends to it under a mutex, recovery on open, and verify.  *)
(*                                                                         *)
(* append writes the event, then the newline, then syncs, and only then    *)
(* advances the sequence number and the chain head it keeps in memory.  An *)
(* I/O error, or the HTTP handler's future being dropped, can end it at    *)
(* any of its awaits; a crash can end it anywhere and cut off whatever was *)
(* not synced.  An event stands for its JSON line: its id for body and     *)
(* signature, and so for the digest of both.                               *)
(***************************************************************************)
EXTENDS Naturals, Sequences, SequencesExt

CONSTANTS
  MaxEvents   \* bound on the number of events ever signed

ASSUME MaxEventsAssumption == MaxEvents \in Nat \ {0}

VARIABLES
  lines,    \* the newline-terminated lines of the file
  tail,     \* what follows the last newline
  synced,   \* how many lines are known to be on disk
  server,   \* the server: up, down, or refusing to start
  mem,      \* next_seq and chain_head of the writer
  cur,      \* the append holding the mutex, if any
  numbered, \* number of events signed so far
  acked,    \* ids of the events whose append returned Ok, in that order
  hurt      \* history: some append or crash left unfinished bytes behind

logVars == <<lines, tail, synced, server, mem, cur, numbered, acked, hurt>>

(* A line is the sequence of pieces written between two newlines: events,  *)
(* and Torn for an event of which only a part was written.                 *)
Event == [id : 1..MaxEvents, seq : Nat, prev : 0..MaxEvents]
Torn == [id |-> 0, seq |-> 0, prev |-> 0]
Line == Seq(Event \cup {Torn})

(* serde_json::from_slice accepts exactly one whole event.                 *)
Parses(line) == Len(line) = 1 /\ line[1] # Torn

(* split on newline, empty pieces skipped.                                 *)
Text == IF tail = <<>> THEN lines ELSE Append(lines, tail)

Genesis == [seq |-> 0, head |-> 0]
NoAppend == [pc |-> "idle", event |-> Torn]

LogTypeOK ==
  /\ lines \in Seq(Line) /\ tail \in Line
  /\ synced \in 0..Len(lines)
  /\ server \in {"up", "down", "refused"}
  /\ mem \in [seq : Nat, head : 0..MaxEvents]
  /\ cur \in [pc : {"idle", "signed", "written", "closed"}, event : Event \cup {Torn}]
  /\ numbered \in 0..MaxEvents
  /\ acked \in Seq(1..MaxEvents)
  /\ hurt \in BOOLEAN

LogInit ==
  /\ lines = <<>> /\ tail = <<>> /\ synced = 0
  /\ server = "up" /\ mem = Genesis /\ cur = NoAppend
  /\ numbered = 0 /\ acked = <<>> /\ hurt = FALSE

-----------------------------------------------------------------------------
(* append, between one await and the next.                                 *)

Sign ==
  /\ server = "up" /\ cur.pc = "idle"
  /\ numbered < MaxEvents
  /\ numbered' = numbered + 1
  /\ cur' = [pc |-> "signed",
             event |-> [id |-> numbered + 1, seq |-> mem.seq, prev |-> mem.head]]
  /\ UNCHANGED <<lines, tail, synced, server, mem, acked, hurt>>

WriteLine ==
  /\ cur.pc = "signed"
  /\ tail' = Append(tail, cur.event)
  /\ cur' = [cur EXCEPT !.pc = "written"]
  /\ UNCHANGED <<lines, synced, server, mem, numbered, acked, hurt>>

WriteNewline ==
  /\ cur.pc = "written"
  /\ lines' = Append(lines, tail)
  /\ tail' = <<>>
  /\ cur' = [cur EXCEPT !.pc = "closed"]
  /\ UNCHANGED <<synced, server, mem, numbered, acked, hurt>>

(* The writer's state after an event: of append, and of recovery.          *)
After(e) == [seq |-> e.seq + 1, head |-> e.id]

(* Acknowledging what the disk does not have yet.                          *)
AdvanceWithoutSync ==
  /\ cur.pc = "closed"
  /\ mem' = After(cur.event)
  /\ acked' = Append(acked, cur.event.id)
  /\ cur' = NoAppend
  /\ UNCHANGED <<lines, tail, synced, server, numbered, hurt>>

SyncAndAdvance ==
  /\ cur.pc = "closed"
  /\ synced' = Len(lines)
  /\ mem' = After(cur.event)
  /\ acked' = Append(acked, cur.event.id)
  /\ cur' = NoAppend
  /\ UNCHANGED <<lines, tail, server, numbered, hurt>>

(* An error from one of the three calls, or the future dropped at one of   *)
(* them: `?` returns before the head and the sequence number advance.      *)
(* What reached the file stays there; a failed write may leave a part.     *)
Abandon ==
  /\ cur.pc # "idle"
  /\ cur' = NoAppend
  /\ \/ tail' = tail
     \/ cur.pc = "signed" /\ tail' = Append(tail, Torn)
  /\ hurt' = (hurt \/ tail' # tail \/ cur.pc # "signed")
  /\ UNCHANGED <<lines, synced, server, mem, numbered, acked>>

-----------------------------------------------------------------------------
(* LogCrash and recovery.                                                     *)

(* What can be left of a line that was being written out.                  *)
Cuts(line) ==
  {SubSeq(line, 1, n) : n \in 0..Len(line)} \cup
  {Append(SubSeq(line, 1, n), Torn) : n \in 0..(Len(line) - 1)}

LogCrash ==
  /\ server = "up"
  /\ server' = "down"
  /\ cur' = NoAppend
  /\ \E n \in synced..Len(lines) :
       /\ lines' = SubSeq(lines, 1, n)
       /\ tail' \in Cuts(IF n < Len(lines) THEN lines[n + 1] ELSE tail)
       /\ synced' = n
  /\ hurt' = (hurt \/ tail' # <<>>)
  /\ UNCHANGED <<mem, numbered, acked>>

(* Recovery that hands out the last sequence number again.                 *)
RecoveredOffByOne ==
  IF Text = <<>> THEN Genesis
  ELSE [seq |-> Last(Text)[1].seq, head |-> Last(Text)[1].id]

(* recover_state: every line must parse; the last one gives the state.     *)
Recovered == IF Text = <<>> THEN Genesis ELSE After(Last(Text)[1])

Open ==
  /\ server = "down"
  /\ \/ /\ \A i \in DOMAIN Text : Parses(Text[i])
        /\ server' = "up"
        /\ mem' = Recovered
     \/ /\ \E i \in DOMAIN Text : ~Parses(Text[i])
        /\ server' = "refused"
        /\ UNCHANGED mem
  /\ UNCHANGED <<lines, tail, synced, cur, numbered, acked, hurt>>

LogNext == Sign \/ WriteLine \/ WriteNewline \/ SyncAndAdvance \/ Abandon \/ LogCrash \/ Open

LogSpec == LogInit /\ [][LogNext]_logVars

-----------------------------------------------------------------------------
(* verify_log, over the lines of a file.  The signature is that of the     *)
(* event as long as the event is one the writer signed.                    *)
InSequence(text, i) == text[i][1].seq = i - 1

(* A verify_log that looks at sequence numbers and signatures alone.       *)
Unchained(text, i) == i \in DOMAIN text

Chained(text, i) == text[i][1].prev = IF i = 1 THEN 0 ELSE text[i - 1][1].id

Verifies(text) ==
  \A i \in DOMAIN text :
    Parses(text[i]) /\ InSequence(text, i) /\ Chained(text, i)

(* The k-th line of a file is the i-th acknowledged event.                 *)
Shows(text, k, i) == text[k][1].id = acked[i]

(* A file has no acknowledged event twice or out of turn, and              *)
InOrder(text) ==
  \A i, j \in DOMAIN acked, k, l \in DOMAIN text :
    Shows(text, k, i) /\ Shows(text, l, j) => (i < j <=> k < l)

(* with one, all those before it.                                          *)
WithoutGap(text) ==
  \A i, j \in DOMAIN acked, l \in DOMAIN text :
    i < j /\ Shows(text, l, j) => \E k \in DOMAIN text : Shows(text, k, i)

-----------------------------------------------------------------------------
(* No silent loss: as long as the file verifies, every event whose append  *)
(* returned Ok is in it, in the order in which they returned, whatever was *)
(* abandoned and wherever the server crashed before.                       *)
NoSilentLoss ==
  Verifies(Text) =>
    /\ InOrder(Text)
    /\ \A i \in DOMAIN acked : \E k \in DOMAIN Text : Shows(Text, k, i)

(* Only unfinished bytes harm the log: while no append and no crash has    *)
(* left any, the writer is at the tip of a log that verifies and holds     *)
(* nothing but whole lines, and the server always reopens it.              *)
UnhurtLogVerifies ==
  ~hurt =>
    /\ server # "refused"
    /\ server = "up" /\ cur.pc = "idle" => tail = <<>> /\ mem = Recovered
    /\ cur.pc # "written" => Verifies(Text)

(* The copies of the log in which lines were deleted or two were swapped.  *)
Deletions(text) ==
  {[i \in 1..(Len(text) - 1) |-> text[IF i < j THEN i ELSE i + 1]] : j \in DOMAIN text}
Truncations(text) == {SubSeq(text, 1, n) : n \in 0..(Len(text) - 1)}
Swaps(text) ==
  {[text EXCEPT ![i] = text[j], ![j] = text[i]] : i \in DOMAIN text, j \in DOMAIN text}
Edits(text) == Deletions(text) \cup Truncations(text) \cup Swaps(text)

(* A verified copy has no gap: of the acknowledged events an edited file   *)
(* that verify_log accepts shows the first ones, without omission and in   *)
(* order, even where the log forked after an abandoned append.             *)
AcceptedEditsOnlyTruncate ==
  \A copy \in Edits(Text) :
    Verifies(copy) => InOrder(copy) /\ WithoutGap(copy)

(* "Truncating, deleting, or reordering events breaks the chain on the     *)
(* very next verify pass": no other, non-empty version of a log whose      *)
(* events were all acknowledged verifies.                                  *)
EditsBreakTheChain ==
  Len(acked) = Len(Text) =>
    \A copy \in Edits(Text) : copy # Text /\ copy # <<>> => ~Verifies(copy)

(* Recovery recomputes the head "so a partially-corrupt last line doesn't  *)
(* poison recovery": the server refuses only a log damaged before that.    *)
TornTailIsRecovered ==
  server = "refused" => \E i \in DOMAIN lines : ~Parses(lines[i])
=============================================================================
