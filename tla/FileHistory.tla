---------------------------- MODULE FileHistory ----------------------------
(***************************************************************************)
(* What the Studio workspace promises about the contents of its files: an  *)
(* edit keeps what it replaces in the file's history, and a file ceases to *)
(* exist only from the trash.  `gaps' are the files with an edit that       *)
(* replaced a content which was never kept.                                 *)
(***************************************************************************)
CONSTANTS Files, Texts, Blank, None

VARIABLES
  current,   \* the content of each file, or None
  kept,      \* the earlier contents each file can be restored to
  trash,     \* the files in the trash
  gaps       \* the files whose history may lack a content

vars == <<current, kept, trash, gaps>>

Init ==
  /\ current = [f \in Files |-> None]
  /\ kept = [f \in Files |-> {}]
  /\ trash = {}
  /\ gaps = {}

Create(f, c) ==
  /\ current[f] = None
  /\ current' = [current EXCEPT ![f] = c]
  /\ UNCHANGED <<kept, trash, gaps>>

\* A content that is or was the file's enters the history.  Only in a file
\* with gaps may it be one that was replaced without being kept.
Retain(f, c) ==
  /\ current[f] # None
  /\ c = current[f] \/ f \in gaps
  /\ kept' = [kept EXCEPT ![f] = @ \cup {c}]
  /\ UNCHANGED <<current, trash, gaps>>

Edit(f, c) ==
  /\ current[f] \in kept[f] \cup {Blank}
  /\ current' = [current EXCEPT ![f] = c]
  /\ UNCHANGED <<kept, trash, gaps>>

\* An edit that replaces a content nobody kept is on record as a gap.
EditWithGap(f, c) ==
  /\ current[f] # None
  /\ current' = [current EXCEPT ![f] = c]
  /\ gaps' = gaps \cup {f}
  /\ UNCHANGED <<kept, trash>>

Discard(F) ==
  /\ \A f \in F : current[f] # None
  /\ trash' = trash \cup F
  /\ UNCHANGED <<current, kept, gaps>>

Recover(f) ==
  /\ f \in trash
  /\ trash' = trash \ {f}
  /\ UNCHANGED <<current, kept, gaps>>

Remove(F) ==
  /\ F \subseteq trash
  /\ current' = [f \in Files |-> IF f \in F THEN None ELSE current[f]]
  /\ kept' = [f \in Files |-> IF f \in F THEN {} ELSE kept[f]]
  /\ trash' = trash \ F
  /\ UNCHANGED gaps

Next ==
  \/ \E f \in Files, c \in Texts :
       Create(f, c) \/ Retain(f, c) \/ Edit(f, c) \/ EditWithGap(f, c)
  \/ \E f \in Files : Recover(f)
  \/ \E F \in SUBSET Files : Discard(F) \/ Remove(F)

Spec == Init /\ [][Next]_vars
=============================================================================
