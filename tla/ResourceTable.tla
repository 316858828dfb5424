---------------------------- MODULE ResourceTable ----------------------------
(***************************************************************************)
(* What the Store trait of computeza-state promises about one table of     *)
(* resources, with no transactions and no requests: every change is a      *)
(* single atomic create, revision, observation or removal of one row.      *)
(***************************************************************************)
EXTENDS Naturals

CONSTANTS Keys, Specs, Statuses, Null

VARIABLES
  rows,    \* key -> row, or NoRow
  minted   \* the number of uuids handed out so far

vars == <<rows, minted>>

NoRow == [uuid |-> 0, revision |-> 0, spec |-> Null, status |-> Null]

Init ==
  /\ rows = [k \in Keys |-> NoRow]
  /\ minted = 0

(* A created row has a uuid nobody had before, revision 1 and no status.   *)
Create(k, s) ==
  /\ rows[k] = NoRow
  /\ minted' = minted + 1
  /\ rows' = [rows EXCEPT ![k] = [uuid |-> minted + 1, revision |-> 1,
                                  spec |-> s, status |-> Null]]

(* A revised row keeps its uuid and status; the revision grows by one.     *)
Revise(k, s) ==
  /\ rows[k] # NoRow
  /\ rows' = [rows EXCEPT ![k] = [uuid |-> rows[k].uuid,
                                  revision |-> rows[k].revision + 1,
                                  spec |-> s, status |-> rows[k].status]]
  /\ UNCHANGED minted

(* An observation touches the status alone.                                *)
Observe(k, st) ==
  /\ rows[k] # NoRow
  /\ rows' = [rows EXCEPT ![k] = [uuid |-> rows[k].uuid,
                                  revision |-> rows[k].revision,
                                  spec |-> rows[k].spec, status |-> st]]
  /\ UNCHANGED minted

Remove(k) ==
  /\ rows[k] # NoRow
  /\ rows' = [rows EXCEPT ![k] = NoRow]
  /\ UNCHANGED minted

Next ==
  \E k \in Keys :
    \/ \E s \in Specs : Create(k, s) \/ Revise(k, s)
    \/ \E st \in Statuses : Observe(k, st)
    \/ Remove(k)

Spec == Init /\ [][Next]_vars
=============================================================================
