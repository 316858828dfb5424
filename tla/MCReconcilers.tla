---------------------------- MODULE MCReconcilers ----------------------------
\* The tick that observes every component, and the passes over one PostgreSQL
\* server; a behaviour exercises one of them.
EXTENDS Observations, PostgresReconciler
VARIABLE part

Reconcile == <<tickVars, passVars, part>>

\* One reconciler of each sort whose observation can fail.
Detecting == <<"postgres", "kanidm", "sail">>

\* A name of over 63 bytes of which PostgreSQL keeps "a".
Cut == [n \in {"a", "a long", "b", "my db", "postgres"} |-> IF n = "a long" THEN "a" ELSE n]

MCInit ==
  /\ TickInit /\ PassInit /\ part \in {"ticks", "passes"}
  /\ part = "ticks" => databases = System /\ desired = {} /\ ~prune
  /\ part = "passes" =>
       /\ databases \in {System, Whole} /\ token
       /\ \A c \in Components : server[c] = "up" /\ row[c] = None

Ticks(A) == part = "ticks" /\ A /\ UNCHANGED <<part, passVars>>
Passes(A) == part = "passes" /\ A /\ UNCHANGED <<part, tickVars>>

MCSpec ==
  /\ MCInit /\ [][Ticks(TickNext) \/ Passes(PassNext)]_Reconcile
  /\ WF_Reconcile(Ticks(List))
  /\ \A o \in Observers : WF_Reconcile(Ticks(Request(o))) /\ WF_Reconcile(Ticks(Persist(o)))
=============================================================================
