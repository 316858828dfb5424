------------------------------ MODULE License ------------------------------
(***************************************************************************)
(* The licence envelope: its verification against the trusted root and the *)
(* clock, the file that keeps it, the copy in memory that the kill-switch  *)
(* reads, and the handlers and the boot that move it between the two.      *)
(***************************************************************************)
EXTENDS Integers

CONSTANTS
  Envelopes,   \* the envelopes operators can paste
  Roots,       \* the trusted roots of successive binaries
  Admins,      \* activation and deactivation requests at work at once
  Day,         \* clock ticks a day
  WarnDays,    \* 30 in the code
  MaxClock,    \* bound: when the clock stops
  NoLicense,   \* no file; Community mode in memory
  Torn         \* a file that does not parse

ASSUME LicenseAssumption ==
  /\ Day \in Nat \ {0} /\ WarnDays \in Nat /\ MaxClock \in Nat
  /\ NoLicense \notin Envelopes /\ Torn \notin Envelopes
  /\ \A e \in Envelopes :
       /\ e.chain \in Nat /\ e.signed \in BOOLEAN
       /\ {e.pqSignature, e.pqKey} \subseteq {"none", "base64", "garbage"}
       /\ e.notBefore \in Int /\ e.notAfter \in Int

VARIABLES
  clock,
  root,       \* the key this binary trusts
  file,       \* license.json
  older,      \* what a power loss may leave in place of the file: what it was
              \* before it last reached the disk, or a torn one
  memory,     \* AppState::license
  admin,      \* what each request is about to do
  astray      \* history: file and memory may differ, and why is on record

licenseVars == <<clock, root, file, older, memory, admin, astray>>

-----------------------------------------------------------------------------
(* verify, status.                                                         *)

\* The first check that fails, in the code's order.
Verify(e, key, now) ==
  IF e.chain < 2 THEN "malformed"
  ELSE IF e.anchor # key THEN "bad-anchor"
  ELSE IF ~e.signed THEN "bad-signature"
  ELSE IF (e.pqSignature = "none") # (e.pqKey = "none")
          \/ "garbage" \in {e.pqSignature, e.pqKey} THEN "malformed"
  ELSE IF now < e.notBefore THEN "not-yet-valid"
  ELSE IF now > e.notAfter THEN "expired"
  ELSE "ok"

AtLeast(n, low) == IF n < low THEN low ELSE n
NumDays(ticks) == ticks \div Day

\* (A mistake: whole days are compared where the code compares instants.)
StatusByDay(e, key, now) ==
  LET verdict == Verify(e, key, now) IN
  CASE verdict \in {"ok", "expired"} ->
         IF NumDays(now) <= NumDays(e.notAfter)
         THEN [kind |-> "active", days |-> AtLeast(NumDays(e.notAfter - now), 0)]
         ELSE [kind |-> "expired", days |-> 1]
    [] verdict = "not-yet-valid" -> [kind |-> "not-yet-valid", days |-> 1]
    [] OTHER -> [kind |-> "invalid", days |-> 0]

Status(e, key, now) ==
  LET verdict == Verify(e, key, now) IN
  CASE verdict = "ok" ->
         [kind |-> "active", days |-> AtLeast(NumDays(e.notAfter - now), 0)]
    [] verdict = "expired" ->
         [kind |-> "expired", days |-> AtLeast(NumDays(now - e.notAfter), 1)]
    [] verdict = "not-yet-valid" ->
         [kind |-> "not-yet-valid", days |-> AtLeast(NumDays(e.notBefore - now), 1)]
    [] OTHER -> [kind |-> "invalid", days |-> 0]

LicenseStatus ==
  IF memory = NoLicense THEN [kind |-> "none", days |-> 0]
  ELSE Status(memory, root, clock)

AllowMutations == LicenseStatus.kind \in {"active", "none"}
ShouldWarn ==
  LicenseStatus.kind # "none"
  /\ (LicenseStatus.kind = "active" => LicenseStatus.days <= WarnDays)

-----------------------------------------------------------------------------
(* The file and the handlers.                                              *)

AtRest == [stage |-> "idle", envelope |-> NoLicense, raced |-> FALSE]

LicenseInit ==
  /\ clock = 0
  /\ root \in Roots
  /\ file = NoLicense /\ older = {}
  /\ memory = NoLicense
  /\ admin = [a \in Admins |-> AtRest]
  /\ astray = FALSE

\* What boot makes of the file: no file and an unreadable one are Community
\* mode, and an envelope is held whether it verifies or not.
Loaded(f) == IF f = Torn THEN NoLicense ELSE f

\* Everyone else at work now races with a.
Racing(a, next) ==
  LET busy == {b \in Admins \ {a} : admin[b].stage # "idle"} IN
  [b \in Admins |-> IF b = a THEN [next EXCEPT !.raced = @ \/ busy # {}]
                    ELSE [admin[b] EXCEPT !.raced = @ \/ b \in busy]]

\* Activate: parse and verify, before the await on the memory's lock write the
\* file; a refused envelope or a failed write changes nothing.
Activate(a) == \E e \in Envelopes :
  /\ admin[a].stage = "idle"
  /\ Verify(e, root, clock) = "ok"
  /\ file' = e /\ older' = older \cup {file, Torn}
  /\ admin' = Racing(a, [stage |-> "remember", envelope |-> e, raced |-> FALSE])
  /\ astray' = TRUE
  /\ UNCHANGED <<clock, root, memory>>

\* Deactivate: remove the file; the result of that is ignored.
Deactivate(a) ==
  /\ admin[a].stage = "idle"
  /\ \/ file' = NoLicense /\ older' = older \cup {file}
        /\ admin' = Racing(a, [stage |-> "remember", envelope |-> NoLicense, raced |-> FALSE])
     \/ file # NoLicense /\ UNCHANGED <<file, older>>
        /\ admin' = Racing(a, [stage |-> "remember", envelope |-> NoLicense, raced |-> TRUE])
  /\ astray' = TRUE
  /\ UNCHANGED <<clock, root, memory>>

\* (A mistake: what was activated is remembered only when memory is empty.)
RememberFirst(a) ==
  /\ admin[a].stage = "remember"
  /\ memory' = IF admin[a].envelope = NoLicense \/ memory = NoLicense
               THEN admin[a].envelope ELSE memory
  /\ astray' = admin[a].raced
  /\ admin' = [admin EXCEPT ![a] = AtRest]
  /\ UNCHANGED <<clock, root, file, older>>

\* Then the memory.  A request nothing raced with leaves both the same.
Remember(a) ==
  /\ admin[a].stage = "remember"
  /\ memory' = admin[a].envelope
  /\ astray' = admin[a].raced
  /\ admin' = [admin EXCEPT ![a] = AtRest]
  /\ UNCHANGED <<clock, root, file, older>>

\* The request is dropped at that await.
Abandon(a) ==
  /\ admin[a].stage = "remember"
  /\ admin' = [admin EXCEPT ![a] = AtRest]
  /\ UNCHANGED <<clock, root, file, older, memory, astray>>

\* The server stops and boots again, maybe a newer binary with another root.
\* After a power loss a file that had not reached the disk may be torn, or be
\* what it was before.
Restart ==
  /\ admin' = [a \in Admins |-> AtRest]
  /\ root' \in Roots
  /\ \/ UNCHANGED <<file, older>>
     \/ file' \in {file} \cup older /\ older' = {}
  /\ memory' = Loaded(file')
  /\ astray' = FALSE
  /\ UNCHANGED clock

Settle ==
  /\ older # {} /\ older' = {}
  /\ UNCHANGED <<clock, root, file, memory, admin, astray>>

Tick ==
  /\ clock < MaxClock
  /\ clock' = clock + 1
  /\ UNCHANGED <<root, file, older, memory, admin, astray>>

LicenseNext ==
  \/ \E a \in Admins : Activate(a) \/ Deactivate(a) \/ Remember(a) \/ Abandon(a)
  \/ Restart \/ Settle \/ Tick

LicenseSpec == LicenseInit /\ [][LicenseNext]_licenseVars

-----------------------------------------------------------------------------

LicenseTypeOK ==
  /\ clock \in 0..MaxClock /\ root \in Roots
  /\ file \in Envelopes \cup {NoLicense, Torn}
  /\ memory \in Envelopes \cup {NoLicense}
  /\ older \subseteq Envelopes \cup {NoLicense, Torn} /\ astray \in BOOLEAN
  /\ \A a \in Admins : admin[a].stage = "idle" <=> admin[a] = AtRest

\* The console is what a restart of the same binary would make it, once the
\* last activation or deactivation has answered and nothing overlapped it, was
\* dropped, or failed to remove the file since.
MemoryIsWhatBootLoads == astray \/ memory = Loaded(file)

\* The kill-switch opens and closes exactly with the window of an envelope the
\* root signed, at every instant of it, and nobody is locked out unwarned: the
\* banner shows for as many days before the last instant as it promises, and
\* every count of days it shows is right to the day.
KillSwitchFollowsTheDates ==
  LET e == memory  now == clock  genuine ==
        e.chain >= 2 /\ e.anchor = root /\ e.signed
        /\ <<e.pqSignature, e.pqKey>> \in {<<"none", "none">>, <<"base64", "base64">>}
  IN memory # NoLicense =>
     /\ AllowMutations <=> (genuine /\ now \in e.notBefore..e.notAfter)
     /\ (genuine /\ e.notAfter - now <= WarnDays * Day) => ShouldWarn
     /\ LicenseStatus.kind = "active" =>
          e.notAfter - now \in LicenseStatus.days * Day..(LicenseStatus.days + 1) * Day - 1
     /\ LicenseStatus.kind \in {"expired", "not-yet-valid"} => LicenseStatus.days >= 1
=============================================================================
