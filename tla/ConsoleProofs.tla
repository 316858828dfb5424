---------------------------- MODULE ConsoleProofs ----------------------------
(***************************************************************************)
(* Proofs about the console's two gates, for all constants.  License: its  *)
(* types, that the kill-switch of a running console is the one a restart   *)
(* would give it, and that it follows the envelope's dates.                *)
(* RequestPipeline: its types, and that the verdict on a request is due,   *)
(* both ways.                                                              *)
(***************************************************************************)
EXTENDS License, RequestPipeline, TLAPS

-----------------------------------------------------------------------------
(* License.                                                                *)

Held == Envelopes \cup {NoLicense}
Work == [stage : {"idle", "remember"}, envelope : Held, raced : BOOLEAN]

AtWork(a) == admin[a].stage = "remember"

\* While a request is between the file and the memory the two may differ.
WorkIsAstray == \A a \in Admins : AtWork(a) => astray

\* Two requests at work know of each other.
OverlapsAreKnown == \A a, b \in Admins : a # b /\ AtWork(a) /\ AtWork(b) => admin[a].raced

\* A request nothing races with is about to remember what the file holds.
FileIsWritten == \A a \in Admins : AtWork(a) /\ ~admin[a].raced => file = admin[a].envelope

LicenseInv ==
  /\ LicenseTypeOK /\ admin \in [Admins -> Work]
  /\ WorkIsAstray /\ OverlapsAreKnown /\ FileIsWritten /\ MemoryIsWhatBootLoads

LEMMA LoadedIsHeld ==
  /\ \A f \in Held \cup {Torn} : Loaded(f) \in Held
  /\ \A f \in Held : Loaded(f) = f
  /\ AtRest \in Work /\ AtRest.stage = "idle"
BY LicenseAssumption DEF Loaded, Held, AtRest, Work

LEMMA LicenseStarts == ASSUME LicenseInit PROVE LicenseInv
<1>. USE DEF LicenseInit
<1>1. LicenseTypeOK /\ admin \in [Admins -> Work]
  <2>1. 0 \in 0..MaxClock
    BY LicenseAssumption
  <2>2. admin \in [Admins -> Work] /\ \A a \in Admins : admin[a] = AtRest
    BY LoadedIsHeld
  <2>3. older = {} /\ astray \in BOOLEAN
    OBVIOUS
  <2> QED BY <2>1, <2>2, <2>3, LoadedIsHeld DEF LicenseTypeOK
<1>2. WorkIsAstray /\ OverlapsAreKnown /\ FileIsWritten
  BY LoadedIsHeld DEF WorkIsAstray, OverlapsAreKnown, FileIsWritten, AtWork
<1>3. MemoryIsWhatBootLoads
  BY LoadedIsHeld DEF MemoryIsWhatBootLoads, Held
<1> QED BY <1>1, <1>2, <1>3 DEF LicenseInv

\* A request that starts makes every other one at work a raced one, and is
\* raced itself if there is any.
LEMMA RacingIs ==
  ASSUME admin \in [Admins -> Work], LicenseTypeOK,
         NEW a \in Admins, NEW next \in Work, next.stage = "remember",
         admin' = Racing(a, next)
  PROVE  /\ admin' \in [Admins -> Work]
         /\ admin'[a].stage = "remember" /\ admin'[a].envelope = next.envelope
         /\ next.raced => admin'[a].raced
         /\ \A b \in Admins \ {a} :
              /\ AtWork(b)' => AtWork(b) /\ admin'[b].raced /\ admin'[a].raced
              /\ ~AtWork(b)' => admin'[b] = AtRest
<1>. DEFINE busy == {b \in Admins \ {a} : admin[b].stage # "idle"}
            own == [next EXCEPT !.raced = @ \/ busy # {}]
            other(b) == [admin[b] EXCEPT !.raced = @ \/ b \in busy]
<1>1. admin' = [b \in Admins |-> IF b = a THEN own ELSE other(b)]
  BY DEF Racing
<1>2. /\ own \in Work /\ own.stage = "remember" /\ own.envelope = next.envelope
      /\ next.raced \/ busy # {} => own.raced
  <2>. HIDE DEF busy
  <2>1. (next.raced \/ busy # {}) \in BOOLEAN
    BY DEF Work
  <2> QED BY <2>1 DEF Work
<1>3. ASSUME NEW b \in Admins
      PROVE  /\ other(b) \in Work /\ other(b).stage = admin[b].stage
             /\ b \in busy => other(b).raced
             /\ b \notin busy => other(b) = admin[b]
  <2>. HIDE DEF busy
  <2>1. admin[b] \in Work /\ (admin[b].raced \/ b \in busy) \in BOOLEAN
    BY DEF Work
  <2>2. b \notin busy => (admin[b].raced \/ b \in busy) = admin[b].raced
    BY <2>1 DEF Work
  <2> QED BY <2>1, <2>2 DEF Work
<1>4. admin' \in [Admins -> Work]
  BY <1>1, <1>2, <1>3
<1>5. admin'[a] = own /\ \A b \in Admins \ {a} : admin'[b] = other(b)
  BY <1>1
<1>6. \A b \in Admins \ {a} : b \in busy <=> AtWork(b)
  BY DEF AtWork, Work
<1>7. \A b \in Admins \ {a} : b \notin busy => admin[b] = AtRest
  BY DEF LicenseTypeOK
<1>8. \A b \in Admins : AtWork(b)' <=> admin'[b].stage = "remember"
  BY DEF AtWork
<1>. HIDE DEF busy, own, other
<1>9. ASSUME NEW b \in Admins \ {a}
      PROVE  /\ AtWork(b)' => AtWork(b) /\ admin'[b].raced /\ admin'[a].raced
             /\ ~AtWork(b)' => admin'[b] = AtRest
  BY <1>2, <1>3, <1>5, <1>6, <1>7, <1>8 DEF AtWork
<1> QED BY <1>2, <1>4, <1>5, <1>9

LEMMA WriteKeepsLicense ==
  ASSUME LicenseInv, NEW a \in Admins, Activate(a) \/ Deactivate(a) PROVE LicenseInv'
<1>. USE DEF LicenseInv
<1>1. PICK next \in Work :
        /\ next.stage = "remember" /\ admin' = Racing(a, next)
        /\ file' = next.envelope \/ (next.raced /\ file' = file)
  <2>. DEFINE work(e, r) == [stage |-> "remember", envelope |-> e, raced |-> r]
  <2>1. ASSUME NEW e \in Held, NEW r \in BOOLEAN
        PROVE  /\ work(e, r) \in Work /\ work(e, r).stage = "remember"
               /\ work(e, r).envelope = e /\ work(e, r).raced = r
    BY DEF Work
  <2>2. CASE Activate(a)
    <3>1. PICK e \in Held : file' = e /\ admin' = Racing(a, work(e, FALSE))
      BY <2>2 DEF Activate, Held
    <3>. HIDE DEF work
    <3> QED BY <2>1, <3>1
  <2>3. CASE Deactivate(a)
    <3>1. \/ file' = NoLicense /\ admin' = Racing(a, work(NoLicense, FALSE))
          \/ file' = file /\ admin' = Racing(a, work(NoLicense, TRUE))
      BY <2>3 DEF Deactivate
    <3>2. NoLicense \in Held
      BY DEF Held
    <3>. HIDE DEF work
    <3> QED BY <2>1, <3>1, <3>2
  <2> QED BY <2>2, <2>3
<1>2. /\ astray' = TRUE /\ UNCHANGED <<clock, root, memory>>
      /\ older' \subseteq Envelopes \cup {NoLicense, Torn}
  BY DEF Activate, Deactivate, LicenseTypeOK
<1>3. /\ admin' \in [Admins -> Work]
      /\ admin'[a].stage = "remember" /\ admin'[a].envelope = next.envelope
      /\ next.raced => admin'[a].raced
      /\ \A b \in Admins \ {a} :
           /\ AtWork(b)' => AtWork(b) /\ admin'[b].raced /\ admin'[a].raced
           /\ ~AtWork(b)' => admin'[b] = AtRest
  BY <1>1, RacingIs
<1>4. file' \in Held \cup {Torn}
  BY <1>1 DEF LicenseTypeOK, Held, Work
<1>5. \A b \in Admins : AtWork(b)' <=> admin'[b].stage = "remember"
  BY DEF AtWork
<1>6. LicenseTypeOK'
  BY <1>2, <1>3, <1>4, <1>5, LoadedIsHeld DEF LicenseTypeOK, Held
<1>7. WorkIsAstray' /\ MemoryIsWhatBootLoads'
  BY <1>2 DEF WorkIsAstray, MemoryIsWhatBootLoads
<1>8. OverlapsAreKnown'
  BY <1>3 DEF OverlapsAreKnown
<1>9. FileIsWritten'
  BY <1>1, <1>3 DEF FileIsWritten
<1> QED BY <1>3, <1>6, <1>7, <1>8, <1>9

LEMMA AnswerKeepsLicense ==
  ASSUME LicenseInv, NEW a \in Admins, Remember(a) \/ Abandon(a) PROVE LicenseInv'
<1>. USE DEF LicenseInv
<1>1. /\ AtWork(a) /\ admin' = [admin EXCEPT ![a] = AtRest]
      /\ UNCHANGED <<clock, root, file, older>>
  BY DEF Remember, Abandon, AtWork
<1>2. /\ admin' \in [Admins -> Work] /\ admin'[a] = AtRest
      /\ \A b \in Admins \ {a} : admin'[b] = admin[b]
  BY <1>1, LoadedIsHeld
<1>3. \A b \in Admins : AtWork(b)' => b # a /\ AtWork(b) /\ admin'[b] = admin[b]
  BY <1>2, LoadedIsHeld DEF AtWork
<1>4. astray' = astray \/ (astray' = admin[a].raced /\ memory' = admin[a].envelope)
  BY DEF Remember, Abandon
<1>5. LicenseTypeOK'
  BY <1>1, <1>2, LoadedIsHeld DEF Remember, Abandon, LicenseTypeOK, Work, Held
<1>6. WorkIsAstray'
  BY <1>1, <1>3, <1>4 DEF WorkIsAstray, OverlapsAreKnown
<1>7. OverlapsAreKnown'
  BY <1>3 DEF OverlapsAreKnown
<1>8. FileIsWritten'
  BY <1>1, <1>3 DEF FileIsWritten
<1>9. MemoryIsWhatBootLoads'
  <2>1. CASE Abandon(a)
    BY <2>1 DEF Abandon, MemoryIsWhatBootLoads
  <2>2. CASE Remember(a)
    <3>1. ~admin[a].raced => file = admin[a].envelope /\ file \in Held
      BY <1>1 DEF FileIsWritten, Work
    <3> QED BY <1>1, <2>2, <3>1, LoadedIsHeld DEF Remember, MemoryIsWhatBootLoads
  <2> QED BY <2>1, <2>2
<1> QED BY <1>2, <1>5, <1>6, <1>7, <1>8, <1>9

LEMMA RestartKeepsLicense == ASSUME LicenseInv, Restart PROVE LicenseInv'
<1>. USE DEF LicenseInv, Restart
<1>1. admin' \in [Admins -> Work] /\ \A a \in Admins : admin'[a] = AtRest
  BY LoadedIsHeld
<1>2. file' \in Held \cup {Torn}
  BY DEF LicenseTypeOK, Held
<1>3. LicenseTypeOK'
  BY <1>1, <1>2, LoadedIsHeld DEF LicenseTypeOK, Held
<1>4. WorkIsAstray' /\ OverlapsAreKnown' /\ FileIsWritten'
  BY <1>1, LoadedIsHeld DEF WorkIsAstray, OverlapsAreKnown, FileIsWritten, AtWork
<1>5. MemoryIsWhatBootLoads'
  BY DEF MemoryIsWhatBootLoads, Loaded
<1> QED BY <1>1, <1>3, <1>4, <1>5

LEMMA StepKeepsLicense == ASSUME LicenseInv, [LicenseNext]_licenseVars PROVE LicenseInv'
<1>1. ASSUME UNCHANGED <<root, file, memory, admin, astray>>,
             clock' \in 0..MaxClock, older' \subseteq Envelopes \cup {NoLicense, Torn}
      PROVE  LicenseInv'
  BY <1>1 DEF LicenseInv, LicenseTypeOK, WorkIsAstray, OverlapsAreKnown, FileIsWritten,
              MemoryIsWhatBootLoads, AtWork, Loaded
<1>2. CASE Settle \/ Tick \/ UNCHANGED licenseVars
  <2>1. UNCHANGED <<root, file, memory, admin, astray>>
    BY <1>2 DEF Settle, Tick, licenseVars
  <2>2. clock' \in 0..MaxClock
    BY <1>2, LicenseAssumption DEF Settle, Tick, licenseVars, LicenseInv, LicenseTypeOK
  <2>3. older \subseteq Envelopes \cup {NoLicense, Torn}
    BY DEF LicenseInv, LicenseTypeOK
  <2>4. older' \in {older, {}}
    BY <1>2 DEF Settle, Tick, licenseVars
  <2>5. older' \subseteq Envelopes \cup {NoLicense, Torn}
    BY <2>3, <2>4
  <2> QED BY <1>1, <2>1, <2>2, <2>5
<1>3. ASSUME NEW a \in Admins, Activate(a) \/ Deactivate(a) PROVE LicenseInv'
  BY <1>3, WriteKeepsLicense
<1>4. ASSUME NEW a \in Admins, Remember(a) \/ Abandon(a) PROVE LicenseInv'
  BY <1>4, AnswerKeepsLicense
<1> QED BY <1>2, <1>3, <1>4, RestartKeepsLicense DEF LicenseNext

LEMMA LicenseInvAlways == LicenseSpec => []LicenseInv
<1>1. LicenseInit => LicenseInv
  BY LicenseStarts
<1>2. LicenseInv /\ [LicenseNext]_licenseVars => LicenseInv'
  BY StepKeepsLicense
<1> QED BY <1>1, <1>2, PTL DEF LicenseSpec

\* File, memory, clock and requests keep their types.
THEOREM LicenseTypeCorrect == LicenseSpec => []LicenseTypeOK
<1>1. LicenseInv => LicenseTypeOK
  BY DEF LicenseInv
<1> QED BY <1>1, LicenseInvAlways, PTL

\* Unless an activation or deactivation was overlapped, dropped between file
\* and memory, or could not remove the file, the envelope the console enforces
\* is the one its next boot loads.
THEOREM MemoryMatchesBoot == LicenseSpec => []MemoryIsWhatBootLoads
<1>1. LicenseInv => MemoryIsWhatBootLoads
  BY DEF LicenseInv
<1> QED BY <1>1, LicenseInvAlways, PTL

(* The kill-switch follows the dates.                                      *)

LEMMA DivisionBounds ==
  ASSUME NEW n \in Int
  PROVE  /\ NumDays(n) \in Int
         /\ NumDays(n) * Day <= n /\ n < NumDays(n) * Day + Day
BY LicenseAssumption DEF NumDays

LEMMA ProductsCompare ==
  ASSUME NEW a \in Int, NEW b \in Int, a * Day <= b * Day
  PROVE  a <= b
BY LicenseAssumption

\* Days left never go below zero, and say in which day before the end we are.
LEMMA DaysLeft ==
  ASSUME NEW left \in Nat, NEW d, d = AtLeast(NumDays(left), 0)
  PROVE  /\ d \in Nat
         /\ left \in d * Day..(d + 1) * Day - 1
         /\ left <= WarnDays * Day => d <= WarnDays
<1>. DEFINE n == NumDays(left)
<1>1. n \in Int /\ n * Day <= left /\ left < n * Day + Day
  BY DivisionBounds
<1>. HIDE DEF n
<1>2. n >= 0
  <2>1. 0 * Day <= left /\ (n + 1) * Day = n * Day + Day
    BY <1>1, LicenseAssumption
  <2>2. n < 0 => (n + 1) * Day <= 0 * Day
    BY <1>1, LicenseAssumption
  <2> QED BY <1>1, <2>1, <2>2, LicenseAssumption
<1>3. d = n /\ n \in Nat
  BY <1>1, <1>2 DEF AtLeast, n
<1>4. left \in n * Day..(n + 1) * Day - 1
  <2>1. (n + 1) * Day = n * Day + Day /\ n * Day \in Int /\ Day \in Int
    BY <1>1, LicenseAssumption
  <2> QED BY <1>1, <2>1
<1>5. left <= WarnDays * Day => n <= WarnDays
  <2>1. n * Day \in Int /\ WarnDays * Day \in Int /\ WarnDays \in Int
    BY <1>1, LicenseAssumption
  <2>2. left <= WarnDays * Day => n * Day <= WarnDays * Day
    BY <1>1, <2>1
  <2> QED BY <1>1, <2>1, <2>2, ProductsCompare
<1> QED BY <1>3, <1>4, <1>5

Genuine(e, key) ==
  /\ e.chain >= 2 /\ e.anchor = key /\ e.signed
  /\ <<e.pqSignature, e.pqKey>> \in {<<"none", "none">>, <<"base64", "base64">>}

\* The verdict is decided by the seal of the envelope and then by the dates.
LEMMA VerdictIs ==
  ASSUME NEW e \in Envelopes, NEW key, NEW now \in Nat
  PROVE  /\ Verify(e, key, now) = "ok"
              <=> Genuine(e, key) /\ now \in e.notBefore..e.notAfter
         /\ Genuine(e, key) => Verify(e, key, now) \in {"ok", "expired", "not-yet-valid"}
<1>1. /\ e.chain \in Nat /\ e.signed \in BOOLEAN
      /\ e.notBefore \in Int /\ e.notAfter \in Int
      /\ e.pqSignature \in {"none", "base64", "garbage"}
      /\ e.pqKey \in {"none", "base64", "garbage"}
  BY LicenseAssumption
<1>. DEFINE halves ==
       ~((e.pqSignature = "none") # (e.pqKey = "none")
          \/ "garbage" \in {e.pqSignature, e.pqKey})
<1>2. halves <=> <<e.pqSignature, e.pqKey>> \in {<<"none", "none">>, <<"base64", "base64">>}
  BY <1>1
<1>3. Genuine(e, key) <=> e.chain >= 2 /\ e.anchor = key /\ e.signed /\ halves
  BY <1>2 DEF Genuine
<1>4. Verify(e, key, now) =
        IF e.chain < 2 THEN "malformed"
        ELSE IF e.anchor # key THEN "bad-anchor"
        ELSE IF ~e.signed THEN "bad-signature"
        ELSE IF ~halves THEN "malformed"
        ELSE IF now < e.notBefore THEN "not-yet-valid"
        ELSE IF now > e.notAfter THEN "expired" ELSE "ok"
  BY DEF Verify
<1>. HIDE DEF halves
<1>5. now \in e.notBefore..e.notAfter <=> ~(now < e.notBefore) /\ ~(now > e.notAfter)
  BY <1>1
<1>6. e.chain >= 2 <=> ~(e.chain < 2)
  BY <1>1
<1> QED BY <1>3, <1>4, <1>5, <1>6

LEMMA StatusFields ==
  ASSUME NEW kind, NEW days, NEW s, s = [kind |-> kind, days |-> days]
  PROVE  s.kind = kind /\ s.days = days
OBVIOUS

LEMMA SwitchFollows == ASSUME LicenseTypeOK PROVE KillSwitchFollowsTheDates
<1>. DEFINE e == memory  verdict == Verify(memory, root, clock)
<1>. SUFFICES ASSUME memory # NoLicense
              PROVE  /\ AllowMutations <=> (Genuine(e, root) /\ clock \in e.notBefore..e.notAfter)
                     /\ (Genuine(e, root) /\ e.notAfter - clock <= WarnDays * Day) => ShouldWarn
                     /\ LicenseStatus.kind = "active" =>
                          e.notAfter - clock \in LicenseStatus.days * Day
                                               ..(LicenseStatus.days + 1) * Day - 1
                     /\ LicenseStatus.kind \in {"expired", "not-yet-valid"} =>
                          LicenseStatus.days >= 1
  BY DEF KillSwitchFollowsTheDates, Genuine
<1>1. /\ memory \in Envelopes /\ clock \in Nat
      /\ e.notBefore \in Int /\ e.notAfter \in Int
  BY LicenseAssumption DEF LicenseTypeOK
<1>2. /\ verdict = "ok" <=> Genuine(e, root) /\ clock \in e.notBefore..e.notAfter
      /\ Genuine(e, root) => verdict \in {"ok", "expired", "not-yet-valid"}
  BY <1>1, VerdictIs
<1>3. LicenseStatus = Status(e, root, clock)
  BY DEF LicenseStatus
<1>. DEFINE left == e.notAfter - clock
            day == AtLeast(NumDays(left), 0)
            over == AtLeast(NumDays(clock - e.notAfter), 1)
            ahead == AtLeast(NumDays(e.notBefore - clock), 1)
<1>4. /\ verdict = "ok" => LicenseStatus = [kind |-> "active", days |-> day]
      /\ verdict = "expired" => LicenseStatus = [kind |-> "expired", days |-> over]
      /\ verdict = "not-yet-valid" => LicenseStatus = [kind |-> "not-yet-valid", days |-> ahead]
      /\ verdict \notin {"ok", "expired", "not-yet-valid"} =>
           \E none : LicenseStatus = [kind |-> "invalid", days |-> none]
  BY <1>3 DEF Status
<1>5. over >= 1 /\ ahead >= 1
  <2>1. NumDays(clock - e.notAfter) \in Int /\ NumDays(e.notBefore - clock) \in Int
    BY <1>1, DivisionBounds
  <2> QED BY <2>1 DEF AtLeast
<1>6. verdict = "ok" => left \in Nat
  BY <1>1, <1>2
<1>7. verdict = "ok" => left \in day * Day..(day + 1) * Day - 1
  <2>. HIDE DEF left
  <2> QED BY <1>6, DaysLeft
<1>7a. verdict = "ok" /\ left <= WarnDays * Day => day <= WarnDays
  <2>. HIDE DEF left
  <2> QED BY <1>6, DaysLeft
<1>. HIDE DEF verdict, left, day, over, ahead
<1>8. /\ verdict = "ok" => LicenseStatus.kind = "active" /\ LicenseStatus.days = day
      /\ verdict = "expired" => LicenseStatus.kind = "expired" /\ LicenseStatus.days = over
      /\ verdict = "not-yet-valid" =>
           LicenseStatus.kind = "not-yet-valid" /\ LicenseStatus.days = ahead
      /\ verdict \notin {"ok", "expired", "not-yet-valid"} => LicenseStatus.kind = "invalid"
  <2>1. verdict = "ok" => LicenseStatus.kind = "active" /\ LicenseStatus.days = day
    BY <1>4, StatusFields
  <2>2. verdict = "expired" => LicenseStatus.kind = "expired" /\ LicenseStatus.days = over
    BY <1>4, StatusFields
  <2>3. verdict = "not-yet-valid" =>
          LicenseStatus.kind = "not-yet-valid" /\ LicenseStatus.days = ahead
    BY <1>4, StatusFields
  <2>4. verdict \notin {"ok", "expired", "not-yet-valid"} => LicenseStatus.kind = "invalid"
    BY <1>4, StatusFields
  <2> QED BY <2>1, <2>2, <2>3, <2>4
<1>9. AllowMutations <=> verdict = "ok"
  BY <1>8 DEF AllowMutations
<1>10. ASSUME Genuine(e, root), left <= WarnDays * Day PROVE ShouldWarn
  <2>1. CASE verdict = "ok"
    BY <1>7a, <1>8, <1>10, <2>1 DEF ShouldWarn
  <2>2. CASE verdict \in {"expired", "not-yet-valid"}
    BY <1>8, <2>2 DEF ShouldWarn
  <2> QED BY <1>2, <1>10, <2>1, <2>2
<1>11. LicenseStatus.kind = "active" =>
         left \in LicenseStatus.days * Day..(LicenseStatus.days + 1) * Day - 1
  <2>1. LicenseStatus.kind = "active" => verdict = "ok"
    BY <1>8
  <2>2. verdict = "ok" => LicenseStatus.days = day
    BY <1>8
  <2> QED BY <1>7, <2>1, <2>2
<1>12. LicenseStatus.kind \in {"expired", "not-yet-valid"} => LicenseStatus.days >= 1
  BY <1>5, <1>8
<1> QED BY <1>2, <1>9, <1>10, <1>11, <1>12 DEF left

\* The console takes changes exactly inside the dates of an envelope its root
\* signed, warns for as many days before the end as it promises, and counts the
\* days right, for any envelopes, day length and warning time.
THEOREM SwitchAlwaysFollows == LicenseSpec => []KillSwitchFollowsTheDates
<1>1. LicenseInv => KillSwitchFollowsTheDates
  BY SwitchFollows DEF LicenseInv
<1> QED BY <1>1, LicenseInvAlways, PTL

-----------------------------------------------------------------------------
(* RequestPipeline.                                                        *)

Stages == {"none", "auth", "permission", "csrf", "license", "handler", "refused"}
Facts == {"session", "permission", "writable"}
Cookies == 0..MaxSessions
Methods == {"POST", "GET", NULL}
Paths == {"/login", "/logout", "/install", "/admin/operators",
          "/admin/license/activate", "/install/credentials.json/", NULL}

PipelineTypeOK ==
  /\ role \in [Users -> Groups \cup {NULL}]
  /\ session \in [Ids -> Users \cup {NULL}]
  /\ minted \in Cookies /\ writable \in BOOLEAN
  /\ client \in [Clients -> [stage : Stages, method : Methods, path : Paths,
       cookie : Cookies, token : Cookies, user : Users \cup {NULL}]]
  /\ held \in [Clients -> SUBSET Facts] /\ failed \in [Clients -> SUBSET Facts]

Guarded(c) == client[c].path \notin Public

\* What each middleware that a request has passed leaves established.
PastAuth(c) ==
  client[c].stage \in {"permission", "csrf", "license", "handler"} /\ Guarded(c) =>
    "session" \in held[c] /\ client[c].user # NULL
PastPermission(c) ==
  client[c].stage \in {"csrf", "license", "handler"} /\ Guarded(c) =>
    "permission" \in held[c]
PastCsrf(c) ==
  client[c].stage \in {"license", "handler"} /\ Guarded(c) =>
    client[c].method # "POST" \/ client[c].token = client[c].cookie
PastLicense(c) ==
  client[c].stage = "handler" /\ "writable" \in Needs(c) => "writable" \in held[c]
KnownMethod(c) ==
  client[c].stage # "none" => client[c].method \in {"POST", "GET"}

Established(c) ==
  PastAuth(c) /\ PastPermission(c) /\ PastCsrf(c) /\ PastLicense(c) /\ KnownMethod(c)

\* Why a request was refused.
Due(c) ==
  client[c].stage = "refused" =>
    \/ failed[c] # {}
    \/ /\ client[c].method = "POST" /\ client[c].path \notin Public \cup CsrfExempt
       /\ client[c].token # client[c].cookie

PipelineInv == PipelineTypeOK /\ \A c \in Clients : Established(c) /\ Due(c)

-----------------------------------------------------------------------------

\* What a request that stays where it is has established stays established:
\* nothing that held is forgotten while it is on its way.
LEMMA StandingRequest ==
  ASSUME NEW c \in Clients, PipelineTypeOK, Established(c), Due(c), Witness,
         client'[c] = client[c]
  PROVE  Established(c)' /\ Due(c)'
<1>1. client[c].stage \notin {"none", "refused"} => held[c] \subseteq held'[c]
  BY DEF Witness, PipelineTypeOK
<1>2. client[c].stage = "refused" => failed'[c] = failed[c]
  BY DEF Witness
<1>3. Needs(c)' = Needs(c)
  BY DEF Needs
<1> QED
  BY <1>1, <1>2, <1>3 DEF Established, PastAuth, PastPermission, PastCsrf, PastLicense,
     KnownMethod, Due, Guarded

\* A request that is over, or has just come in, has nothing to show.
LEMMA FreshRequest ==
  ASSUME NEW c \in Clients, client'[c].stage \in {"none", "auth"},
         client'[c].stage = "auth" => client'[c].method \in {"POST", "GET"}
  PROVE  Established(c)' /\ Due(c)'
BY DEF Established, PastAuth, PastPermission, PastCsrf, PastLicense, KnownMethod, Due

-----------------------------------------------------------------------------

LEMMA InitTypes == ASSUME PipelineInit PROVE PipelineTypeOK
BY PipelineAssumption
   DEF PipelineInit, PipelineTypeOK, Absent, Stages, Methods, Paths, Cookies, Ids

LEMMA GivenIsFacts == ASSUME NEW c \in Clients PROVE Given(c) \subseteq Facts /\ Needs(c) \subseteq Facts
BY DEF Given, Needs, Facts

LEMMA WitnessTypes ==
  ASSUME PipelineTypeOK, Witness
  PROVE  held' \in [Clients -> SUBSET Facts] /\ failed' \in [Clients -> SUBSET Facts]
<1>1. ASSUME NEW c \in Clients
      PROVE  Given(c)' \subseteq Facts /\ Needs(c)' \subseteq Facts
  BY DEF Given, Needs, Facts
<1> QED BY <1>1 DEF Witness, PipelineTypeOK

LEMMA StepTypes ==
  ASSUME PipelineTypeOK, PipelineStep, Witness
  PROVE  PipelineTypeOK'
<1>. USE PipelineAssumption DEF PipelineTypeOK
<1>1. held' \in [Clients -> SUBSET Facts] /\ failed' \in [Clients -> SUBSET Facts]
  BY WitnessTypes
<1>2. ASSUME NEW c \in Clients, Arrive(c) PROVE PipelineTypeOK'
  BY <1>1, <1>2 DEF Arrive, Tables, Routes, Stages, Methods, Paths, Cookies
<1>3. ASSUME NEW c \in Clients, NEW stage \in Stages, Pass(c, stage) PROVE PipelineTypeOK'
  BY <1>1, <1>3 DEF Pass, Tables
<1>4. ASSUME NEW c \in Clients, AuthMiddleware(c) PROVE PipelineTypeOK'
  <2>1. SessionOf(client[c].cookie) \in Users \cup {NULL}
    BY DEF SessionOf
  <2>2. ASSUME NEW stage \in {"permission", "refused"}, Pass(c, stage) PROVE PipelineTypeOK'
    BY <1>3, <2>2 DEF Stages
  <2>3. CASE /\ client' = [client EXCEPT ![c].stage = "permission",
                                        ![c].user = SessionOf(client[c].cookie)]
             /\ UNCHANGED Tables
    <3>. DEFINE k == [client[c] EXCEPT !.stage = "permission",
                                       !.user = SessionOf(client[c].cookie)]
    <3>1. "permission" \in Stages
      BY DEF Stages
    <3>2. k \in [stage : Stages, method : Methods, path : Paths, cookie : Cookies,
                 token : Cookies, user : Users \cup {NULL}]
      BY <2>1, <3>1
    <3>3. client' = [client EXCEPT ![c] = k]
      BY <2>3
    <3>. HIDE DEF k
    <3>4. client' \in [Clients -> [stage : Stages, method : Methods, path : Paths,
            cookie : Cookies, token : Cookies, user : Users \cup {NULL}]]
      BY <3>2, <3>3
    <3>5. /\ role' = role /\ session' = session /\ minted' = minted /\ writable' = writable
      BY <2>3 DEF Tables
    <3> QED BY <1>1, <3>4, <3>5
  <2> QED BY <1>4, <2>2, <2>3 DEF AuthMiddleware, Refuse
<1>5. ASSUME NEW c \in Clients,
             PermissionMiddleware(c) \/ CsrfMiddleware(c) \/ LicenseMiddleware(c)
      PROVE  PipelineTypeOK'
  BY <1>3, <1>5 DEF PermissionMiddleware, CsrfMiddleware, LicenseMiddleware, Refuse, Stages
<1>6. ASSUME NEW c \in Clients, Done(c)
      PROVE  client' \in [Clients -> [stage : Stages, method : Methods, path : Paths,
               cookie : Cookies, token : Cookies, user : Users \cup {NULL}]]
  BY <1>6 DEF Done, Absent, Stages, Methods, Paths, Cookies
<1>7. ASSUME NEW c \in Clients, Login(c) PROVE PipelineTypeOK'
  BY <1>1, <1>6, <1>7 DEF Login, Cookies, Ids
<1>8. ASSUME NEW c \in Clients, Logout(c) PROVE PipelineTypeOK'
  BY <1>1, <1>6, <1>8 DEF Logout, Ids
<1>9. ASSUME NEW c \in Clients, ManageOperators(c) PROVE PipelineTypeOK'
  BY <1>1, <1>6, <1>9 DEF ManageOperators
<1>10. ASSUME NEW c \in Clients, ActivateLicense(c) \/ Answer(c) \/ HangUp(c)
       PROVE  PipelineTypeOK'
  BY <1>1, <1>6, <1>10 DEF ActivateLicense, Answer, HangUp, Tables
<1>11. ASSUME DatePasses PROVE PipelineTypeOK'
  BY <1>1, <1>11 DEF DatePasses
<1>12. ASSUME ServerRestart PROVE PipelineTypeOK'
  BY <1>1, <1>12 DEF ServerRestart, Absent, Stages, Methods, Paths, Cookies, Ids
<1> QED
  BY <1>2, <1>4, <1>5, <1>7, <1>8, <1>9, <1>10, <1>11, <1>12 DEF PipelineStep

\* The tables, the clients and what the requests have seen keep their types,
\* whatever the middlewares and handlers do.
THEOREM PipelineTypeCorrect == PipelineSpec => []PipelineTypeOK
<1>1. PipelineTypeOK /\ [PipelineNext]_pipelineVars => PipelineTypeOK'
  BY StepTypes DEF PipelineNext, pipelineVars, PipelineTypeOK
<1> QED BY InitTypes, <1>1, PTL DEF PipelineSpec

-----------------------------------------------------------------------------

\* What a request is given at a moment is held from then on, and what it lacks
\* when it is refused has failed.
LEMMA WhatIsGivenIsHeld ==
  ASSUME NEW c \in Clients, Witness,
         client[c].stage # "handler", client'[c].stage \notin {"none", "refused"}
  PROVE  held[c] \cup Given(c)' \subseteq held'[c]
BY DEF Witness

LEMMA WhatIsLackingHasFailed ==
  ASSUME NEW c \in Clients, Witness,
         client[c].stage # "refused", client'[c].stage = "refused"
  PROVE  Needs(c)' \ Given(c)' \subseteq failed'[c]
BY DEF Witness

\* What the tables give a request behind the login page.
LEMMA SessionIsGiven ==
  ASSUME NEW c \in Clients, Guarded(c)'
  PROVE  /\ "session" \in Needs(c)' /\ "permission" \in Needs(c)'
         /\ "session" \in Given(c)' <=> SessionOf(client[c].cookie)' # NULL
<1>1. "session" \in Needs(c)' /\ "permission" \in Needs(c)'
  BY DEF Needs, Guarded
<1> QED BY <1>1 DEF Given

LEMMA PermissionIsGiven ==
  ASSUME NEW c \in Clients, Guarded(c)'
  PROVE  "permission" \in Given(c)' <=>
           LET group == RoleOf(Operator(c))' IN
           group # NULL /\ RequiredPermission(client[c].method, client[c].path)'
                             \in Permissions(group)
<1>1. "permission" \in Needs(c)'
  BY SessionIsGiven
<1> QED BY <1>1 DEF Given

LEMMA WritableIsGiven ==
  ASSUME NEW c \in Clients, "writable" \in Needs(c)'
  PROVE  "writable" \in Given(c)' <=> writable'
BY DEF Given

-----------------------------------------------------------------------------

\* The middlewares, one by one.
LEMMA AuthEstablishes ==
  ASSUME NEW c \in Clients, PipelineTypeOK, Established(c), AuthMiddleware(c), Witness
  PROVE  Established(c)' /\ Due(c)'
<1>. USE DEF PipelineTypeOK
<1>1. client[c].stage = "auth" /\ client[c].method \in {"POST", "GET"}
  BY DEF AuthMiddleware, Turn, Established, KnownMethod
<1>2. CASE client[c].path \in Public /\ Pass(c, "permission")
  BY <1>1, <1>2 DEF Pass, Established, PastAuth, PastPermission, PastCsrf, PastLicense,
     KnownMethod, Due, Guarded
<1>3. CASE Guarded(c) /\ SessionOf(client[c].cookie) # NULL
  <2>1. /\ client'[c].stage = "permission" /\ Guarded(c)'
        /\ client'[c].user # NULL /\ client'[c].method = client[c].method
        /\ client'[c].cookie = client[c].cookie /\ session' = session
    BY <1>1, <1>3 DEF AuthMiddleware, Guarded, Tables, Pass, Refuse
  <2>2. SessionOf(client[c].cookie)' # NULL
    BY <1>3, <2>1 DEF SessionOf
  <2>3. "session" \in held'[c]
    BY <1>1, <2>1, <2>2, SessionIsGiven, WhatIsGivenIsHeld
  <2> QED
    BY <1>1, <2>1, <2>3 DEF Established, PastAuth, PastPermission, PastCsrf, PastLicense,
       KnownMethod, Due
<1>4. CASE Guarded(c) /\ SessionOf(client[c].cookie) = NULL
  <2>1. /\ client'[c].stage = "refused" /\ Guarded(c)'
        /\ client'[c].method = client[c].method
        /\ client'[c].cookie = client[c].cookie /\ session' = session
    BY <1>1, <1>4 DEF AuthMiddleware, Guarded, Tables, Pass, Refuse
  <2>2. SessionOf(client[c].cookie)' = NULL
    BY <1>4, <2>1 DEF SessionOf
  <2>3. "session" \in failed'[c]
    BY <1>1, <2>1, <2>2, SessionIsGiven, WhatIsLackingHasFailed
  <2> QED
    BY <1>1, <2>1, <2>3 DEF Established, PastAuth, PastPermission, PastCsrf, PastLicense,
       KnownMethod, Due
<1> QED BY <1>2, <1>3, <1>4 DEF AuthMiddleware, Guarded

LEMMA PassChanges ==
  ASSUME NEW c \in Clients, NEW stage, PipelineTypeOK, Pass(c, stage)
  PROVE  /\ client'[c].stage = stage /\ UNCHANGED Tables
         /\ client'[c].path = client[c].path /\ client'[c].method = client[c].method
         /\ client'[c].cookie = client[c].cookie /\ client'[c].token = client[c].token
         /\ client'[c].user = client[c].user
         /\ Guarded(c)' = Guarded(c) /\ Needs(c)' = Needs(c)
BY DEF Pass, Guarded, Needs, PipelineTypeOK

LEMMA PermissionEstablishes ==
  ASSUME NEW c \in Clients, PipelineTypeOK, Established(c), PermissionMiddleware(c), Witness
  PROVE  Established(c)' /\ Due(c)'
<1>1. /\ client[c].stage = "permission" /\ client[c].method \in {"POST", "GET"}
      /\ Guarded(c) => "session" \in held[c] /\ client[c].user # NULL
  BY DEF PermissionMiddleware, Turn, Established, PastAuth, KnownMethod
<1>. DEFINE group == RoleOf(client[c].user)
            Cleared == group # NULL /\ RequiredPermission(client[c].method, client[c].path)
                                         \in Permissions(group)
<1>2. ASSUME NEW stage, Pass(c, stage), Guarded(c)
      PROVE  "permission" \in Given(c)' <=> Cleared
  <2>1. Operator(c)' = client[c].user
    BY <1>1, <1>2, PassChanges DEF Operator
  <2>2. RoleOf(Operator(c))' = group
    BY <2>1, <1>2, PassChanges DEF RoleOf, Tables
  <2> QED BY <2>2, <1>2, PermissionIsGiven, PassChanges
<1>3. CASE Pass(c, "csrf") /\ (Guarded(c) => Cleared)
  <2>1. client'[c].stage = "csrf"
    BY <1>3, PassChanges
  <2>2. Guarded(c) => "permission" \in held'[c] /\ "session" \in held'[c]
    BY <1>1, <1>2, <1>3, <2>1, WhatIsGivenIsHeld
  <2> QED
    BY <1>1, <1>3, <2>1, <2>2, PassChanges DEF Established, PastAuth, PastPermission,
       PastCsrf, PastLicense, KnownMethod, Due
<1>4. CASE Pass(c, "refused") /\ Guarded(c) /\ ~Cleared
  <2>1. client'[c].stage = "refused"
    BY <1>4, PassChanges
  <2>2. "permission" \in failed'[c]
    BY <1>1, <1>2, <1>4, <2>1, PassChanges, SessionIsGiven, WhatIsLackingHasFailed
  <2> QED
    BY <1>1, <1>4, <2>1, <2>2, PassChanges DEF Established, PastAuth, PastPermission,
       PastCsrf, PastLicense, KnownMethod, Due
<1> QED BY <1>3, <1>4 DEF PermissionMiddleware, Guarded, Refuse

LEMMA CsrfEstablishes ==
  ASSUME NEW c \in Clients, PipelineTypeOK, Established(c), CsrfMiddleware(c), Witness
  PROVE  Established(c)' /\ Due(c)'
<1>1. /\ client[c].stage = "csrf" /\ client[c].method \in {"POST", "GET"}
      /\ Guarded(c) => /\ "session" \in held[c] /\ client[c].user # NULL
                       /\ "permission" \in held[c]
  BY DEF CsrfMiddleware, Turn, Established, PastAuth, PastPermission, KnownMethod
<1>. DEFINE Matches == SessionOf(client[c].cookie) # NULL /\ client[c].token = client[c].cookie
<1>2. CASE Pass(c, "license") /\ (Guarded(c) /\ client[c].method = "POST" => Matches)
  <2>1. client'[c].stage = "license"
    BY <1>2, PassChanges
  <2>2. held[c] \subseteq held'[c]
    BY <1>1, <2>1, WhatIsGivenIsHeld
  <2> QED
    BY <1>1, <1>2, <2>1, <2>2, PassChanges DEF Established, PastAuth, PastPermission,
       PastCsrf, PastLicense, KnownMethod, Due
<1>3. CASE Pass(c, "refused") /\ Guarded(c) /\ client[c].method = "POST" /\ ~Matches
  <2>1. client'[c].stage = "refused"
    BY <1>3, PassChanges
  <2>2. ASSUME SessionOf(client[c].cookie) = NULL PROVE "session" \in failed'[c]
    <3>1. SessionOf(client[c].cookie)' = NULL
      BY <1>3, <2>2, PassChanges DEF SessionOf, Tables
    <3> QED BY <1>1, <1>3, <2>1, <3>1, PassChanges, SessionIsGiven, WhatIsLackingHasFailed
  <2> QED
    BY <1>1, <1>3, <2>1, <2>2, PassChanges DEF Established, PastAuth, PastPermission,
       PastCsrf, PastLicense, KnownMethod, Due, Guarded, Public, CsrfExempt
<1> QED BY <1>2, <1>3 DEF CsrfMiddleware, Guarded, Refuse, Public, CsrfExempt

LEMMA LicenseEstablishes ==
  ASSUME NEW c \in Clients, PipelineTypeOK, Established(c), LicenseMiddleware(c), Witness
  PROVE  Established(c)' /\ Due(c)'
<1>1. /\ client[c].stage = "license" /\ client[c].method \in {"POST", "GET"}
      /\ Guarded(c) => /\ "session" \in held[c] /\ client[c].user # NULL
                       /\ "permission" \in held[c]
                       /\ client[c].method # "POST" \/ client[c].token = client[c].cookie
  BY DEF LicenseMiddleware, Turn, Established, PastAuth, PastPermission, PastCsrf, KnownMethod
<1>2. "writable" \in Needs(c) <=>
        client[c].method = "POST" /\ client[c].path \notin Public \cup ReadOnlyExempt
  BY DEF Needs
<1>3. CASE Pass(c, "handler") /\ ("writable" \in Needs(c) => writable)
  <2>1. client'[c].stage = "handler" /\ writable' = writable
    BY <1>3, PassChanges DEF Tables
  <2>2. held[c] \cup Given(c)' \subseteq held'[c]
    BY <1>1, <2>1, WhatIsGivenIsHeld
  <2>3. "writable" \in Needs(c)' => "writable" \in held'[c]
    BY <1>3, <2>1, <2>2, PassChanges, WritableIsGiven
  <2> QED
    BY <1>1, <1>3, <2>1, <2>2, <2>3, PassChanges DEF Established, PastAuth, PastPermission,
       PastCsrf, PastLicense, KnownMethod, Due
<1>4. CASE Pass(c, "refused") /\ "writable" \in Needs(c) /\ ~writable
  <2>1. client'[c].stage = "refused" /\ writable' = writable
    BY <1>4, PassChanges DEF Tables
  <2>2. "writable" \in failed'[c]
    BY <1>1, <1>4, <2>1, PassChanges, WritableIsGiven, WhatIsLackingHasFailed
  <2> QED
    BY <1>1, <1>4, <2>1, <2>2, PassChanges DEF Established, PastAuth, PastPermission,
       PastCsrf, PastLicense, KnownMethod, Due
<1> QED BY <1>1, <1>2, <1>3, <1>4 DEF LicenseMiddleware, Refuse

-----------------------------------------------------------------------------

\* Every step keeps what is established about every request.
LEMMA StepEstablishes ==
  ASSUME PipelineInv, PipelineStep, Witness
  PROVE  PipelineInv'
<1>. USE DEF PipelineInv
<1>1. PipelineTypeOK'
  BY StepTypes
<1>2. ASSUME NEW c \in Clients, NEW d \in Clients, d # c,
             Arrive(c) \/ AuthMiddleware(c) \/ PermissionMiddleware(c) \/ CsrfMiddleware(c)
               \/ LicenseMiddleware(c) \/ Login(c) \/ Logout(c) \/ ManageOperators(c)
               \/ ActivateLicense(c) \/ Answer(c) \/ HangUp(c)
      PROVE  client'[d] = client[d]
  BY <1>2 DEF PipelineTypeOK, Arrive, AuthMiddleware, PermissionMiddleware, CsrfMiddleware,
     LicenseMiddleware, Login, Logout, ManageOperators, ActivateLicense, Answer, HangUp,
     Done, Refuse, Pass
<1>3. ASSUME NEW c \in Clients, Arrive(c) PROVE Established(c)' /\ Due(c)'
  BY <1>3, FreshRequest DEF PipelineTypeOK, Arrive, Routes
<1>4. ASSUME NEW c \in Clients,
             Login(c) \/ Logout(c) \/ ManageOperators(c) \/ ActivateLicense(c)
               \/ Answer(c) \/ HangUp(c)
      PROVE  Established(c)' /\ Due(c)'
  <2>1. client'[c].stage = "none"
    BY <1>4 DEF PipelineTypeOK, Login, Logout, ManageOperators, ActivateLicense, Answer,
       HangUp, Done, Absent
  <2> QED BY <2>1, FreshRequest
<1>5. ASSUME NEW c \in Clients,
             AuthMiddleware(c) \/ PermissionMiddleware(c) \/ CsrfMiddleware(c)
               \/ LicenseMiddleware(c)
      PROVE  Established(c)' /\ Due(c)'
  BY <1>5, AuthEstablishes, PermissionEstablishes, CsrfEstablishes, LicenseEstablishes
<1>6. ASSUME DatePasses, NEW d \in Clients PROVE Established(d)' /\ Due(d)'
  BY <1>6, StandingRequest DEF DatePasses
<1>7. ASSUME ServerRestart, NEW d \in Clients PROVE Established(d)' /\ Due(d)'
  BY <1>7, FreshRequest DEF ServerRestart, Absent
<1>8. ASSUME NEW d \in Clients PROVE Established(d)' /\ Due(d)'
  BY <1>2, <1>3, <1>4, <1>5, <1>6, <1>7, StandingRequest DEF PipelineStep
<1> QED BY <1>1, <1>8

LEMMA InvariantImplies == ASSUME PipelineInv PROVE VerdictsAreDue
<1>1. ASSUME NEW c \in Clients, client[c].stage = "handler"
      PROVE  /\ Needs(c) \subseteq held[c]
             /\ client[c].method = "GET" \/ client[c].path \in Public
                  \/ client[c].token = client[c].cookie
  <2>1. Needs(c) \subseteq (IF Guarded(c) THEN {"session", "permission"} ELSE {})
                             \cup {f \in {"writable"} : f \in Needs(c)}
    BY DEF Needs, Guarded
  <2>2. Established(c)
    BY DEF PipelineInv
  <2> QED
    BY <1>1, <2>1, <2>2 DEF Established, PastAuth, PastPermission, PastCsrf, PastLicense,
       KnownMethod, Guarded
<1> QED
  BY <1>1 DEF VerdictsAreDue, MutationsAreCleared, RefusalsAreDue, PipelineInv, Due

\* A handler runs only in a request that, at some moment of it, had a session,
\* the permission and the licence's consent, and a request is refused only when
\* it lacked one of them or its token: for any clients, users and sessions,
\* whatever is demoted, signed out, expired or restarted in between.
THEOREM VerdictsAlwaysDue == PipelineSpec => []VerdictsAreDue
<1>1. PipelineInit => PipelineInv
  <2>1. ASSUME PipelineInit, NEW c \in Clients PROVE Established(c) /\ Due(c)
    BY <2>1 DEF PipelineInit, Absent, Established, PastAuth, PastPermission, PastCsrf,
       PastLicense, KnownMethod, Due
  <2> QED BY <2>1, InitTypes DEF PipelineInv
<1>2. PipelineInv /\ [PipelineNext]_pipelineVars => PipelineInv'
  <2>1. ASSUME PipelineInv, UNCHANGED pipelineVars PROVE PipelineInv'
    BY <2>1 DEF PipelineInv, PipelineTypeOK, Established, PastAuth, PastPermission, PastCsrf,
       PastLicense, KnownMethod, Due, Guarded, Needs, pipelineVars
  <2> QED BY <2>1, StepEstablishes DEF PipelineNext
<1>3. PipelineInv => VerdictsAreDue
  BY InvariantImplies
<1> QED BY <1>1, <1>2, <1>3, PTL DEF PipelineSpec
=============================================================================
