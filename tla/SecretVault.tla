----------------------------- MODULE SecretVault -----------------------------
(***************************************************************************)
(* The secrets vault of the console: the boot that finds or makes the two  *)
(* halves of its key (passphrase file and salt file), SecretsStore (a      *)
(* cache of encrypted entries behind an RwLock, rewritten whole to         *)
(* computeza-secrets.jsonl on every change), and the requests that rotate, *)
(* install and uninstall a credential, which has to agree with the one the *)
(* running component accepts.                                              *)
(*                                                                         *)
(* SecretsStore's own operations hold the lock across the file write and   *)
(* are single steps; a request is several, and dropped at any of them when *)
(* its client hangs up.                                                    *)
(***************************************************************************)
EXTENDS Naturals

CONSTANTS
  Names,        \* names of secrets
  Applied,      \* of these, the admin passwords of running components
  Wired,        \* of these, the ones that can be applied: PostgreSQL's
  Handlers,     \* requests being served at the same time
  NoValue,
  MaxSecrets,   \* bound on the number of secret values generated
  MaxKeys       \* bound on the number of key halves generated

ASSUME AppliedAssumption == Applied \subseteq Names /\ Wired \subseteq Applied
ASSUME NoValueAssumption == NoValue \notin Names
(* A first boot makes two halves.                                          *)
ASSUME BoundsAssumption == MaxSecrets \in Nat /\ MaxKeys \in Nat /\ MaxKeys >= 2

VARIABLES
  phase,     \* the server: how far its boot is
  pass,      \* the passphrase file
  salt,      \* the salt file
  settled,   \* of the two, those that have reached the disk
  made,      \* how many passphrases and salts have been generated
  lost,      \* history: a power loss has emptied or taken a key file
  key,       \* the key SecretsStore encrypts and decrypts with
  cache,     \* SecretsStore's cache, name -> entry
  disk,      \* computeza-secrets.jsonl
  live,      \* the password the component accepts, per name
  psql,      \* the ALTER USERs handed to a psql that nobody waits for any more
  issued,    \* how many secret values have been generated
  serving,   \* what each request is doing
  answered,  \* history: per name, the value of the last write that was Ok
  unsure,    \* history: names with a later write that was not
  rotated    \* history: per name, the value shown if a rotation was last

boot == <<phase, pass, salt, settled, made, lost, key>>
vault == <<cache, disk, answered, unsure>>
vaultVars == <<boot, vault, live, psql, issued, serving, rotated>>

(* A key file: absent, shorter than it must be, or the n-th half made.     *)
Absent == 0
Short == MaxKeys + 1
Whole == 1..MaxKeys
KeyFile == 0..(MaxKeys + 1)

(* An entry is a value encrypted under a key; value 0 stands for no value. *)
Key == [pass : Whole, salt : Whole]
NoKey == [pass |-> 0, salt |-> 0]
Entry == [value : 1..MaxSecrets, key : Key]
NoEntry == [value |-> 0, key |-> NoKey]
NoEntries == [n \in Names |-> NoEntry]

(* raced is history: another request for the same name was served at the   *)
(* same time.                                                              *)
Resting == [kind |-> "none", name |-> NoValue, stage |-> "idle", value |-> 0, raced |-> FALSE]

VaultTypeOK ==
  /\ phase \in {"down", "salting", "writing", "opening", "up", "refused"}
  /\ pass \in KeyFile /\ salt \in KeyFile
  /\ settled \subseteq {"pass", "salt"}
  /\ made \in 0..MaxKeys /\ lost \in BOOLEAN
  /\ key \in Key \cup {NoKey}
  /\ cache \in [Names -> Entry \cup {NoEntry}]
  /\ disk \in [Names -> Entry \cup {NoEntry}]
  /\ live \in [Names -> 0..MaxSecrets]
  /\ psql \subseteq [name : Wired, value : 0..MaxSecrets]
  /\ issued \in 0..MaxSecrets
  /\ serving \in [Handlers -> [kind : {"none", "rotate", "install", "uninstall"},
                               name : Names \cup {NoValue},
                               stage : {"idle", "apply", "put", "drop"},
                               value : 0..MaxSecrets, raced : BOOLEAN]]
  /\ answered \in [Names -> 0..MaxSecrets]
  /\ unsure \subseteq Names
  /\ rotated \in [Names -> 0..MaxSecrets]

VaultInit ==
  /\ phase = "down" /\ key = NoKey
  /\ pass = Absent /\ salt = Absent /\ settled = {} /\ made = 0 /\ lost = FALSE
  /\ cache = NoEntries /\ disk = NoEntries
  /\ live = [n \in Names |-> 0] /\ psql = {} /\ issued = 0
  /\ serving = [h \in Handlers |-> Resting]
  /\ answered = [n \in Names |-> 0] /\ unsure = {}
  /\ rotated = [n \in Names |-> 0]

-----------------------------------------------------------------------------
(* Boot: open_secrets_store.                                               *)

(* The passphrase file is written to a temporary name and renamed; an      *)
(* empty one stops the boot.                                               *)
ResolvePassphrase ==
  /\ phase = "down"
  /\ \/ /\ pass \in Whole
        /\ phase' = "salting"
        /\ UNCHANGED <<pass, settled, made>>
     \/ /\ pass = Short
        /\ phase' = "refused"
        /\ UNCHANGED <<pass, settled, made>>
     \/ /\ pass = Absent
        /\ made' = made + 1
        /\ pass' = made'
        /\ settled' = settled \ {"pass"}
        /\ phase' = "salting"
  /\ UNCHANGED <<salt, lost, key, vault, live, psql, issued, serving, rotated>>

(* A salt made on every boot.                                              *)
EnsureFreshSalt ==
  /\ phase = "salting"
  /\ salt' = Short /\ phase' = "writing"
  /\ UNCHANGED <<pass, settled, made, lost, key, vault, live, psql, issued, serving, rotated>>

(* The salt file is truncated and written in place, when it is absent or   *)
(* too short.                                                              *)
EnsureSalt ==
  /\ phase = "salting"
  /\ \/ salt \in Whole /\ salt' = salt /\ phase' = "opening"
     \/ salt \notin Whole /\ salt' = Short /\ phase' = "writing"
  /\ UNCHANGED <<pass, settled, made, lost, key, vault, live, psql, issued, serving, rotated>>

WriteSalt ==
  /\ phase = "writing"
  /\ made' = made + 1
  /\ salt' = made'
  /\ settled' = settled \ {"salt"}
  /\ phase' = "opening"
  /\ UNCHANGED <<pass, lost, key, vault, live, psql, issued, serving, rotated>>

OpenStore ==
  /\ phase = "opening"
  /\ key' = [pass |-> pass, salt |-> salt]
  /\ cache' = disk
  /\ phase' = "up"
  /\ UNCHANGED <<pass, salt, settled, made, lost, disk, answered, unsure,
                 live, psql, issued, serving, rotated>>

(* "passphrase file at {} is empty; delete it to regenerate".              *)
DeletePassphrase ==
  /\ phase = "refused"
  /\ phase' = "down"
  /\ pass' = Absent
  /\ UNCHANGED <<salt, settled, made, lost, key, vault, live, psql, issued, serving, rotated>>

-----------------------------------------------------------------------------
(* Crashes of the process leave the files as they are; but neither key     *)
(* file, nor its directory entry, is ever synced: until the system has     *)
(* written them back, a power loss may leave one empty or take it away.    *)

Settle ==
  /\ settled' = settled \cup {"pass", "salt"}
  /\ UNCHANGED <<phase, pass, salt, made, lost, key, vault, live, psql, issued, serving, rotated>>

Left(file, name) ==
  IF name \notin settled /\ file # Absent
  THEN {file, Short, Absent} ELSE {file}

(* The psql that a request waits for: when the request ends first, it is   *)
(* not killed.                                                             *)
InHand(h) ==
  LET r == serving[h] IN
  IF r.stage = "apply" /\ r.name \in Wired
  THEN {[name |-> r.name, value |-> r.value]} ELSE {}

(* Bound: the next boot can still make the halves it will need.  A psql    *)
(* outlives the server, but not a power loss.                              *)
Crash ==
  /\ phase \notin {"down", "refused"}
  /\ phase' = "down" /\ key' = NoKey
  /\ pass' \in Left(pass, "pass") /\ salt' \in Left(salt, "salt")
  /\ lost' = (lost \/ pass' # pass \/ salt' # salt)
  /\ made + (IF pass' \in Whole THEN 0 ELSE 1)
          + (IF salt' \in Whole THEN 0 ELSE 1) <= MaxKeys
  /\ cache' = NoEntries
  /\ serving' = [h \in Handlers |-> Resting]
  /\ psql' \in SUBSET (psql \cup UNION {InHand(h) : h \in Handlers})
  /\ UNCHANGED <<settled, made, disk, answered, unsure, live, issued, rotated>>

-----------------------------------------------------------------------------
(* SecretsStore: change the cache, then write_file the whole of it.        *)

Goto(h, r) == serving' = [serving EXCEPT ![h] = r]
Done(h) == Goto(h, Resting)

(* Ok to the caller whatever became of the file.                           *)
StoreCarelessly(n, entry) ==
  /\ cache' = [cache EXCEPT ![n] = entry]
  /\ disk' \in {disk, cache'}
  /\ answered' = [answered EXCEPT ![n] = entry.value]
  /\ unsure' = unsure \ {n}

Store(n, entry) ==
  /\ cache' = [cache EXCEPT ![n] = entry]
  /\ \/ /\ disk' = cache'
        /\ answered' = [answered EXCEPT ![n] = entry.value]
        /\ unsure' = unsure \ {n}
     \/ /\ unsure' = unsure \cup {n}
        /\ UNCHANGED <<disk, answered>>

(* get decrypts what is stored with the key of this boot.                  *)
Readable(n) == cache[n] # NoEntry /\ cache[n].key = key

-----------------------------------------------------------------------------
(* Requests.                                                               *)

(* The request starts, and races every other one for the same name, and    *)
(* what an earlier one has left to psql.                                   *)
Serve(h, kind, n, stage, value) ==
  LET rivals == {i \in Handlers \ {h} : serving[i].name = n} IN
  serving' = [i \in Handlers |->
    IF i = h THEN [kind |-> kind, name |-> n, stage |-> stage, value |-> value,
                   raced |-> rivals # {} \/ \E s \in psql : s.name = n]
    ELSE [serving[i] EXCEPT !.raced = @ \/ i \in rivals]]

Begin(h, kind, n, stage) ==
  /\ phase = "up" /\ serving[h] = Resting
  /\ issued < MaxSecrets
  /\ issued' = issued + 1
  /\ Serve(h, kind, n, stage, issued')
  /\ rotated' = [rotated EXCEPT ![n] = 0]
  /\ UNCHANGED <<boot, vault, live, psql>>

FirstStage(n) == IF n \in Applied THEN "apply" ELSE "put"

(* secrets_rotate_handler, after a get that found and decrypted the name.  *)
Rotate(h, n) == Readable(n) /\ Begin(h, "rotate", n, FirstStage(n))

(* finalize_managed_install_after_success, and the bootstrap hooks.        *)
Install(h, n) == Begin(h, "install", n, FirstStage(n))

(* teardown_managed_uninstall, whose first half stops the component.       *)
Uninstall(h, n) ==
  /\ phase = "up" /\ serving[h] = Resting
  /\ n \in Applied
  /\ live' \in {live, [live EXCEPT ![n] = 0]}
  /\ Serve(h, "uninstall", n, "drop", 0)
  /\ rotated' = [rotated EXCEPT ![n] = 0]
  /\ UNCHANGED <<boot, vault, psql, issued>>

(* A rotation that goes on to the vault whether the component took the     *)
(* new password or not, as an install does.                                *)
ApplyLeniently(h) ==
  LET r == serving[h] IN
  /\ r.stage = "apply"
  /\ live' \in {live, [live EXCEPT ![r.name] = r.value]}
  /\ Goto(h, [r EXCEPT !.stage = "put"])
  /\ UNCHANGED <<boot, vault, psql, issued, rotated>>

(* apply_admin_password.  Without an applier it is Ok, and the component   *)
(* keeps the password it has.  An error of psql ends a rotation, and is    *)
(* logged by an install; it does not mean that the statement is not        *)
(* carried out, now or later.                                              *)
Apply(h) ==
  LET r == serving[h]
      onward == Goto(h, [r EXCEPT !.stage = "put"])
  IN
  /\ r.stage = "apply"
  /\ \/ r.name \notin Wired /\ onward /\ UNCHANGED <<live, psql>>
     \/ /\ r.name \in Wired
        /\ live' = [live EXCEPT ![r.name] = r.value]
        /\ onward /\ UNCHANGED psql
     \/ /\ r.name \in Wired
        /\ psql' \in {psql, psql \cup InHand(h)}
        /\ IF r.kind = "rotate" THEN Done(h) ELSE onward
        /\ UNCHANGED live
  /\ UNCHANGED <<boot, vault, issued, rotated>>

(* A psql nobody waits for ends, with its statement carried out or not.    *)
PsqlEnds(s) ==
  /\ s \in psql /\ psql' = psql \ {s}
  /\ live' \in {live, [live EXCEPT ![s.name] = s.value]}
  /\ UNCHANGED <<boot, vault, issued, serving, rotated>>

Put(h) ==
  LET r == serving[h] IN
  /\ r.stage = "put"
  /\ Store(r.name, [value |-> r.value, key |-> key])
  /\ rotated' = [rotated EXCEPT ![r.name] =
                    IF r.kind = "rotate" /\ ~r.raced /\ r.name \notin unsure'
                    THEN r.value ELSE 0]
  /\ Done(h)
  /\ UNCHANGED <<boot, live, psql, issued>>

Drop(h) ==
  LET n == serving[h].name IN
  /\ serving[h].stage = "drop"
  /\ \/ cache[n] # NoEntry /\ Store(n, NoEntry)
     \/ cache[n] = NoEntry /\ UNCHANGED vault
  /\ Done(h)
  /\ UNCHANGED <<boot, live, psql, issued, rotated>>

(* The request's future is dropped; psql, already started, is not.         *)
HangUp(h) ==
  /\ serving[h] # Resting
  /\ psql' \in {psql, psql \cup InHand(h)}
  /\ Done(h)
  /\ UNCHANGED <<boot, vault, live, issued, rotated>>

VaultNext ==
  \/ ResolvePassphrase \/ EnsureSalt \/ WriteSalt \/ OpenStore
  \/ DeletePassphrase \/ Settle \/ Crash
  \/ \E h \in Handlers :
       \/ \E n \in Names : Rotate(h, n) \/ Install(h, n) \/ Uninstall(h, n)
       \/ Apply(h) \/ Put(h) \/ Drop(h) \/ HangUp(h)
  \/ \E s \in psql : PsqlEnds(s)

VaultSpec == VaultInit /\ [][VaultNext]_vaultVars

-----------------------------------------------------------------------------
(* Acknowledged secrets survive: what put or delete last said Ok to, if no *)
(* later write of that name was cut short, is what get returns, through    *)
(* crashes at every step of the boot and of other writes, for as long as   *)
(* no power loss has taken a key file.                                     *)
AcknowledgedSecretsReadable ==
  phase = "up" /\ ~lost =>
    \A n \in Names \ unsure :
      /\ cache[n] = disk[n]
      /\ cache[n] = IF answered[n] = 0 THEN NoEntry
                    ELSE [value |-> answered[n], key |-> key]

(* Whatever a power loss takes, no secret is ever wrong: what get returns   *)
(* is the acknowledged value, and an acknowledged secret the vault cannot  *)
(* decrypt any more is an error, never "not found".                        *)
SecretsAreRightOrUnreadable ==
  phase = "up" =>
    \A n \in Names \ unsure :
      /\ (cache[n] = NoEntry) <=> (answered[n] = 0)
      /\ Readable(n) => cache[n].value = answered[n]

(* A rotation that reported success, of a password that can be applied,    *)
(* and that neither another request for the name nor a psql left by an     *)
(* earlier one raced, has the operator, the vault and the component agree, *)
(* also after a restart, until the credential is touched again.            *)
RotatedSecretIsLive ==
  \A n \in Wired :
    rotated[n] # 0 /\ phase = "up" =>
      /\ live[n] = rotated[n]
      /\ cache[n].value = rotated[n]
      /\ ~lost => Readable(n)

(* "a rotation failure leaves the vault and the live component in          *)
(* agreement (vault keeps the old value, component keeps the old value)":  *)
(* so does one that nothing raced and whose put fails, here and after a    *)
(* restart.                                                                *)
Agree(n) == live[n] = cache[n].value /\ live[n] = disk[n].value
FailedRotationAgrees ==
  [][\A h \in Handlers, n \in Wired :
       /\ serving[h].kind = "rotate" /\ serving[h].name = n /\ ~serving[h].raced
       /\ Put(h) /\ n \in unsure'
       => Agree(n)']_vaultVars

(* The passphrase: "subsequent boots re-read the same value so the secrets *)
(* store stays openable"; the salt "MUST be stable -- regenerating it      *)
(* would render every existing ciphertext unreadable".  Once the vault     *)
(* holds a secret, the server opens it with the key it is encrypted under. *)
KeyIsStable ==
  phase = "up" => \A n \in Names : disk[n] # NoEntry => disk[n].key = key
=============================================================================
