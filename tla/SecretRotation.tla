---------------------------- MODULE SecretRotation ----------------------------
(***************************************************************************)
(* Dual-slot secrets: the webhook HMAC secret of a department and provider *)
(* and the SSH key of a runner (admin-dashboard-api routers/security.py,   *)
(* libs/vault_client, the verifier verify_webhook_hmac, the connector      *)
(* SSHDualSlotConnector and WebhookRotationFinalizeWorkflow).              *)
(*                                                                         *)
(* One secret of either kind is modelled.  A rotation is four Vault calls  *)
(* (read active, write previous, write active, write meta), a finalisation *)
(* is a check and a delete, a verification reads the two slots one after   *)
(* the other; nothing locks, so all of them interleave, and any Vault call *)
(* may fail.  Secrets are numbered in the order they are generated.        *)
(***************************************************************************)
EXTENDS Naturals, FiniteSets

CONSTANTS
    Admins,       \* request handlers that rotate and finalise
    MaxSecret,    \* number of secrets generated after secret 0
    MaxTime,      \* bound of the clock
    Overlap,      \* WEBHOOK_ROTATION_OVERLAP_S in clock units
    Fingerprints, \* host keys ssh-keyscan may find
    None

ASSUME BoundsAssumption == MaxSecret \in Nat /\ MaxTime \in Nat /\ Overlap \in Nat

Secrets == 0..MaxSecret

\* What Vault keeps in the previous slot.
Demoted == [s: Secrets, until: 0..(MaxTime + Overlap)]

ASSUME NoneAssumption == None \notin Nat /\ None \notin Fingerprints /\ None \notin Demoted

VARIABLES
    kind,       \* what Vault holds: "webhook", "ssh" or "known_hosts"
    now,        \* wall clock
    active,     \* Vault: the active slot
    previous,   \* Vault: the previous slot, [s, until], or None
    meta,       \* Vault: rotated_at, or None
    inUse,      \* secrets the other side uses: the signing secret, the authorized keys
    handed,     \* secrets returned to the operator
    next,       \* next secret to generate
    req,        \* requests in progress
    cron,       \* one tick of WebhookRotationFinalizeWorkflow
    ver,        \* one verification or connection in progress
    hostKeys,   \* the keys the runner host presents, one per key type
    known,      \* Vault: the known_hosts fingerprint
    shown,      \* fingerprints returned for review
    excused,    \* history: the host key changed, or a key was accepted without a review
    rotations,  \* history: rotations that wrote a slot
    deleted,    \* history: a previous slot was deleted
    crossed,    \* history: two rotations were in progress at once
    early,      \* history: the cron deleted a slot inside its overlap window
    overtaken,  \* history: a rotation wrote the slot after the cron had listed it
    dead        \* history: secrets that were not valid when handed out

vault == <<active, previous, meta>>
hostVars == <<hostKeys, known, shown, excused>>
history == <<rotations, deleted, crossed, early, overtaken, dead>>
vars == <<kind, now, vault, inUse, handed, next, req, cron, ver, hostVars, history>>

Idle == [pc |-> "idle", cur |-> None, new |-> None, at |-> 0]
NoCron == [pc |-> "idle", until |-> 0]
NoCheck == [pc |-> "idle", sig |-> None, at |-> 0, hit |-> FALSE, error |-> FALSE,
            kept |-> Secrets, ever |-> FALSE]

Rotating(a) == req[a].pc \in {"previous", "active", "meta"}

\* A secret is valid while it is active, or previous and still in its window.
\* The SSH slots have no window.
ValidIn(s, act, prev, t) ==
    \/ act = s
    \/ prev # None /\ prev.s = s /\ (kind = "ssh" \/ t < prev.until)
Valid(s) == ValidIn(s, active, previous, now)

-----------------------------------------------------------------------------
Init ==
    /\ kind \in {"webhook", "ssh", "known_hosts"}
    /\ now = 0
    /\ active \in {0, None} /\ previous = None /\ meta = None
    /\ inUse = {active} \ {None} /\ handed = inUse /\ next = 1
    /\ req = [a \in Admins |-> Idle]
    /\ cron = NoCron /\ ver = NoCheck
    /\ hostKeys \in (SUBSET Fingerprints) \ {{}} /\ known = None /\ shown = {} /\ excused = FALSE
    /\ rotations = 0 /\ deleted = FALSE /\ crossed = FALSE
    /\ early = FALSE /\ overtaken = FALSE /\ dead = {}

\* What a step that changes the slots, the clock or the other side means for
\* the verification in progress: which of its secrets were valid all the time
\* (kept), and whether the slots ever held one that was valid on arrival.
Watch(v, use, act, prev, t) ==
    IF v.pc \in {"active", "previous"}
    THEN LET Good(u) == {s \in (IF kind = "ssh" THEN use ELSE {v.sig}): ValidIn(s, act, prev, u)}
         IN [v EXCEPT !.kept = @ \cap Good(t), !.ever = @ \/ Good(v.at) # {}]
    ELSE v

-----------------------------------------------------------------------------
\* rotate_webhook / rotate_ssh_key: generate, take the time, read the active
\* slot.  A failed read ends the request.
rotate(a) ==
    /\ kind # "known_hosts"
    /\ req[a].pc = "idle"
    /\ next <= MaxSecret
    /\ next' = next + 1
    /\ \/ req' = [req EXCEPT ![a] = [pc |-> IF active = None THEN "active" ELSE "previous",
                                     cur |-> active, new |-> next, at |-> now]]
          /\ crossed' = (crossed \/ \E b \in Admins \ {a}: Rotating(b))
       \/ UNCHANGED <<req, crossed>>
    /\ UNCHANGED <<kind, now, vault, inUse, handed, cron, ver, hostVars,
                   rotations, deleted, early, overtaken, dead>>

overlap_until(t) == t + Overlap

\* Mutant: demotion and promotion in the wrong order.
write_previous_Last(a) ==
    /\ req[a].pc = "previous"
    /\ IF active # req[a].new
       THEN /\ active' = req[a].new
            /\ ver' = Watch(ver, inUse, active', previous, now)
            /\ UNCHANGED <<previous, req, rotations>>
       ELSE /\ previous' = [s |-> req[a].cur, until |-> overlap_until(req[a].at)]
            /\ req' = [req EXCEPT ![a].pc = "meta"]
            /\ rotations' = rotations + 1
            /\ ver' = Watch(ver, inUse, active, previous', now)
            /\ UNCHANGED active
    /\ UNCHANGED <<kind, now, meta, inUse, handed, next, cron, hostVars,
                   deleted, crossed, early, overtaken, dead>>

\* The demotion: the secret read is written to the previous slot.
write_previous(a) ==
    /\ req[a].pc = "previous"
    /\ \/ /\ previous' = [s |-> req[a].cur, until |-> overlap_until(req[a].at)]
          /\ req' = [req EXCEPT ![a].pc = "active"]
          /\ rotations' = rotations + 1
          /\ overtaken' = (overtaken \/ cron.pc # "idle")
          /\ ver' = Watch(ver, inUse, active, previous', now)
       \/ /\ req' = [req EXCEPT ![a] = Idle]
          /\ UNCHANGED <<previous, rotations, overtaken, ver>>
    /\ UNCHANGED <<kind, now, active, meta, inUse, handed, next, cron, hostVars,
                   deleted, crossed, early, dead>>

\* The promotion: the new secret is written to the active slot.
write_active(a) ==
    /\ req[a].pc = "active"
    /\ \/ /\ active' = req[a].new
          /\ req' = [req EXCEPT ![a].pc = "meta"]
          /\ rotations' = IF req[a].cur = None THEN rotations + 1 ELSE rotations
          /\ ver' = Watch(ver, inUse, active', previous, now)
       \/ /\ req' = [req EXCEPT ![a] = Idle]
          /\ UNCHANGED <<active, rotations, ver>>
    /\ UNCHANGED <<kind, now, previous, meta, inUse, handed, next, cron, hostVars,
                   deleted, crossed, early, overtaken, dead>>

\* The rest of the request: rotated_at, the audit row (best effort), and the
\* answer that shows the secret once.  A failed write of meta is answered with
\* 502 although the secret is already active.
write_meta(a) ==
    /\ req[a].pc = "meta"
    /\ req' = [req EXCEPT ![a] = Idle]
    /\ \/ /\ meta' = req[a].at
          /\ handed' = handed \cup {req[a].new}
          /\ dead' = IF Valid(req[a].new) THEN dead ELSE dead \cup {req[a].new}
       \/ UNCHANGED <<meta, handed, dead>>
    /\ UNCHANGED <<kind, now, active, previous, inUse, next, cron, ver, hostVars,
                   rotations, deleted, crossed, early, overtaken>>

\* finalize_webhook / finalize_ssh_rotation, the check: an empty previous slot
\* is answered with 409.
finalize(a) ==
    /\ req[a].pc = "idle"
    /\ previous # None
    /\ req' = [req EXCEPT ![a] = [Idle EXCEPT !.pc = "finalize"]]
    /\ UNCHANGED <<kind, now, vault, inUse, handed, next, cron, ver, hostVars, history>>

\* The delete: no condition any more, and deleting an empty slot is fine.
delete_previous(a) ==
    /\ req[a].pc = "finalize"
    /\ req' = [req EXCEPT ![a] = Idle]
    /\ \/ previous' = None /\ deleted' = TRUE /\ ver' = Watch(ver, inUse, active, previous', now)
       \/ UNCHANGED <<previous, deleted, ver>>
    /\ UNCHANGED <<kind, now, active, meta, inUse, handed, next, cron, hostVars,
                   rotations, crossed, early, overtaken, dead>>

-----------------------------------------------------------------------------
\* WebhookRotationFinalizeWorkflow: the listing activity, known from its caller only.
list_webhook_entries_with_overlap ==
    /\ kind = "webhook" /\ cron.pc = "idle" /\ previous # None
    /\ cron' = [pc |-> "check", until |-> previous.until]
    /\ UNCHANGED <<kind, now, vault, inUse, handed, next, req, ver, hostVars, history>>

\* workflow.now() is read, and an entry whose window is still open is skipped.
cron_check ==
    /\ cron.pc = "check"
    /\ cron' = IF cron.until > now THEN NoCron ELSE [cron EXCEPT !.pc = "delete"]
    /\ UNCHANGED <<kind, now, vault, inUse, handed, next, req, ver, hostVars, history>>

\* finalize_webhook_rotation(dept, provider), known from its caller only, clears whatever the slot holds by
\* then; an error is reported and the next tick tries again.
finalize_webhook_rotation ==
    /\ cron.pc = "delete"
    /\ cron' = NoCron
    /\ \/ /\ previous' = None
          /\ deleted' = TRUE
          /\ early' = (early \/ (previous # None /\ now < previous.until))
          /\ ver' = Watch(ver, inUse, active, previous', now)
       \/ UNCHANGED <<previous, deleted, early, ver>>
    /\ UNCHANGED <<kind, now, active, meta, inUse, handed, next, req, hostVars,
                   rotations, crossed, overtaken, dead>>

-----------------------------------------------------------------------------
\* A delivery arrives, or a run connects: verify_webhook_hmac takes the time as
\* an argument, the connector starts with the active slot.
begin_verify ==
    /\ kind # "known_hosts"
    /\ ver.pc = "idle"
    /\ \E s \in inUse:
          ver' = Watch([pc |-> "active", sig |-> s, at |-> now, hit |-> FALSE, error |-> FALSE,
                        kept |-> Secrets, ever |-> FALSE], inUse, active, previous, now)
    /\ UNCHANGED <<kind, now, vault, inUse, handed, next, req, cron, hostVars, history>>

Matches(s) == IF kind = "ssh" THEN s \in inUse ELSE s = ver.sig

\* Mutant: the previous slot is read first.
read_active_PreviousFirst ==
    /\ ver.pc = "active"
    /\ ver' = [ver EXCEPT !.hit = previous # None /\ Matches(previous.s)
                                  /\ (kind = "ssh" \/ ver.at < previous.until),
                          !.pc = "previous"]
    /\ UNCHANGED <<kind, now, vault, inUse, handed, next, req, cron, hostVars, history>>

\* First read: the active slot.  A Vault read that raises, and a connection that
\* fails for another reason than the key, end it without a verdict.
read_active ==
    /\ ver.pc = "active"
    /\ \/ ver' = [ver EXCEPT !.hit = (active # None /\ Matches(active)), !.pc = "previous"]
       \/ ver' = NoCheck
    /\ UNCHANGED <<kind, now, vault, inUse, handed, next, req, cron, hostVars, history>>

\* Second read, and the verdict.  The connector only looks at the previous
\* slot when the active one did not do, and there any error of the connection
\* counts as a refusal of both slots.
read_previous ==
    /\ ver.pc = "previous"
    /\ \/ LET hit == \/ ver.hit
                     \/ previous # None /\ Matches(previous.s)
                        /\ (kind = "ssh" \/ ver.at < previous.until)
          IN ver' = [ver EXCEPT !.pc = IF hit THEN "accepted" ELSE "refused"]
       \/ /\ ~(kind = "ssh" /\ ver.hit)
          /\ ver' = NoCheck
       \/ /\ kind = "ssh" /\ ~ver.hit /\ previous # None
          /\ ver' = [ver EXCEPT !.pc = "refused", !.error = TRUE]
    /\ UNCHANGED <<kind, now, vault, inUse, handed, next, req, cron, hostVars, history>>

end_verify ==
    /\ ver.pc \in {"accepted", "refused"}
    /\ ver' = NoCheck
    /\ UNCHANGED <<kind, now, vault, inUse, handed, next, req, cron, hostVars, history>>

-----------------------------------------------------------------------------
\* The operator configures a secret that was handed out: the provider signs
\* with it from then on, the runner host authorizes it as a further key.
Deploy(s) ==
    /\ s \in handed
    /\ inUse' = IF kind = "ssh" THEN inUse \cup {s} ELSE {s}
    /\ inUse' # inUse
    /\ ver' = Watch(ver, inUse', active, previous, now)
    /\ UNCHANGED <<kind, now, vault, handed, next, req, cron, hostVars, history>>

\* Time passes.
Tick ==
    /\ kind # "known_hosts"
    /\ now < MaxTime
    /\ now' = now + 1
    /\ ver' = Watch(ver, inUse, active, previous, now')
    /\ UNCHANGED <<kind, vault, inUse, handed, next, req, cron, hostVars, history>>

-----------------------------------------------------------------------------
\* rotate_known_hosts: every call scans the host for two key types and keeps the
\* first line of the answer, in whatever order the keys arrive; the first phase
\* returns that fingerprint for review, the second stores what its own scan found.
rotate_known_hosts(accept) ==
    /\ kind = "known_hosts"
    /\ \E first \in hostKeys:
          IF accept
          THEN known' = first /\ excused' = (excused \/ shown = {}) /\ UNCHANGED shown
          ELSE shown' = shown \cup {first} /\ UNCHANGED <<known, excused>>
    /\ UNCHANGED <<kind, now, vault, inUse, handed, next, req, cron, ver, hostKeys, history>>

\* The host is reinstalled.
HostKeyChanges ==
    /\ kind = "known_hosts"
    /\ hostKeys' \in (SUBSET Fingerprints) \ {{}, hostKeys}
    /\ excused' = TRUE
    /\ UNCHANGED <<kind, now, vault, inUse, handed, next, req, cron, ver, known, shown, history>>

-----------------------------------------------------------------------------
Next ==
    \/ \E a \in Admins: \/ rotate(a) \/ write_previous(a) \/ write_active(a) \/ write_meta(a)
                        \/ finalize(a) \/ delete_previous(a)
    \/ list_webhook_entries_with_overlap \/ cron_check \/ finalize_webhook_rotation
    \/ begin_verify \/ read_active \/ read_previous \/ end_verify
    \/ \E s \in Secrets: Deploy(s)
    \/ Tick
    \/ \E accept \in BOOLEAN: rotate_known_hosts(accept)
    \/ HostKeyChanges

Spec == Init /\ [][Next]_vars

-----------------------------------------------------------------------------
Requests == [pc: {"idle", "previous", "active", "meta", "finalize"},
             cur: Secrets \cup {None}, new: Secrets \cup {None}, at: 0..MaxTime]
Checks == [pc: {"idle", "active", "previous", "accepted", "refused"},
           sig: Secrets \cup {None}, at: 0..MaxTime, hit: BOOLEAN, error: BOOLEAN, kept: SUBSET Secrets, ever: BOOLEAN]

\* Type invariant.
TypeOK ==
    /\ kind \in {"webhook", "ssh", "known_hosts"}
    /\ now \in 0..MaxTime
    /\ active \in Secrets \cup {None}
    /\ previous \in Demoted \cup {None}
    /\ meta \in {None} \cup 0..MaxTime
    /\ inUse \subseteq Secrets /\ handed \subseteq Secrets
    /\ next \in 1..(MaxSecret + 1)
    /\ req \in [Admins -> Requests]
    /\ cron \in [pc: {"idle", "check", "delete"}, until: 0..(MaxTime + Overlap)]
    /\ ver \in Checks
    /\ hostKeys \subseteq Fingerprints /\ known \in Fingerprints \cup {None}
    /\ shown \subseteq Fingerprints
    /\ rotations \in Nat /\ dead \subseteq Secrets
    /\ excused \in BOOLEAN /\ deleted \in BOOLEAN /\ crossed \in BOOLEAN
    /\ early \in BOOLEAN /\ overtaken \in BOOLEAN

\* A verification that reads the two slots one after the other never refuses a
\* secret that was valid throughout, however rotations, finalisations and the
\* clock interleave with its reads (webhook_hmac.py:150-178), except that the SSH
\* connector reports any error it meets with the previous key as the failure of
\* both slots (remote_ssh.py:367-374, 443-456).
NoFalseRefusal == ver.pc = "refused" => ver.kept = {} \/ (kind = "ssh" /\ ver.error)

\* And it accepts nothing unless, at some moment of the verification, the
\* slots held it as a secret valid for the time of arrival.
NoFalseAcceptance == ver.pc = "accepted" => ver.ever

\* A verifier that reads the two slots while rotations move secrets between them
\* neither refuses a secret that was valid throughout, unless the connection
\* failed, nor accepts one that never was.
VerdictsAreTrue ==
    /\ TypeOK
    /\ NoFalseRefusal
    /\ NoFalseAcceptance

\* The rotation opens no gap: the secret in use stays valid through a rotation
\* and any failure inside it.  It only goes invalid by a second rotation, by a
\* deleted previous slot, or when the window ends (hashicorp_backend.py:161-180).
NoGap ==
    (inUse # {} /\ \A s \in inUse: ~Valid(s)) =>
        \/ rotations > 1 \/ deleted
        \/ kind = "webhook" /\ previous # None /\ now >= previous.until

\* A secret shown to the operator works at that moment, unless another
\* rotation ran at the same time (security.py:1700-1727).
HandedOutSecretWorks == dead # {} => crossed

\* The window a rotation opens is a full one: measured from its start, it ends
\* no earlier than Overlap after the time recorded as rotated_at.
FullWindow ==
    (meta # None /\ previous # None /\ rotations = 1) => previous.until >= meta + Overlap

\* The scheduled finalisation closes a window early only when a rotation came
\* between its listing and its delete (webhook_rotation_finalize.py:242-281).
CronClosesOnlyExpired == early => overtaken

\* The accepting call scans again, so the key it stores can be one nobody
\* reviewed; that takes a host whose keys changed in between, an operator who
\* skipped the review, or a host with a key of each type, of which the two scans
\* saw a different one first (security.py:1293-1385).
UnreviewedKeyIsExcused ==
    (known # None /\ known \notin shown) => excused \/ hostKeys # {known}

\* Through rotations, failures in their middle, the closing cron and re-scanned
\* host keys, a secret in use stays valid for its window and a new one works.
SecretsKeepTheirWindow ==
    /\ NoGap
    /\ HandedOutSecretWorks
    /\ FullWindow
    /\ CronClosesOnlyExpired
    /\ UnreviewedKeyIsExcused
=============================================================================
