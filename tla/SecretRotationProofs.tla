------------------------- MODULE SecretRotationProofs -------------------------
(***************************************************************************)
(* The dual-slot secrets for any number of administrators, secrets and     *)
(* clock values and any overlap: no verification is wrong about a secret,  *)
(* and no rotation, failure or finalisation ends a secret's window before  *)
(* its time.                                                               *)
(***************************************************************************)
EXTENDS SecretRotation, TLAPS

Pending(a) == req[a].pc \in {"previous", "active"}

\* A secret that waits to be promoted is new: it is in neither slot, no
\* request is about to demote it, and no other request will promote it.
FreshInv ==
    /\ active # None => active < next
    /\ previous # None => previous.s < next
    /\ \A a \in Admins: Rotating(a) =>
          /\ req[a].new \in Secrets /\ req[a].new < next
          /\ req[a].cur # None => req[a].cur < next
          /\ req[a].pc = "previous" => req[a].cur # None
    /\ \A a \in Admins: Pending(a) =>
          /\ req[a].new # active
          /\ previous # None => previous.s # req[a].new
          /\ \A b \in Admins: Rotating(b) => req[b].cur # req[a].new
          /\ \A b \in Admins \ {a}: Rotating(b) => req[b].new # req[a].new

\* The secrets that would do at time u for a verification of sig; a connection
\* takes any key the host authorizes.
Fitting(use, sig, act, prev, u) ==
    {s \in (IF kind = "ssh" THEN use ELSE {sig}): ValidIn(s, act, prev, u)}
Good(u) == Fitting(inUse, ver.sig, active, previous, u)

\* What a verification has seen.  Once the active slot was read and did not
\* do, no secret that was valid all along can come back to that slot.
CheckInv ==
    /\ ver.at <= now
    /\ ver.pc \in {"active", "previous"} =>
          /\ ver.kept \subseteq Good(now)
          /\ Good(ver.at) # {} => ver.ever
    /\ ver.pc = "previous" => IF ver.hit THEN ver.ever ELSE active \notin ver.kept
    /\ NoFalseRefusal
    /\ NoFalseAcceptance

InSlots(s) == active = s \/ (previous # None /\ previous.s = s)

\* The first rotation.  Before it the previous slot is empty; through it, and
\* until another one writes, every secret handed out is in one of the slots.
FirstInv ==
    /\ inUse \subseteq handed
    /\ kind = "known_hosts" => previous = None /\ \A a \in Admins: req[a].pc = "idle"
    /\ rotations = 0 =>
          /\ previous = None /\ meta = None
          /\ \A a \in Admins: req[a].pc # "meta"
          /\ \A a \in Admins: Pending(a) => req[a].cur = active
          /\ \A a \in Admins: req[a].pc = "active" => req[a].cur = None
    /\ rotations = 1 =>
          /\ \A a, b \in Admins: /\ req[a].pc = "active" /\ req[a].cur # None
                                 /\ req[b].pc = "active" /\ req[b].cur # None
                                 => a = b
          /\ \A a \in Admins: /\ previous # None
                              /\ req[a].pc = "meta" \/ (req[a].pc = "active" /\ req[a].cur # None)
                              => previous.until = req[a].at + Overlap
          /\ previous # None /\ meta # None => previous.until >= meta + Overlap
    /\ rotations <= 1 /\ ~deleted =>
          /\ \A s \in handed: InSlots(s)
          /\ \A a \in Admins: req[a].pc = "meta" => InSlots(req[a].new)
          /\ \A a \in Admins: req[a].pc = "active" /\ req[a].cur # None =>
                previous # None /\ previous.s = active

\* A rotation that was never joined by another one has its secret in the slot.
AloneInv ==
    ~crossed =>
      /\ \A a, b \in Admins: Rotating(a) /\ Rotating(b) => a = b
      /\ \A a \in Admins: req[a].pc = "meta" => active = req[a].new
      /\ dead = {}

\* The tick of the cron knows the window it closes unless it was overtaken.
CronInv ==
    /\ ~overtaken /\ cron.pc # "idle" /\ previous # None => previous.until = cron.until
    /\ cron.pc = "delete" => cron.until <= now
    /\ early => overtaken

\* Without an excuse only keys of the host were ever shown, and one was before
\* any was accepted.
HostInv == ~excused => shown \subseteq hostKeys /\ (known # None => shown # {})

IInv == TypeOK /\ FreshInv /\ CheckInv /\ FirstInv /\ AloneInv /\ CronInv /\ HostInv

-----------------------------------------------------------------------------
(* What the steps have in common.                                          *)

\* Watch keeps what the verification is about and notes what the slots held.
LEMMA WatchFacts ==
    ASSUME NEW v \in Checks, NEW use \in SUBSET Secrets, NEW act, NEW prev, NEW t
    PROVE  LET w == Watch(v, use, act, prev, t)
           IN /\ w \in Checks
              /\ w.pc = v.pc /\ w.sig = v.sig /\ w.at = v.at /\ w.hit = v.hit /\ w.error = v.error
              /\ w.kept \subseteq v.kept
              /\ v.ever => w.ever
              /\ v.pc \notin {"active", "previous"} => w = v
              /\ v.pc \in {"active", "previous"} =>
                    /\ w.kept \subseteq Fitting(use, v.sig, act, prev, t)
                    /\ Fitting(use, v.sig, act, prev, v.at) # {} => w.ever
<1> DEFINE Fit(u) == Fitting(use, v.sig, act, prev, u)
           Seen == [v EXCEPT !.kept = @ \cap Fit(t), !.ever = @ \/ Fit(v.at) # {}]
<1>1. v \in Checks OBVIOUS
<1>2. Watch(v, use, act, prev, t) = IF v.pc \in {"active", "previous"} THEN Seen ELSE v
  BY DEF Watch, Fitting
<1>3. /\ Seen \in Checks
      /\ Seen.pc = v.pc /\ Seen.sig = v.sig /\ Seen.at = v.at /\ Seen.hit = v.hit /\ Seen.error = v.error
      /\ Seen.kept = v.kept \cap Fit(t)
      /\ Seen.ever = (v.ever \/ Fit(v.at) # {})
  <2> HIDE DEF Fit
  <2>1. v.kept \cap Fit(t) \in SUBSET Secrets BY <1>1 DEF Checks
  <2>2. (v.ever \/ Fit(v.at) # {}) \in BOOLEAN BY <1>1 DEF Checks
  <2> QED BY <1>1, <2>1, <2>2 DEF Checks
<1> HIDE DEF Fit, Seen
<1>4. v.ever \in BOOLEAN BY <1>1 DEF Checks
<1>5. CASE v.pc \in {"active", "previous"}
  <2>1. Watch(v, use, act, prev, t) = Seen BY <1>2, <1>5
  <2> QED BY <1>3, <1>4, <1>5, <2>1 DEF Fit
<1>6. CASE v.pc \notin {"active", "previous"}
  <2>1. Watch(v, use, act, prev, t) = v BY <1>2, <1>6
  <2> QED BY <1>1, <1>6, <2>1
<1> QED BY <1>5, <1>6

\* A step that moves secrets, the clock or the other side keeps the verification
\* honest, provided it does not put a secret that is valid now into the active slot.
LEMMA WatchedStep ==
    ASSUME TypeOK, CheckInv,
           kind' = kind, now' \in Nat, now <= now', inUse' \in SUBSET Secrets,
           ver' = Watch(ver, inUse', active', previous', now'),
           active' = active \/ ~Valid(active')
    PROVE  ver' \in Checks /\ CheckInv'
<1> DEFINE Fit(u) == Fitting(inUse', ver.sig, active', previous', u)
<1>1. /\ ver' \in Checks
      /\ ver'.pc = ver.pc /\ ver'.sig = ver.sig /\ ver'.at = ver.at /\ ver'.hit = ver.hit /\ ver'.error = ver.error
      /\ ver'.kept \subseteq ver.kept
      /\ ver.ever => ver'.ever
      /\ ver.pc \notin {"active", "previous"} => ver' = ver
      /\ ver.pc \in {"active", "previous"} =>
            ver'.kept \subseteq Fit(now') /\ (Fit(ver.at) # {} => ver'.ever)
  BY WatchFacts DEF TypeOK
<1>2. ver.at \in Nat /\ now \in Nat BY DEF TypeOK, Checks
<1>3. ver'.at <= now' BY <1>1, <1>2 DEF CheckInv
<1>4. Good(now)' = Fit(now') BY <1>1 DEF Good, Fitting, ValidIn
<1>5. Good(ver.at)' = Fit(ver.at) BY <1>1 DEF Good, Fitting, ValidIn
<1>6. ver'.pc = "previous" => IF ver'.hit THEN ver'.ever ELSE active' \notin ver'.kept
  <2> SUFFICES ASSUME ver.pc = "previous" PROVE IF ver.hit THEN ver'.ever ELSE active' \notin ver'.kept
    BY <1>1
  <2>1. CASE ver.hit BY <1>1, <2>1 DEF CheckInv
  <2>2. CASE ~ver.hit
    <3>1. active \notin ver.kept /\ \A s \in ver.kept: Valid(s)
      BY <2>2 DEF CheckInv, Good, Fitting, Valid
    <3> QED BY <1>1, <2>2, <3>1
  <2> QED BY <2>1, <2>2
<1>7. NoFalseRefusal' /\ NoFalseAcceptance'
  BY <1>1 DEF CheckInv, NoFalseRefusal, NoFalseAcceptance
<1> HIDE DEF Fit
<1> QED BY <1>1, <1>3, <1>4, <1>5, <1>6, <1>7 DEF CheckInv

\* A step that leaves all of it alone.
LEMMA UnwatchedStep ==
    ASSUME CheckInv, UNCHANGED <<kind, now, active, previous, inUse, ver>>
    PROVE  CheckInv'
BY DEF CheckInv, Good, Fitting, ValidIn, NoFalseRefusal, NoFalseAcceptance

-----------------------------------------------------------------------------
(* The rotation.                                                           *)

\* The start of a rotation takes a number nobody has used yet.
LEMMA StepRotate ==
    ASSUME IInv, NEW a \in Admins, rotate(a)
    PROVE  IInv'
<1> USE BoundsAssumption, NoneAssumption DEF IInv
<1>1. /\ UNCHANGED <<kind, now, vault, inUse, handed, cron, ver, hostVars,
                     rotations, deleted, early, overtaken, dead>>
      /\ kind # "known_hosts" /\ req[a].pc = "idle" /\ next \in Secrets /\ next' = next + 1
  BY DEF rotate, TypeOK, Secrets
<1> DEFINE new == [pc |-> IF active = None THEN "active" ELSE "previous",
                   cur |-> active, new |-> next, at |-> now]
<1>2. \/ req' = [req EXCEPT ![a] = new] /\ crossed' = (crossed \/ \E b \in Admins \ {a}: Rotating(b))
      \/ req' = req /\ crossed' = crossed
  BY DEF rotate
<1>3. TypeOK'
  <2>1. new \in Requests BY <1>1 DEF TypeOK, Requests
  <2>2. crossed' \in BOOLEAN BY <1>2 DEF TypeOK
  <2>3. req' \in [Admins -> Requests] BY <1>2, <2>1 DEF TypeOK
  <2> QED BY <1>1, <2>2, <2>3 DEF TypeOK, Secrets, vault, hostVars
<1>4. CheckInv' BY <1>1, UnwatchedStep DEF vault
<1>5. CronInv' /\ HostInv'
  BY <1>1 DEF vault, hostVars, CronInv, HostInv
<1>6. CASE req' = req /\ crossed' = crossed
  <2>1. FreshInv'
    BY <1>1, <1>6 DEF FreshInv, Rotating, Pending, vault, TypeOK, Secrets, Demoted, Requests
  <2>2. FirstInv' /\ AloneInv'
    BY <1>1, <1>6 DEF FirstInv, AloneInv, Rotating, Pending, InSlots, vault
  <2> QED BY <1>3, <1>4, <1>5, <2>1, <2>2
<1>7. CASE req' = [req EXCEPT ![a] = new] /\ crossed' = (crossed \/ \E b \in Admins \ {a}: Rotating(b))
  <2>1. /\ req'[a] = new
        /\ \A b \in Admins \ {a}: req'[b] = req[b]
    BY <1>7 DEF TypeOK
  <2>2. FreshInv'
    BY <1>1, <2>1 DEF FreshInv, Rotating, Pending, vault, TypeOK, Secrets, Demoted, Requests
  <2>3. FirstInv'
    BY <1>1, <2>1 DEF FirstInv, Rotating, Pending, InSlots, vault
  <2>4. AloneInv'
    <3>1. ~crossed' => ~crossed /\ \A b \in Admins \ {a}: ~Rotating(b)
      BY <1>7 DEF TypeOK
    <3> QED BY <1>1, <2>1, <3>1 DEF AloneInv, Rotating, vault
  <2> QED BY <1>3, <1>4, <1>5, <2>2, <2>3, <2>4
<1> QED BY <1>2, <1>6, <1>7

\* The demotion copies the active secret, so nothing leaves the slots.
LEMMA StepWritePrevious ==
    ASSUME IInv, NEW a \in Admins, write_previous(a)
    PROVE  IInv'
<1> USE BoundsAssumption, NoneAssumption DEF IInv
<1>1. /\ UNCHANGED <<kind, now, active, meta, inUse, handed, next, cron, hostVars,
                     deleted, crossed, early, dead>>
      /\ req[a].pc = "previous"
  BY DEF write_previous
<1> DEFINE slot == [s |-> req[a].cur, until |-> overlap_until(req[a].at)]
<1>2. \/ /\ previous' = slot
         /\ req' = [req EXCEPT ![a].pc = "active"]
         /\ rotations' = rotations + 1
         /\ overtaken' = (overtaken \/ cron.pc # "idle")
         /\ ver' = Watch(ver, inUse', active', previous', now')
      \/ /\ req' = [req EXCEPT ![a] = Idle]
         /\ UNCHANGED <<previous, rotations, overtaken, ver>>
  BY <1>1 DEF write_previous
<1>3. req[a] \in Requests /\ req[a].cur # None /\ req[a].cur \in Secrets /\ req[a].at \in 0..MaxTime
  BY <1>1 DEF FreshInv, Rotating, TypeOK, Requests
<1>4. HostInv'
  BY <1>1 DEF hostVars, HostInv
<1>5. CASE /\ req' = [req EXCEPT ![a] = Idle]
           /\ UNCHANGED <<previous, rotations, overtaken, ver>>
  <2>1. req'[a] = Idle /\ \A b \in Admins \ {a}: req'[b] = req[b]
    BY <1>5 DEF TypeOK
  <2>2. TypeOK'
    <3>1. Idle \in Requests BY DEF Idle, Requests
    <3> QED BY <1>1, <1>5, <3>1 DEF TypeOK, hostVars
  <2>3. CheckInv' BY <1>1, <1>5, UnwatchedStep
  <2>4. CronInv' BY <1>1, <1>5 DEF CronInv
  <2>5. FreshInv' BY <1>1, <1>5, <2>1 DEF FreshInv, Rotating, Pending, Idle
  <2>6. FirstInv' BY <1>1, <1>5, <2>1 DEF FirstInv, Pending, InSlots, Idle
  <2>7. AloneInv' BY <1>1, <1>5, <2>1 DEF AloneInv, Rotating, Idle
  <2> QED BY <1>4, <2>2, <2>3, <2>4, <2>5, <2>6, <2>7
<1>6. CASE /\ previous' = slot
           /\ req' = [req EXCEPT ![a].pc = "active"]
           /\ rotations' = rotations + 1
           /\ overtaken' = (overtaken \/ cron.pc # "idle")
           /\ ver' = Watch(ver, inUse', active', previous', now')
  <2>1. /\ req'[a].pc = "active" /\ req'[a].cur = req[a].cur /\ req'[a].new = req[a].new
        /\ req'[a].at = req[a].at
        /\ \A b \in Admins \ {a}: req'[b] = req[b]
    BY <1>6 DEF TypeOK, Requests
  <2>2. slot \in Demoted /\ slot.s = req[a].cur /\ slot.until = req[a].at + Overlap /\ slot # None
    BY <1>3 DEF Demoted, overlap_until
  <2> HIDE DEF slot
  <2>3. ver' \in Checks /\ CheckInv'
    BY <1>1, <1>6, WatchedStep DEF TypeOK
  <2>4. TypeOK'
    <3>1. req' \in [Admins -> Requests] BY <1>3, <1>6 DEF TypeOK, Requests
    <3>2. overtaken' \in BOOLEAN BY <1>6 DEF TypeOK
    <3> QED BY <1>1, <1>6, <2>2, <2>3, <3>1, <3>2 DEF TypeOK, hostVars
  <2>5. CronInv'
    <3>1. overtaken' = (overtaken \/ cron.pc # "idle") BY <1>6
    <3>2. (overtaken => overtaken') /\ (cron.pc # "idle" => overtaken')
      BY <3>1 DEF TypeOK
    <3> QED BY <1>1, <3>2 DEF CronInv
  <2>6. FreshInv'
    BY <1>1, <1>3, <1>6, <2>1, <2>2 DEF FreshInv, Rotating, Pending, TypeOK, Secrets, Demoted, Requests
  <2>7. FirstInv'
    BY <1>1, <1>3, <1>6, <2>1, <2>2 DEF FirstInv, Rotating, Pending, InSlots, TypeOK
  <2>8. AloneInv'
    BY <1>1, <2>1 DEF AloneInv, Rotating
  <2> QED BY <1>4, <2>3, <2>4, <2>5, <2>6, <2>7, <2>8
<1> QED BY <1>2, <1>5, <1>6

\* The promotion writes a fresh secret over one that was just demoted.
LEMMA StepWriteActive ==
    ASSUME IInv, NEW a \in Admins, write_active(a)
    PROVE  IInv'
<1> USE BoundsAssumption, NoneAssumption DEF IInv
<1>1. /\ UNCHANGED <<kind, now, previous, meta, inUse, handed, next, cron, hostVars,
                     deleted, crossed, early, overtaken, dead>>
      /\ req[a].pc = "active"
  BY DEF write_active
<1>2. \/ /\ active' = req[a].new
         /\ req' = [req EXCEPT ![a].pc = "meta"]
         /\ rotations' = IF req[a].cur = None THEN rotations + 1 ELSE rotations
         /\ ver' = Watch(ver, inUse', active', previous', now')
      \/ /\ req' = [req EXCEPT ![a] = Idle]
         /\ UNCHANGED <<active, rotations, ver>>
  BY <1>1 DEF write_active
<1>3. req[a] \in Requests /\ req[a].new \in Secrets /\ req[a].at \in 0..MaxTime
  BY <1>1 DEF FreshInv, Rotating, TypeOK, Requests
<1>4. HostInv' /\ CronInv'
  BY <1>1 DEF hostVars, HostInv, CronInv
<1>5. CASE /\ req' = [req EXCEPT ![a] = Idle]
           /\ UNCHANGED <<active, rotations, ver>>
  <2>1. req'[a] = Idle /\ \A b \in Admins \ {a}: req'[b] = req[b]
    BY <1>5 DEF TypeOK
  <2>2. TypeOK'
    <3>1. Idle \in Requests BY DEF Idle, Requests
    <3> QED BY <1>1, <1>5, <3>1 DEF TypeOK, hostVars
  <2>3. CheckInv' BY <1>1, <1>5, UnwatchedStep
  <2>5. FreshInv' BY <1>1, <1>5, <2>1 DEF FreshInv, Rotating, Pending, Idle
  <2>6. FirstInv' BY <1>1, <1>5, <2>1 DEF FirstInv, Pending, InSlots, Idle
  <2>7. AloneInv' BY <1>1, <1>5, <2>1 DEF AloneInv, Rotating, Idle
  <2> QED BY <1>4, <2>2, <2>3, <2>5, <2>6, <2>7
<1>6. CASE /\ active' = req[a].new
           /\ req' = [req EXCEPT ![a].pc = "meta"]
           /\ rotations' = IF req[a].cur = None THEN rotations + 1 ELSE rotations
           /\ ver' = Watch(ver, inUse', active', previous', now')
  <2>1. /\ req'[a].pc = "meta" /\ req'[a].cur = req[a].cur /\ req'[a].new = req[a].new
        /\ req'[a].at = req[a].at
        /\ \A b \in Admins \ {a}: req'[b] = req[b]
    BY <1>6 DEF TypeOK, Requests
  <2>2. ~Valid(active')
    BY <1>1, <1>6 DEF FreshInv, Pending, Rotating, Valid, ValidIn
  <2>3. ver' \in Checks /\ CheckInv'
    BY <1>1, <1>6, <2>2, WatchedStep DEF TypeOK
  <2>4. TypeOK'
    <3>1. req' \in [Admins -> Requests] BY <1>3, <1>6 DEF TypeOK, Requests
    <3> QED BY <1>1, <1>3, <1>6, <2>3, <3>1 DEF TypeOK, hostVars
  <2>6. FreshInv'
    BY <1>1, <1>3, <1>6, <2>1 DEF FreshInv, Rotating, Pending, TypeOK, Secrets, Demoted, Requests
  <2>7. FirstInv'
    <3>1. CASE req[a].cur = None
      <4>1. rotations = 0 => previous = None /\ meta = None /\ active = None
        BY <1>1, <3>1 DEF FirstInv, Pending
      <4>2. \A s \in handed: s # None BY DEF TypeOK, Secrets
      <4>3. rotations = 0 /\ ~deleted => handed = {}
        BY <4>1, <4>2 DEF FirstInv, InSlots
      <4>4. rotations \in Nat /\ rotations' = rotations + 1 BY <1>6, <3>1 DEF TypeOK
      <4> QED
        BY <1>1, <1>6, <2>1, <3>1, <4>1, <4>3, <4>4 DEF FirstInv, Pending, InSlots
    <3>2. CASE req[a].cur # None
      BY <1>1, <1>3, <1>6, <2>1, <3>2 DEF FirstInv, Rotating, Pending, InSlots, TypeOK
    <3> QED BY <3>1, <3>2
  <2>8. AloneInv'
    BY <1>1, <1>6, <2>1 DEF AloneInv, Rotating
  <2> QED BY <1>4, <2>3, <2>4, <2>6, <2>7, <2>8
<1> QED BY <1>2, <1>5, <1>6

\* The answer hands out a secret that is in the active slot unless rotations crossed.
LEMMA StepWriteMeta ==
    ASSUME IInv, NEW a \in Admins, write_meta(a)
    PROVE  IInv'
<1> USE BoundsAssumption, NoneAssumption DEF IInv
<1>1. /\ UNCHANGED <<kind, now, active, previous, inUse, next, cron, ver, hostVars,
                     rotations, deleted, crossed, early, overtaken>>
      /\ req[a].pc = "meta" /\ req' = [req EXCEPT ![a] = Idle]
      /\ \/ /\ meta' = req[a].at
            /\ handed' = handed \cup {req[a].new}
            /\ dead' = IF Valid(req[a].new) THEN dead ELSE dead \cup {req[a].new}
         \/ UNCHANGED <<meta, handed, dead>>
  BY DEF write_meta
<1>2. req[a] \in Requests /\ req[a].new \in Secrets /\ req[a].at \in 0..MaxTime
  BY <1>1 DEF FreshInv, Rotating, TypeOK, Requests
<1>3. req'[a] = Idle /\ \A b \in Admins \ {a}: req'[b] = req[b]
  BY <1>1 DEF TypeOK
<1>4. TypeOK'
  <2>1. Idle \in Requests BY DEF Idle, Requests
  <2> QED BY <1>1, <1>2, <2>1 DEF TypeOK, hostVars
<1>5. CheckInv' BY <1>1, UnwatchedStep
<1>6. HostInv' /\ CronInv'
  BY <1>1 DEF hostVars, HostInv, CronInv
<1>7. FreshInv' BY <1>1, <1>3 DEF FreshInv, Rotating, Pending, Idle
<1>8. FirstInv'
  BY <1>1, <1>2, <1>3 DEF FirstInv, Pending, InSlots, Idle, TypeOK
<1>9. AloneInv'
  <2>1. ~crossed => Valid(req[a].new) BY <1>1 DEF AloneInv, Valid, ValidIn
  <2> QED BY <1>1, <1>3, <2>1 DEF AloneInv, Rotating, Idle
<1> QED BY <1>4, <1>5, <1>6, <1>7, <1>8, <1>9

-----------------------------------------------------------------------------
(* The finalisations.                                                      *)

\* A deleted previous slot: the requests in progress are not touched by it.
LEMMA DeletedSlot ==
    ASSUME IInv, previous' = None, deleted' = TRUE,
           ver' = Watch(ver, inUse', active', previous', now'),
           UNCHANGED <<kind, now, active, meta, inUse, handed, next, rotations, crossed,
                       overtaken, dead>>,
           req' \in [Admins -> Requests],
           \A a \in Admins: req'[a] = req[a] \/ req'[a] = Idle
    PROVE  ver' \in Checks /\ FreshInv' /\ CheckInv' /\ FirstInv' /\ AloneInv'
<1> USE BoundsAssumption, NoneAssumption DEF IInv
<1>1. ver' \in Checks /\ CheckInv' BY WatchedStep DEF TypeOK
<1>2. \A a \in Admins: req'[a].pc # "idle" => req'[a] = req[a] BY DEF Idle
<1>3. FreshInv' BY <1>2 DEF FreshInv, Rotating, Pending
<1>4. FirstInv' BY <1>2 DEF FirstInv, Pending, Idle, TypeOK
<1>5. AloneInv' BY <1>2 DEF AloneInv, Rotating
<1> QED BY <1>1, <1>3, <1>4, <1>5

\* The finalisation on request.
LEMMA StepFinalize ==
    ASSUME IInv, NEW a \in Admins, finalize(a) \/ delete_previous(a)
    PROVE  IInv'
<1> USE BoundsAssumption, NoneAssumption DEF IInv
<1>1. CASE finalize(a)
  <2>1. /\ UNCHANGED <<kind, now, vault, inUse, handed, next, cron, ver, hostVars, history>>
        /\ req[a].pc = "idle" /\ previous # None
        /\ req' = [req EXCEPT ![a] = [Idle EXCEPT !.pc = "finalize"]]
    BY <1>1 DEF finalize
  <2>2. req'[a].pc = "finalize" /\ \A b \in Admins \ {a}: req'[b] = req[b]
    BY <2>1 DEF TypeOK, Idle
  <2>3. TypeOK'
    <3>1. [Idle EXCEPT !.pc = "finalize"] \in Requests BY DEF Idle, Requests
    <3> QED BY <2>1, <3>1 DEF TypeOK, vault, hostVars, history
  <2>4. CheckInv' BY <2>1, UnwatchedStep DEF vault
  <2>5. CronInv' /\ HostInv'
    BY <2>1 DEF vault, hostVars, history, CronInv, HostInv
  <2>6. FreshInv' BY <2>1, <2>2 DEF FreshInv, Rotating, Pending, vault
  <2>7. FirstInv' BY <2>1, <2>2 DEF FirstInv, Pending, InSlots, vault, history
  <2>8. AloneInv' BY <2>1, <2>2 DEF AloneInv, Rotating, vault, history
  <2> QED BY <2>3, <2>4, <2>5, <2>6, <2>7, <2>8
<1>2. CASE delete_previous(a)
  <2>1. /\ UNCHANGED <<kind, now, active, meta, inUse, handed, next, cron, hostVars,
                       rotations, crossed, early, overtaken, dead>>
        /\ req[a].pc = "finalize" /\ req' = [req EXCEPT ![a] = Idle]
        /\ \/ previous' = None /\ deleted' = TRUE
              /\ ver' = Watch(ver, inUse', active', previous', now')
           \/ UNCHANGED <<previous, deleted, ver>>
    BY <1>2 DEF delete_previous
  <2>2. req'[a] = Idle /\ \A b \in Admins \ {a}: req'[b] = req[b]
    BY <2>1 DEF TypeOK
  <2>3. req' \in [Admins -> Requests]
    <3>1. Idle \in Requests BY DEF Idle, Requests
    <3> QED BY <2>1, <3>1 DEF TypeOK
  <2>4. CronInv' /\ HostInv'
    BY <2>1 DEF hostVars, CronInv, HostInv
  <2>5. CASE previous' = None /\ deleted' = TRUE
             /\ ver' = Watch(ver, inUse', active', previous', now')
    <3>1. ver' \in Checks /\ FreshInv' /\ CheckInv' /\ FirstInv' /\ AloneInv'
      BY <2>1, <2>2, <2>3, <2>5, DeletedSlot
    <3>2. TypeOK' BY <2>1, <2>3, <2>5, <3>1 DEF TypeOK, hostVars
    <3> QED BY <2>4, <3>1, <3>2
  <2>6. CASE UNCHANGED <<previous, deleted, ver>>
    <3>1. TypeOK' BY <2>1, <2>3, <2>6 DEF TypeOK, hostVars
    <3>2. CheckInv' BY <2>1, <2>6, UnwatchedStep
    <3>3. FreshInv' BY <2>1, <2>2, <2>6 DEF FreshInv, Rotating, Pending, Idle
    <3>4. FirstInv' BY <2>1, <2>2, <2>6 DEF FirstInv, Pending, InSlots, Idle
    <3>5. AloneInv' BY <2>1, <2>2, <2>6 DEF AloneInv, Rotating, Idle
    <3> QED BY <2>4, <3>1, <3>2, <3>3, <3>4, <3>5
  <2> QED BY <2>1, <2>5, <2>6
<1> QED BY <1>1, <1>2

\* The scheduled finalisation.
LEMMA StepCron ==
    ASSUME IInv,
           list_webhook_entries_with_overlap \/ cron_check \/ finalize_webhook_rotation
    PROVE  IInv'
<1> USE BoundsAssumption, NoneAssumption DEF IInv
<1>1. CASE list_webhook_entries_with_overlap \/ cron_check
  <2>1. /\ UNCHANGED <<kind, now, vault, inUse, handed, next, req, ver, hostVars, history>>
        /\ \/ cron' = NoCron
           \/ cron' = [pc |-> "check", until |-> previous.until] /\ previous # None
           \/ cron' = [cron EXCEPT !.pc = "delete"] /\ cron.pc = "check" /\ ~(cron.until > now)
    BY <1>1 DEF list_webhook_entries_with_overlap, cron_check
  <2>2. previous # None => previous.until \in 0..(MaxTime + Overlap) BY DEF TypeOK, Demoted
  <2>3. cron' \in [pc: {"idle", "check", "delete"}, until: 0..(MaxTime + Overlap)]
    BY <2>1, <2>2 DEF TypeOK, NoCron
  <2>4. TypeOK' BY <2>1, <2>3 DEF TypeOK, vault, hostVars, history
  <2>5. CheckInv' BY <2>1, UnwatchedStep DEF vault
  <2>6. CronInv' BY <2>1 DEF CronInv, NoCron, vault, history, TypeOK
  <2>7. HostInv' /\ FreshInv' /\ FirstInv' /\ AloneInv'
    BY <2>1 DEF vault, hostVars, history, HostInv, FreshInv, FirstInv,
                AloneInv, Rotating, Pending, InSlots
  <2> QED BY <2>4, <2>5, <2>6, <2>7
<1>2. CASE finalize_webhook_rotation
  <2>1. /\ UNCHANGED <<kind, now, active, meta, inUse, handed, next, req, hostVars,
                       rotations, crossed, overtaken, dead>>
        /\ cron.pc = "delete" /\ cron' = NoCron
        /\ \/ /\ previous' = None /\ deleted' = TRUE
              /\ early' = (early \/ (previous # None /\ now < previous.until))
              /\ ver' = Watch(ver, inUse', active', previous', now')
           \/ UNCHANGED <<previous, deleted, early, ver>>
    BY <1>2 DEF finalize_webhook_rotation
  <2>2. cron' \in [pc: {"idle", "check", "delete"}, until: 0..(MaxTime + Overlap)]
    BY <2>1 DEF NoCron
  <2>3. HostInv' BY <2>1 DEF hostVars, HostInv
  <2>4. CASE UNCHANGED <<previous, deleted, early, ver>>
    <3>1. TypeOK' BY <2>1, <2>2, <2>4 DEF TypeOK, hostVars
    <3>2. CheckInv' BY <2>1, <2>4, UnwatchedStep
    <3>3. CronInv' BY <2>1, <2>4 DEF CronInv, NoCron
    <3>4. FreshInv' /\ FirstInv' /\ AloneInv'
      BY <2>1, <2>4 DEF FreshInv, FirstInv, AloneInv, Rotating, Pending, InSlots
    <3> QED BY <2>3, <3>1, <3>2, <3>3, <3>4
  <2>5. CASE /\ previous' = None /\ deleted' = TRUE
             /\ early' = (early \/ (previous # None /\ now < previous.until))
             /\ ver' = Watch(ver, inUse', active', previous', now')
    <3>1. ver' \in Checks /\ FreshInv' /\ CheckInv' /\ FirstInv' /\ AloneInv'
      BY <2>1, <2>5, DeletedSlot DEF TypeOK
    <3>2. early' \in BOOLEAN BY <2>5 DEF TypeOK
    <3>3. TypeOK' BY <2>1, <2>2, <2>5, <3>1, <3>2 DEF TypeOK, hostVars
    <3>4. CronInv'
      <4>1. previous # None /\ ~overtaken => ~(now < previous.until)
        BY <2>1 DEF CronInv, TypeOK, Demoted
      <4>2. early' => early \/ (previous # None /\ now < previous.until)
        BY <2>5
      <4>3. early' => overtaken BY <4>1, <4>2 DEF CronInv
      <4> QED BY <2>1, <4>3 DEF CronInv, NoCron
    <3> QED BY <2>3, <3>1, <3>3, <3>4
  <2> QED BY <2>1, <2>4, <2>5
<1> QED BY <1>1, <1>2

-----------------------------------------------------------------------------
(* The verification, the other side and the clock.                         *)

\* The steps of a verification touch nothing but the verification.
LEMMA OnlyChecking ==
    ASSUME IInv, ver' \in Checks, CheckInv',
           UNCHANGED <<kind, now, vault, inUse, handed, next, req, cron, hostVars, history>>
    PROVE  IInv'
<1> USE DEF IInv
<1>1. TypeOK' BY DEF TypeOK, vault, hostVars, history
<1>2. HostInv' /\ CronInv' /\ FreshInv' /\ FirstInv' /\ AloneInv'
  BY DEF vault, hostVars, history, HostInv, CronInv, FreshInv, FirstInv,
         AloneInv, Rotating, Pending, InSlots
<1> QED BY <1>1, <1>2

\* The same of a verification that is about to begin.
LEMMA StartedCheck ==
    ASSUME NEW x, x \in Checks, inUse \in SUBSET Secrets,
           ver' = Watch(x, inUse, active, previous, now)
    PROVE  /\ ver' \in Checks
           /\ ver'.pc = x.pc /\ ver'.sig = x.sig /\ ver'.at = x.at
           /\ x.pc \in {"active", "previous"} =>
                 /\ ver'.kept \subseteq Fitting(inUse, x.sig, active, previous, now)
                 /\ Fitting(inUse, x.sig, active, previous, x.at) # {} => ver'.ever
<1>1. LET w == Watch(x, inUse, active, previous, now)
      IN /\ w \in Checks
         /\ w.pc = x.pc /\ w.sig = x.sig /\ w.at = x.at
         /\ x.pc \in {"active", "previous"} =>
               /\ w.kept \subseteq Fitting(inUse, x.sig, active, previous, now)
               /\ Fitting(inUse, x.sig, active, previous, x.at) # {} => w.ever
  BY WatchFacts, SMTT(60)
<1> QED BY <1>1, Zenon

\* A verification begins with the slots as they are.
LEMMA StepBegin ==
    ASSUME IInv, begin_verify
    PROVE  IInv'
<1> USE BoundsAssumption, NoneAssumption DEF IInv
<1>1. UNCHANGED <<kind, now, vault, inUse, handed, next, req, cron, hostVars, history>>
  BY DEF begin_verify
<1>2. PICK s \in inUse:
        ver' = Watch([pc |-> "active", sig |-> s, at |-> now, hit |-> FALSE, error |-> FALSE,
                      kept |-> Secrets, ever |-> FALSE], inUse, active, previous, now)
  BY DEF begin_verify
<1> DEFINE
       Fit == Fitting(inUse, s, active, previous, now)
       v == [pc |-> "active", sig |-> s, at |-> now, hit |-> FALSE, error |-> FALSE,
                  kept |-> Secrets, ever |-> FALSE]
<1>3. v \in Checks /\ v.pc = "active" /\ v.sig = s /\ v.at = now
  BY DEF TypeOK, Checks
<1>4. ver' = Watch(v, inUse, active, previous, now) /\ inUse \in SUBSET Secrets
  BY <1>2 DEF TypeOK
<1> HIDE DEF v
<1>5. /\ ver' \in Checks
      /\ ver'.pc = "active" /\ ver'.sig = s /\ ver'.at = now
      /\ ver'.kept \subseteq Fit /\ (Fit # {} => ver'.ever)
  <2>1. /\ ver' \in Checks
        /\ ver'.pc = v.pc /\ ver'.sig = v.sig /\ ver'.at = v.at
        /\ v.pc \in {"active", "previous"} =>
              /\ ver'.kept \subseteq Fitting(inUse, v.sig, active, previous, now)
              /\ Fitting(inUse, v.sig, active, previous, v.at) # {} => ver'.ever
    BY <1>3, <1>4, StartedCheck
  <2> QED BY <1>3, <2>1
<1> HIDE DEF Fit
<1>6. Good(now)' = Fit /\ Good(ver.at)' = Fit
  BY <1>1, <1>5 DEF Good, Fitting, ValidIn, vault, Fit
<1>7. now \in Nat BY DEF TypeOK
<1>8. CheckInv'
  BY <1>1, <1>5, <1>6, <1>7 DEF CheckInv, NoFalseRefusal, NoFalseAcceptance
<1> QED BY <1>1, <1>5, <1>8, OnlyChecking

\* The two reads and the verdict.
LEMMA StepRead ==
    ASSUME IInv, read_active \/ read_previous \/ end_verify
    PROVE  IInv'
<1> USE BoundsAssumption, NoneAssumption DEF IInv
<1>1. UNCHANGED <<kind, now, vault, inUse, handed, next, req, cron, hostVars, history>>
  BY DEF read_active, read_previous, end_verify
<1>2. ver \in Checks /\ ver.at \in Nat /\ now \in Nat BY DEF TypeOK, Checks
<1>6. CASE ver' = NoCheck
  <2>2. NoCheck \in Checks BY DEF NoCheck, Checks
  <2>3. CheckInv'
    BY <1>1, <1>2, <1>6 DEF CheckInv, NoCheck, NoFalseRefusal, NoFalseAcceptance
  <2> QED BY <1>1, <1>6, <2>2, <2>3, OnlyChecking
<1>3. CASE read_active /\ ver' # NoCheck
  <2> DEFINE hit == active # None /\ Matches(active)
  <2>1. ver.pc = "active" /\ ver' = [ver EXCEPT !.hit = hit, !.pc = "previous"]
    BY <1>3 DEF read_active
  <2>2. hit \in BOOLEAN BY DEF Matches
  <2>3. hit => Good(ver.at) # {}
    <3> SUFFICES ASSUME hit PROVE active \in Good(ver.at) OBVIOUS
    <3> QED BY DEF Matches, Good, Fitting, ValidIn
  <2>4. ~hit => active \notin ver.kept
    <3> SUFFICES ASSUME active \in ver.kept PROVE hit OBVIOUS
    <3>1. active \in Good(now) BY <2>1 DEF CheckInv
    <3>2. active # None BY <1>2 DEF Checks, Secrets
    <3> QED BY <3>1, <3>2 DEF Good, Fitting, Matches
  <2> HIDE DEF hit
  <2>5. /\ ver' \in Checks
        /\ ver'.pc = "previous" /\ ver'.sig = ver.sig /\ ver'.at = ver.at /\ ver'.hit = hit
        /\ ver'.kept = ver.kept /\ ver'.ever = ver.ever
    BY <1>2, <2>1, <2>2 DEF Checks
  <2>6. Good(now)' = Good(now) /\ Good(ver.at)' = Good(ver.at)
    BY <1>1, <2>5 DEF Good, Fitting, ValidIn, vault
  <2>7. CheckInv'
    BY <1>1, <2>1, <2>3, <2>4, <2>5, <2>6 DEF CheckInv, NoFalseRefusal, NoFalseAcceptance, vault
  <2> QED BY <1>1, <2>5, <2>7, OnlyChecking
<1>7. CASE kind = "ssh" /\ ver' = [ver EXCEPT !.pc = "refused", !.error = TRUE]
  <2>1. /\ ver' \in Checks /\ ver'.pc = "refused" /\ ver'.at = ver.at /\ ver'.error = TRUE
    BY <1>2, <1>7 DEF Checks
  <2>2. CheckInv'
    BY <1>1, <1>7, <2>1 DEF CheckInv, NoFalseRefusal, NoFalseAcceptance
  <2> QED BY <1>1, <2>1, <2>2, OnlyChecking
<1>4. CASE /\ read_previous /\ ver' # NoCheck
           /\ ~(kind = "ssh" /\ ver' = [ver EXCEPT !.pc = "refused", !.error = TRUE])
  <2> DEFINE hit == \/ ver.hit
                    \/ previous # None /\ Matches(previous.s)
                       /\ (kind = "ssh" \/ ver.at < previous.until)
  <2>1. ver.pc = "previous" /\ ver' = [ver EXCEPT !.pc = IF hit THEN "accepted" ELSE "refused"]
    BY <1>4 DEF read_previous
  <2>2. hit => ver.ever
    <3>1. CASE ver.hit BY <2>1, <3>1 DEF CheckInv
    <3>2. CASE /\ previous # None /\ Matches(previous.s)
               /\ kind = "ssh" \/ ver.at < previous.until
      <4>1. previous.s \in Good(ver.at)
        BY <3>2 DEF Good, Fitting, ValidIn, Matches
      <4> QED BY <2>1, <4>1 DEF CheckInv
    <3> QED BY <3>1, <3>2
  <2>3. ~hit => ver.kept = {}
    <3> SUFFICES ASSUME ~hit, NEW s \in ver.kept PROVE FALSE OBVIOUS
    <3>1. ~ver.hit /\ active # s /\ s \in Good(now) BY <2>1 DEF CheckInv
    <3>2. previous # None /\ previous.s = s /\ (kind = "ssh" \/ now < previous.until)
      BY <3>1 DEF Good, Fitting, ValidIn
    <3>3. previous.until \in Nat BY <3>2 DEF TypeOK, Demoted
    <3>4. kind = "ssh" \/ ver.at < previous.until BY <1>2, <3>2, <3>3 DEF CheckInv
    <3>5. Matches(previous.s) BY <3>1, <3>2 DEF Good, Fitting, Matches
    <3> QED BY <3>2, <3>4, <3>5
  <2> HIDE DEF hit
  <2>4. /\ ver' \in Checks
        /\ ver'.pc = (IF hit THEN "accepted" ELSE "refused")
        /\ ver'.at = ver.at /\ ver'.kept = ver.kept /\ ver'.ever = ver.ever
    BY <1>2, <2>1 DEF Checks
  <2>5. CheckInv'
    BY <1>1, <2>2, <2>3, <2>4 DEF CheckInv, NoFalseRefusal, NoFalseAcceptance
  <2> QED BY <1>1, <2>4, <2>5, OnlyChecking
<1>5. end_verify => ver' = NoCheck BY DEF end_verify
<1> QED BY <1>3, <1>4, <1>5, <1>6, <1>7

\* The other side may use any secret that was handed out.
LEMMA StepDeploy ==
    ASSUME IInv, NEW s \in Secrets, Deploy(s)
    PROVE  IInv'
<1> USE BoundsAssumption, NoneAssumption DEF IInv
<1>1. /\ UNCHANGED <<kind, now, vault, handed, next, req, cron, hostVars, history>>
      /\ s \in handed /\ inUse' = (IF kind = "ssh" THEN inUse \cup {s} ELSE {s})
      /\ ver' = Watch(ver, inUse', active', previous', now')
  BY DEF Deploy, vault
<1>2. inUse' \in SUBSET Secrets BY <1>1 DEF TypeOK
<1>3. ver' \in Checks /\ CheckInv' BY <1>1, <1>2, WatchedStep DEF TypeOK, vault
<1>4. TypeOK' BY <1>1, <1>2, <1>3 DEF TypeOK, vault, hostVars, history
<1>5. FirstInv' BY <1>1 DEF FirstInv, Pending, InSlots, vault, history
<1>6. HostInv' /\ CronInv' /\ FreshInv' /\ AloneInv'
  BY <1>1 DEF vault, hostVars, history, HostInv, CronInv, FreshInv,
              AloneInv, Rotating, Pending
<1> QED BY <1>3, <1>4, <1>5, <1>6

\* Time only ends windows.
LEMMA StepTick ==
    ASSUME IInv, Tick
    PROVE  IInv'
<1> USE BoundsAssumption, NoneAssumption DEF IInv
<1>1. /\ UNCHANGED <<kind, vault, inUse, handed, next, req, cron, hostVars, history>>
      /\ now < MaxTime /\ now' = now + 1
      /\ ver' = Watch(ver, inUse', active', previous', now')
  BY DEF Tick, vault
<1>2. ver' \in Checks /\ CheckInv' BY <1>1, WatchedStep DEF TypeOK, vault
<1>3. TypeOK' BY <1>1, <1>2 DEF TypeOK, vault, hostVars, history
<1>4. CronInv' BY <1>1 DEF CronInv, TypeOK, vault, history
<1>5. HostInv' /\ FreshInv' /\ FirstInv' /\ AloneInv'
  BY <1>1 DEF vault, hostVars, history, HostInv, FreshInv, FirstInv,
              AloneInv, Rotating, Pending, InSlots
<1> QED BY <1>2, <1>3, <1>4, <1>5

\* The host keys share nothing with the slots.
LEMMA StepHost ==
    ASSUME IInv, HostKeyChanges \/ \E accept \in BOOLEAN: rotate_known_hosts(accept)
    PROVE  IInv'
<1> USE BoundsAssumption, NoneAssumption DEF IInv
<1>1. UNCHANGED <<kind, now, vault, inUse, handed, next, req, cron, ver, history>>
  BY DEF HostKeyChanges, rotate_known_hosts
<1>2. CheckInv' BY <1>1, UnwatchedStep DEF vault
<1>3. CronInv' /\ FreshInv' /\ FirstInv' /\ AloneInv'
  BY <1>1 DEF vault, history, CronInv, FreshInv, FirstInv, AloneInv, Rotating, Pending, InSlots
<1>4. \/ /\ hostKeys' \in SUBSET Fingerprints /\ excused' = TRUE
         /\ UNCHANGED <<known, shown>>
      \/ \E first \in hostKeys:
            \/ /\ known' = first /\ excused' = (excused \/ shown = {})
               /\ UNCHANGED <<shown, hostKeys>>
            \/ shown' = shown \cup {first} /\ UNCHANGED <<known, excused, hostKeys>>
  BY DEF HostKeyChanges, rotate_known_hosts
<1>5. excused' \in BOOLEAN BY <1>4 DEF TypeOK
<1>6. TypeOK' BY <1>1, <1>4, <1>5 DEF TypeOK, vault, history
<1>7. HostInv'
  <2>1. CASE excused' = TRUE BY <2>1 DEF HostInv
  <2>2. ASSUME NEW first \in hostKeys, known' = first, excused' = (excused \/ shown = {}),
               UNCHANGED <<shown, hostKeys>>
        PROVE  HostInv'
    <3>1. ~excused' => ~excused /\ shown # {} BY <2>2
    <3> QED BY <2>2, <3>1 DEF HostInv
  <2>3. ASSUME NEW first \in hostKeys, shown' = shown \cup {first},
               UNCHANGED <<known, excused, hostKeys>>
        PROVE  HostInv'
    BY <2>3 DEF HostInv
  <2> QED BY <1>4, <2>1, <2>2, <2>3
<1> QED BY <1>2, <1>3, <1>6, <1>7

-----------------------------------------------------------------------------
(* What follows.                                                           *)

\* IInv is inductive: it holds in every state, whatever the number of
\* administrators, secrets and ticks of the clock.
THEOREM RotationInvariant == Spec => []IInv
<1> USE BoundsAssumption, NoneAssumption
<1>1. Init => IInv
  <2> SUFFICES ASSUME Init PROVE IInv OBVIOUS
  <2>1. req \in [Admins -> Requests] /\ \A a \in Admins: req[a] = Idle
    BY DEF Init, Idle, Requests
  <2>2. ver = NoCheck /\ NoCheck \in Checks BY DEF Init, NoCheck, Checks
  <2>3. TypeOK
    <3>1. 0 \in Secrets /\ next \in 1..(MaxSecret + 1) /\ now \in 0..MaxTime
      BY DEF Init, Secrets
    <3>2. cron \in [pc: {"idle", "check", "delete"}, until: 0..(MaxTime + Overlap)]
      BY DEF Init, NoCron
    <3> QED BY <2>1, <2>2, <3>1, <3>2 DEF Init, TypeOK
  <2>4. CheckInv BY <2>2 DEF Init, CheckInv, NoCheck, NoFalseRefusal, NoFalseAcceptance
  <2>5. FreshInv BY <2>1 DEF Init, FreshInv, Rotating, Pending, Idle
  <2>6. FirstInv BY <2>1 DEF Init, FirstInv, Pending, InSlots, Idle
  <2>7. AloneInv /\ CronInv /\ HostInv
    BY <2>1 DEF Init, AloneInv, CronInv, HostInv, Rotating, Idle, NoCron
  <2> QED BY <2>3, <2>4, <2>5, <2>6, <2>7 DEF IInv
<1>2. IInv /\ [Next]_vars => IInv'
  <2> SUFFICES ASSUME IInv, [Next]_vars PROVE IInv' OBVIOUS
  <2>1. CASE UNCHANGED vars
    <3>1. UNCHANGED <<kind, now, vault, inUse, handed, next, req, cron, ver, hostVars, history>>
      BY <2>1 DEF vars
    <3>2. CheckInv' BY <3>1, UnwatchedStep DEF IInv, vault
    <3>3. ver' \in Checks BY <3>1 DEF IInv, TypeOK
    <3> QED BY <3>1, <3>2, <3>3, OnlyChecking
  <2>2. CASE Next
    BY <2>2, StepRotate, StepWritePrevious, StepWriteActive, StepWriteMeta, StepFinalize,
       StepCron, StepBegin, StepRead, StepDeploy, StepTick, StepHost DEF Next
  <2> QED BY <2>1, <2>2
<1> QED BY <1>1, <1>2, PTL DEF Spec

\* A verification that reads the two slots while any number of rotations and
\* finalisations run neither refuses a secret that was valid throughout, unless
\* the connection with the previous key failed, nor accepts one that never was.
THEOREM VerdictsTrue == Spec => []VerdictsAreTrue
<1>1. IInv => VerdictsAreTrue BY DEF IInv, CheckInv, VerdictsAreTrue
<1> QED BY <1>1, RotationInvariant, PTL

\* For any overlap and any number of administrators, a secret in use stays valid
\* for its window, a secret handed out works, and only a tick that a rotation
\* overtook closes a window early.
THEOREM WindowsKept == Spec => []SecretsKeepTheirWindow
<1>1. IInv => SecretsKeepTheirWindow
  <2> SUFFICES ASSUME IInv PROVE SecretsKeepTheirWindow OBVIOUS
  <2> USE BoundsAssumption, NoneAssumption DEF IInv
  <2>1. NoGap
    <3> SUFFICES ASSUME NEW s \in inUse, ~Valid(s), ~(rotations > 1), ~deleted
                 PROVE  kind = "webhook" /\ previous # None /\ now >= previous.until
      BY DEF NoGap
    <3>1. InSlots(s) BY DEF FirstInv, TypeOK
    <3>2. previous # None /\ kind # "ssh" /\ ~(now < previous.until)
      BY <3>1 DEF InSlots, Valid, ValidIn
    <3>3. kind # "known_hosts" BY <3>2 DEF FirstInv
    <3>4. previous.until \in Nat /\ now \in Nat BY <3>2 DEF TypeOK, Demoted
    <3> QED BY <3>2, <3>3, <3>4 DEF TypeOK
  <2>2. HandedOutSecretWorks BY DEF AloneInv, HandedOutSecretWorks
  <2>3. FullWindow BY DEF FirstInv, FullWindow
  <2>4. CronClosesOnlyExpired
    BY DEF CronInv, CronClosesOnlyExpired
  <2>5. UnreviewedKeyIsExcused
    <3> SUFFICES ASSUME known # None, known \notin shown, ~excused PROVE hostKeys # {known}
      BY DEF UnreviewedKeyIsExcused, TypeOK
    <3>1. PICK k \in shown: k \in hostKeys /\ k # known
      BY DEF HostInv
    <3> QED BY <3>1
  <2> QED BY <2>1, <2>2, <2>3, <2>4, <2>5 DEF SecretsKeepTheirWindow
<1> QED BY <1>1, RotationInvariant, PTL

=============================================================================
