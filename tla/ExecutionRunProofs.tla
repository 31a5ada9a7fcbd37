-------------------------- MODULE ExecutionRunProofs --------------------------
(***************************************************************************)
(* Proofs about execution runs on the shared runner host, for any number   *)
(* of runs, any inputs, any retry bounds and any leftover workspaces.      *)
(*                                                                         *)
(* Neither property is inductive.  A verdict is decided in one activity    *)
(* and read in a later one, so the invariant says what each place of the   *)
(* coroutine has already established (RunOK).  Who may own which container *)
(* while runs have not overlapped is ContInv, where the credentials of a   *)
(* run may be is HelperInv, and TickInv relates the scheduler's stale      *)
(* listing and its running estimate to the disk they were taken from.      *)
(***************************************************************************)
EXTENDS ExecutionRun, FiniteSetTheorems, TLAPS

Before == {"resolve", "probe", "quota", "vault", "daemon", "build"}
Starting == {"ssh", "docker", "legacy"}
Waiting == {"ssh_wait", "docker_wait", "docker_refused", "legacy_wait"}
Ran == {"inject", "push", "uncred", "upload", "legacy_cleanup"}

\* What holds of one run, by the place its coroutine is at: no verdict before
\* the command was started, at most one start per attempt, a start beyond the
\* first only after a fault, and a verdict that the exit code and the uploads bear out.
RunOK(r) ==
    /\ pc[r] \in Before \cup Starting \cup Waiting \cup (Ran \ {"uncred"}) => status[r] = "none"
    /\ pc[r] = "uncred" => status[r] \in {"none", "error"}
    /\ pc[r] \in Before \cup Starting \cup Waiting => exit[r] = "none"
    /\ pc[r] \in Before => execs[r] = 0
    /\ pc[r] = "probe" => tries[r] <= MaxRetries
    /\ pc[r] = "resolve" => tries[r] = 0
    /\ pc[r] \in {"quota", "daemon", "build"} => tries[r] = 1
    /\ pc[r] \in Starting \cup Waiting =>
          1 <= tries[r] /\ tries[r] <= MaxAttempts
    /\ pc[r] \in Starting \cup {"docker_refused"} =>
          /\ execs[r] < tries[r]
          /\ execs[r] > 0 => faults[r] \cap {"lost", "upload"} # {}
    /\ pc[r] = "docker_refused" => "no_container" \in faults[r]
    /\ pc[r] \in Waiting \ {"docker_refused"} => 0 < execs[r] /\ execs[r] <= tries[r]
    /\ pc[r] \in Ran => execs[r] > 0
    /\ pc[r] \in Ran \cup {"vault", "legacy", "legacy_wait"} => inp[r].kind = "legacy"
    /\ pc[r] \in {"daemon", "build", "docker", "docker_wait", "docker_refused"} => inp[r].docker
    /\ pc[r] = "legacy_cleanup" => stored[r]
    /\ pc[r] = "docker_cleanup" => status[r] \in {"passed", "failed", "error"}
    /\ pc[r] = "docker_cleanup" /\ status[r] # "passed" => exit[r] # "zero"
    /\ pc[r] = "cleanup" /\ status[r] # "passed" => exit[r] # "zero" \/ ~stored[r]
    /\ r \in cleaned => pc[r] = "done"
    /\ (r \in cleaned /\ inp[r].policy # "always" /\ status[r] # "passed")
            => exit[r] = "zero" /\ ~stored[r]
    /\ status[r] = "passed" =>
            exit[r] = "zero" /\ execs[r] > 0 /\ (inp[r].docker \/ stored[r])
    /\ execs[r] <= MaxAttempts
    /\ execs[r] > 1 => faults[r] \cap {"lost", "upload"} # {}
RunInv == \A r \in Runs: RunOK(r)

\* While no two docker runs overlapped, docker ps -lq answers the container of
\* the run that asks, if it made one, and a run without faults owns none it will not remove.
ContInv ==
    /\ ~overlap => \A q, r \in Runs: pc[q] = "docker_wait" /\ pc[r] = "docker_wait" => q = r
    /\ ~overlap => \A r \in Runs: pc[r] = "docker_wait" => last # None /\ last[1] = r
    /\ ~overlap => \A r \in Runs: cid[r] # None => cid[r][1] = r \/ "no_container" \in faults[r]
    /\ \A r \in foreign: overlap \/ "no_container" \in faults[r]
    /\ \A r \in Runs: (faults[r] = {} /\ ~overlap /\ inp[r].policy = "always") =>
          \A c \in conts: c[1] = r =>
             \/ pc[r] = "docker_wait" /\ c = last
             \/ pc[r] = "docker_cleanup" /\ c = cid[r]

\* The global helper holds the credentials of a run only while its push is
\* under way, unless their clean-up failed.
HelperInv ==
    \A r \in Runs: helper = r => pc[r] \in {"push", "uncred"} \/ "cred_left" \in faults[r]

\* A listing that begins with the leftovers of earlier runs.
Prefixed(s) ==
    /\ Len(OldDirs) <= Len(s)
    /\ \A k \in 1..Len(OldDirs): s[k] = OldDirs[k]

\* The tick works on an old listing and an estimate of the usage: what it has
\* pruned is paid for by the estimate, and every entry it passed was dealt with.
TickInv ==
    /\ tick.pc \in {"idle", "list"} => Prefixed(dirs) /\ tick.pruned = {} /\ tick.i = 1
    /\ tick.pc = "idle" => tick.used = 0 /\ tick.probed = 0
    /\ tick.pc \in {"list", "prune"} => tick.probed >= EvictAt
    /\ tick.pc = "list" => tick.used = tick.probed
    /\ tick.pc = "prune" =>
          /\ Prefixed(tick.list) /\ tick.i >= 1
          /\ \A k \in 1..Len(tick.list): k < tick.i => tick.list[k] \in tick.pruned \cup tick.failed
    /\ IsFiniteSet(tick.pruned)
    /\ tick.used + Cardinality(tick.pruned) <= tick.probed
    /\ tick.pruned # {} => tick.probed >= EvictAt /\ tick.used + 1 >= EvictAt
    /\ LiveWorkspaceIsLastResort

IInv ==
    /\ TypeOK
    /\ RunInv
    /\ ContInv
    /\ HelperInv
    /\ TickInv

-----------------------------------------------------------------------------
\* What a step of run r leaves alone: everything that belongs to another run.
Alone(r) ==
    /\ inp' = inp
    /\ \A q \in Runs: q # r =>
          /\ pc'[q] = pc[q] /\ tries'[q] = tries[q] /\ exit'[q] = exit[q]
          /\ status'[q] = status[q] /\ stored'[q] = stored[q] /\ faults'[q] = faults[q]
          /\ execs'[q] = execs[q] /\ (q \in cleaned' <=> q \in cleaned)

\* A step of one run keeps what holds of the others.
LEMMA OthersKept ==
    ASSUME RunInv, NEW r \in Runs, Alone(r), RunOK(r)'
    PROVE  RunInv'
<1> SUFFICES ASSUME NEW q \in Runs, q # r PROVE RunOK(q)'
  BY DEF RunInv
<1>1. RunOK(q)
  BY DEF RunInv
<1> QED
  BY <1>1 DEF Alone, RunOK

\* rm -rf of a workspace leaves a listing, and leaves the leftovers in front
\* when the workspace is a run's.
LEMMA WithoutKeeps ==
    ASSUME NEW S, NEW s \in Seq(S), NEW d
    PROVE  /\ Without(s, d) \in Seq(S)
           /\ d \notin OldNames /\ Prefixed(s) => Prefixed(Without(s, d))
<1>1. CASE ~\E i \in 1..Len(s): s[i] = d
  BY <1>1 DEF Without
<1>2. CASE \E i \in 1..Len(s): s[i] = d
  <2> DEFINE at == CHOOSE i \in 1..Len(s): s[i] = d
             w == [i \in 1..(Len(s) - 1) |-> IF i < at THEN s[i] ELSE s[i + 1]]
  <2>1. at \in 1..Len(s) /\ s[at] = d
    BY <1>2
  <2>2. Without(s, d) = w
    BY <1>2 DEF Without
  <2> HIDE DEF at
  <2>3. w \in Seq(S) /\ Len(w) = Len(s) - 1
    <3>1. \A i \in 1..(Len(s) - 1): (IF i < at THEN s[i] ELSE s[i + 1]) \in S
      BY <2>1
    <3>2. Len(s) - 1 \in Nat
      BY <2>1
    <3> QED
      BY <3>1, <3>2
  <2>4. ASSUME d \notin OldNames, Prefixed(s) PROVE Prefixed(w)
    <3>1. OldDirs \in Seq(OldNames)
      BY NamesAssumption
    <3>2. \A k \in 1..Len(OldDirs): s[k] = OldDirs[k] /\ OldDirs[k] \in OldNames
      BY <2>4, <3>1 DEF Prefixed
    <3>3. at > Len(OldDirs)
      BY <2>1, <2>4, <3>1, <3>2
    <3>4. Len(OldDirs) \in Nat
      BY <3>1
    <3>5. \A k \in 1..Len(OldDirs): w[k] = s[k]
      BY <2>1, <3>3, <3>4
    <3> QED
      BY <2>1, <2>3, <3>2, <3>3, <3>4, <3>5 DEF Prefixed
  <2> QED
    BY <2>2, <2>3, <2>4
<1> QED
  BY <1>1, <1>2

\* A new workspace is listed behind the leftovers.
LEMMA AppendKeeps ==
    ASSUME NEW S, NEW s \in Seq(S), NEW d \in S, Prefixed(s)
    PROVE  Prefixed(Append(s, d))
<1>1. OldDirs \in Seq(OldNames)
  BY NamesAssumption
<1> QED
  BY <1>1 DEF Prefixed

\* What a run does to the disk keeps the leftovers in front of the listing.
LEMMA DiskStep ==
    ASSUME TypeOK, TickInv, tick' = tick, NEW r \in Runs,
           dirs' \in {dirs, Append(dirs, r), Without(dirs, r)}
    PROVE  TickInv' /\ dirs' \in Seq(OldNames \cup Runs)
<1>1. dirs \in Seq(OldNames \cup Runs) /\ r \in OldNames \cup Runs /\ r \notin OldNames
  BY NamesAssumption DEF TypeOK
<1>2. Prefixed(dirs) => Prefixed(dirs')
  BY <1>1, WithoutKeeps, AppendKeeps
<1>3. dirs' \in Seq(OldNames \cup Runs)
  <2>1. Without(dirs, r) \in Seq(OldNames \cup Runs)
    BY <1>1, WithoutKeeps
  <2>2. Append(dirs, r) \in Seq(OldNames \cup Runs)
    BY <1>1
  <2> QED
    BY <1>1, <2>1, <2>2
<1>4. LiveWorkspaceIsLastResort'
  BY DEF TickInv, LiveWorkspaceIsLastResort
<1>5. tick.pc \in {"idle", "list"} => Prefixed(dirs)' /\ tick.pruned = {} /\ tick.i = 1
  BY <1>2 DEF TickInv, Prefixed
<1> QED
  BY <1>3, <1>4, <1>5 DEF TickInv, Prefixed

\* A step that starts no container and removes none, and moves no run out of
\* the docker activities without a fault.
LEMMA ContQuiet ==
    ASSUME ContInv, UNCHANGED <<inp, conts, last, cid, overlap, foreign>>,
           TypeOK,
           \A q \in Runs: faults[q] \subseteq faults'[q],
           \A q \in Runs: \/ pc'[q] = pc[q]
                          \/ /\ pc'[q] # "docker_wait"
                             /\ pc[q] \notin {"docker_wait", "docker_cleanup"} \/ faults'[q] # {}
    PROVE  ContInv'
<1>1. foreign \subseteq Runs
  BY DEF TypeOK
<1>2. \A q \in Runs: faults'[q] = {} => faults[q] = {}
  OBVIOUS
<1>3. \A q \in foreign': overlap' \/ "no_container" \in faults'[q]
  BY <1>1 DEF ContInv
<1>4. ~overlap' => \A q \in Runs: cid'[q] # None => cid'[q][1] = q \/ "no_container" \in faults'[q]
  BY DEF ContInv
<1> QED
  BY <1>2, <1>3, <1>4 DEF ContInv

\* A step that configures no credentials and ends no push.
LEMMA HelperQuiet ==
    ASSUME HelperInv, helper' \in {helper, None},
           \A q \in Runs: "cred_left" \in faults[q] => "cred_left" \in faults'[q],
           \A q \in Runs: pc[q] \in {"push", "uncred"} =>
                             pc'[q] \in {"push", "uncred"} \/ helper' # q
    PROVE  HelperInv'
BY NamesAssumption DEF HelperInv

-----------------------------------------------------------------------------
\* Counting a start, and counting an attempt below the maximum.
LEMMA CountUp ==
    ASSUME NEW f \in [Runs -> Nat], NEW g, NEW r \in Runs,
           g = f \/ g = [f EXCEPT ![r] = f[r] + 1]
    PROVE  g \in [Runs -> Nat]
OBVIOUS

\* A counter of attempts that is below its bound can be raised by one.
LEMMA TryAgain ==
    ASSUME NEW f \in [Runs -> 0..(MaxRetries + MaxAttempts)], NEW g, NEW r \in Runs,
           g = f \/ (f[r] < MaxAttempts /\ g = [f EXCEPT ![r] = f[r] + 1])
    PROVE  g \in [Runs -> 0..(MaxRetries + MaxAttempts)]
<1>1. MaxRetries \in Nat /\ MaxAttempts \in Nat
  BY BoundsAssumption
<1>2. f[r] \in Nat /\ (f[r] < MaxAttempts => f[r] + 1 \in 0..(MaxRetries + MaxAttempts))
  BY <1>1
<1> QED
  BY <1>2

\* A fault added to those of a run is a fault of that run.
LEMMA FaultNoted ==
    ASSUME NEW f \in [Runs -> SUBSET Faults], NEW g, NEW r \in Runs, NEW e \in Faults,
           g = f \/ g = [f EXCEPT ![r] = f[r] \cup {e}]
    PROVE  g \in [Runs -> SUBSET Faults]
OBVIOUS

\* An attempt that raised or was lost, whichever path the run is on: the next
\* attempt is due and has its fault, or the workflow has raised.
LEMMA AttemptFails ==
    ASSUME IInv, NEW r \in Runs,
           UNCHANGED <<inp, target, exit, stored, cid, dirs, conts, last, helper, tick, execs,
                       cleaned, foreign, overlap>>,
           NEW start, NEW raised,
           \/ pc[r] = "ssh_wait" /\ start = "ssh" /\ raised = "done"
           \/ /\ pc[r] \in {"docker_wait", "docker_refused"}
              /\ start = "docker" /\ raised = "docker_cleanup"
           \/ pc[r] = "legacy_wait" /\ start = "legacy" /\ raised = "done",
           RetryOrRaise(r, start, raised),
           NEW f \in {"lost", "upload"}, Fault(r, f)
    PROVE  IInv'
<1> USE DEF IInv
<1>1. /\ faults' = [faults EXCEPT ![r] = faults[r] \cup {f}]
      /\ faults'[r] = faults[r] \cup {f}
      /\ \A q \in Runs: q # r => faults'[q] = faults[q]
  BY DEF Fault, TypeOK
<1>2. /\ pc' \in [Runs -> Labels]
      /\ pc'[r] \in {start, raised}
      /\ \A q \in Runs: q # r => pc'[q] = pc[q] /\ status'[q] = status[q] /\ tries'[q] = tries[q]
      /\ pc'[r] = start => /\ tries[r] < MaxAttempts /\ tries'[r] = tries[r] + 1
                           /\ status'[r] = status[r]
      /\ pc'[r] = raised => status'[r] = "error"
  <2>1. CASE tries[r] < MaxAttempts
    <3>1. /\ pc' = [pc EXCEPT ![r] = start]
          /\ tries' = [tries EXCEPT ![r] = tries[r] + 1]
          /\ status' = status
      BY <2>1 DEF RetryOrRaise, Goto
    <3> QED
      BY <2>1, <3>1 DEF TypeOK, Labels
  <2>2. CASE ~(tries[r] < MaxAttempts)
    <3>1. /\ pc' = [pc EXCEPT ![r] = raised]
          /\ status' = [status EXCEPT ![r] = "error"]
          /\ tries' = tries
      BY <2>2 DEF RetryOrRaise, Goto, Report
    <3> QED
      BY <2>2, <3>1 DEF TypeOK, Labels
  <2> QED
    BY <2>1, <2>2
<1>3. TypeOK'
  <2>1. tries' \in [Runs -> 0..(MaxRetries + MaxAttempts)]
    <3>1. \/ tries' = tries
          \/ tries[r] < MaxAttempts /\ tries' = [tries EXCEPT ![r] = tries[r] + 1]
      BY DEF RetryOrRaise
    <3>2. tries \in [Runs -> 0..(MaxRetries + MaxAttempts)]
      BY DEF TypeOK
    <3> QED
      BY <3>1, <3>2, TryAgain
  <2>2. status' \in [Runs -> {"none", "passed", "failed", "timeout", "unreachable", "quota",
                              "error"}]
    BY DEF RetryOrRaise, Goto, Report, TypeOK
  <2>3. faults' \in [Runs -> SUBSET Faults]
    BY <1>1 DEF TypeOK, Faults
  <2> QED
    BY <1>2, <2>1, <2>2, <2>3 DEF TypeOK
<1>4. RunOK(r)'
  <2>1. faults'[r] \cap {"lost", "upload"} # {}
    BY <1>1
  <2> QED
    BY <1>2, <2>1, BoundsAssumption DEF RunInv, RunOK, Before, Starting, Waiting, Ran, TypeOK
<1>5. RunInv'
  BY <1>1, <1>2, <1>4, OthersKept DEF Alone
<1>6. ContInv'
  BY <1>1, <1>2, ContQuiet
<1>7. HelperInv'
  BY <1>1, <1>2, HelperQuiet
<1>8. TickInv'
  BY DiskStep
<1> QED
  BY <1>3, <1>5, <1>6, <1>7, <1>8

\* resolve_runner: no verdict but an error.
LEMMA StepResolve ==
    ASSUME IInv, NEW r \in Runs, resolve_runner(r)
    PROVE  IInv'
<1> USE DEF IInv
<1>1. /\ UNCHANGED <<inp, tries, exit, stored, cid, dirs, conts, last, helper, tick,
                     faults, execs, cleaned, foreign, overlap>>
      /\ pc[r] = "resolve" /\ pc'[r] \in {"probe", "done"}
      /\ \A q \in Runs: q # r => pc'[q] = pc[q] /\ status'[q] = status[q]
      /\ pc'[r] = "probe" => status'[r] = status[r]
      /\ pc'[r] = "done" => status'[r] = "error"
  BY DEF resolve_runner, Goto, End, Report, hostVars, history, TypeOK
<1>2. TypeOK'
  BY DEF resolve_runner, Goto, End, Report, hostVars, history, TypeOK, Labels
<1>3. RunInv'
  <2>1. RunOK(r)'
    BY <1>1, BoundsAssumption DEF RunInv, RunOK, Before, Starting, Waiting, Ran, TypeOK
  <2> QED
    BY <1>1, <2>1, OthersKept DEF Alone
<1>4. ContInv'
  BY <1>1, ContQuiet
<1>5. HelperInv'
  BY <1>1, HelperQuiet
<1>6. TickInv'
  BY <1>1, DiskStep
<1> QED
  BY <1>2, <1>3, <1>4, <1>5, <1>6

\* _wait_for_healthy_runner: at most MaxRetries waits, then a verdict of its own.
LEMMA StepWait ==
    ASSUME IInv, NEW r \in Runs, wait_for_healthy_runner(r)
    PROVE  IInv'
<1> USE DEF IInv
<1>1. /\ UNCHANGED <<inp, exit, stored, cid, dirs, conts, last, helper, tick,
                     faults, execs, cleaned, foreign, overlap>>
      /\ pc[r] = "probe" /\ pc'[r] \in {"probe", "quota", "done"}
      /\ \A q \in Runs: q # r => pc'[q] = pc[q] /\ status'[q] = status[q] /\ tries'[q] = tries[q]
      /\ pc'[r] = "done" => status'[r] = "unreachable"
      /\ pc'[r] # "done" => status'[r] = status[r]
      /\ pc'[r] = "quota" => tries'[r] = 1
      /\ pc'[r] = "probe" => tries[r] < MaxRetries /\ tries'[r] = tries[r] + 1
  BY BoundsAssumption
     DEF wait_for_healthy_runner, Goto, End, Report, hostVars, history, TypeOK
<1>2. TypeOK'
  <2>1. tries[r] \in Nat /\ tries[r] <= MaxRetries + MaxAttempts
    BY BoundsAssumption DEF TypeOK
  <2>2. tries' \in [Runs -> 0..(MaxRetries + MaxAttempts)]
    BY <2>1, BoundsAssumption DEF wait_for_healthy_runner, Goto, End, Report, TypeOK
  <2> QED
    BY <2>2 DEF wait_for_healthy_runner, Goto, End, Report, hostVars, history, TypeOK, Labels
<1>3. RunInv'
  <2>1. RunOK(r)'
    BY <1>1, BoundsAssumption DEF RunInv, RunOK, Before, Starting, Waiting, Ran, TypeOK
  <2> QED
    BY <1>1, <2>1, OthersKept DEF Alone
<1>4. ContInv'
  BY <1>1, ContQuiet
<1>5. HelperInv'
  BY <1>1, HelperQuiet
<1>6. TickInv'
  BY <1>1, DiskStep
<1> QED
  BY <1>2, <1>3, <1>4, <1>5, <1>6

\* _enforce_disk_quota: a verdict of its own, or on to the first attempt.
LEMMA StepQuota ==
    ASSUME IInv, NEW r \in Runs, enforce_disk_quota(r)
    PROVE  IInv'
<1> USE DEF IInv
<1>1. /\ UNCHANGED <<inp, tries, exit, stored, cid, dirs, conts, last, helper, tick,
                     faults, execs, cleaned, foreign, overlap>>
      /\ pc[r] = "quota" /\ pc'[r] \in {"done", "legacy", "daemon", "ssh"}
      /\ \A q \in Runs: q # r => pc'[q] = pc[q] /\ status'[q] = status[q]
      /\ pc'[r] = "done" => status'[r] = "quota"
      /\ pc'[r] # "done" => status'[r] = status[r]
      /\ pc'[r] = "legacy" => inp[r].kind = "legacy"
      /\ pc'[r] = "daemon" => inp[r].docker
  BY DEF enforce_disk_quota, Goto, End, Report, hostVars, history, TypeOK
<1>2. TypeOK'
  BY DEF enforce_disk_quota, Goto, End, Report, hostVars, history, TypeOK, Labels
<1>3. RunInv'
  <2>1. RunOK(r)'
    BY <1>1, BoundsAssumption DEF RunInv, RunOK, Before, Starting, Waiting, Ran, TypeOK
  <2> QED
    BY <1>1, <2>1, OthersKept DEF Alone
<1>4. ContInv'
  BY <1>1, ContQuiet
<1>5. HelperInv'
  BY <1>1, HelperQuiet
<1>6. TickInv'
  BY <1>1, DiskStep
<1> QED
  BY <1>2, <1>3, <1>4, <1>5, <1>6

\* ssh_run_test, first half: without a credential the run has failed and has
\* no exit code, with a bad environment the attempt fails unstarted, otherwise
\* this is the one start of the attempt.
LEMMA StepSsh ==
    ASSUME IInv, NEW r \in Runs, ssh_run_test(r)
    PROVE  IInv'
<1> USE DEF IInv
<1>1. /\ UNCHANGED <<inp, target, exit, stored, cid, conts, last, helper, tick,
                     faults, cleaned, foreign, overlap>>
      /\ pc[r] = "ssh"
      /\ \/ /\ pc' = [pc EXCEPT ![r] = "cleanup"] /\ status' = [status EXCEPT ![r] = "failed"]
            /\ UNCHANGED <<tries, dirs, execs>>
         \/ /\ pc' = [pc EXCEPT ![r] = "ssh"] /\ tries[r] < MaxAttempts
            /\ tries' = [tries EXCEPT ![r] = tries[r] + 1]
            /\ UNCHANGED <<status, dirs, execs>>
         \/ /\ pc' = [pc EXCEPT ![r] = "done"] /\ status' = [status EXCEPT ![r] = "error"]
            /\ UNCHANGED <<tries, dirs, execs>>
         \/ /\ pc' = [pc EXCEPT ![r] = "ssh_wait"] /\ execs' = [execs EXCEPT ![r] = execs[r] + 1]
            /\ dirs' \in {dirs, Append(dirs, r)}
            /\ UNCHANGED <<tries, status>>
  BY DEF ssh_run_test, vault_answers, RetryOrRaise, Goto, Report, Start
<1>a. /\ dirs' \in {dirs, Append(dirs, r), Without(dirs, r)}
      /\ pc'[r] \in {"cleanup", "ssh", "done", "ssh_wait"}
      /\ \A q \in Runs: q # r => /\ pc'[q] = pc[q] /\ status'[q] = status[q]
                                 /\ execs'[q] = execs[q] /\ tries'[q] = tries[q]
      /\ pc'[r] = "cleanup" => status'[r] = "failed" /\ execs'[r] = execs[r]
      /\ pc'[r] = "done" => status'[r] = "error" /\ execs'[r] = execs[r]
      /\ pc'[r] = "ssh" => /\ status'[r] = status[r] /\ execs'[r] = execs[r]
                           /\ tries[r] < MaxAttempts /\ tries'[r] = tries[r] + 1
      /\ pc'[r] = "ssh_wait" => /\ status'[r] = status[r] /\ execs'[r] = execs[r] + 1
                                /\ tries'[r] = tries[r]
  BY <1>1 DEF TypeOK
<1>2. TypeOK'
  <2>1. dirs' \in Seq(OldNames \cup Runs)
    BY <1>1, <1>a, DiskStep
  <2>2. execs' \in [Runs -> Nat]
    <3>1. execs' = execs \/ execs' = [execs EXCEPT ![r] = execs[r] + 1]
      BY <1>1
    <3>2. execs \in [Runs -> Nat]
      BY DEF TypeOK
    <3> QED
      BY <3>1, <3>2, CountUp
  <2>3. tries' \in [Runs -> 0..(MaxRetries + MaxAttempts)]
    <3>1. \/ tries' = tries
          \/ tries[r] < MaxAttempts /\ tries' = [tries EXCEPT ![r] = tries[r] + 1]
      BY <1>1
    <3>2. tries \in [Runs -> 0..(MaxRetries + MaxAttempts)]
      BY DEF TypeOK
    <3> QED
      BY <3>1, <3>2, TryAgain
  <2>4. pc' \in [Runs -> Labels]
    <3>1. pc \in [Runs -> Labels] /\ {"cleanup", "ssh", "done", "ssh_wait"} \subseteq Labels
      BY DEF TypeOK, Labels
    <3> QED
      BY <1>1, <3>1
  <2>5. status' \in [Runs -> {"none", "passed", "failed", "timeout", "unreachable", "quota",
                              "error"}]
    BY <1>1 DEF TypeOK
  <2> QED
    BY <1>1, <2>1, <2>2, <2>3, <2>4, <2>5 DEF TypeOK
<1>3. RunInv'
  <2>1. RunOK(r)'
    BY <1>1, <1>a, BoundsAssumption DEF RunInv, RunOK, Before, Starting, Waiting, Ran, TypeOK
  <2> QED
    BY <1>1, <1>a, <2>1, OthersKept DEF Alone
<1>4. ContInv'
  BY <1>1, <1>a, ContQuiet
<1>5. HelperInv'
  BY <1>1, <1>a, HelperQuiet
<1>6. TickInv'
  BY <1>1, <1>a, DiskStep
<1> QED
  BY <1>2, <1>3, <1>4, <1>5, <1>6

\* ssh_run_test, second half: an upload that raises is a fault, otherwise the
\* verdict is what the session and the uploads say.
LEMMA StepSshResult ==
    ASSUME IInv, NEW r \in Runs, ssh_run_test_result(r)
    PROVE  IInv'
<1> USE DEF IInv
<1>1. PICK how \in ssh_session_answers, up \in upload_answers:
        IF up = "raised"
        THEN /\ RetryOrRaise(r, "ssh", "done")
             /\ Fault(r, "upload")
             /\ UNCHANGED <<exit, stored>>
        ELSE /\ exit' = [exit EXCEPT ![r] = IF how \in {"zero", "nonzero"} THEN how ELSE "none"]
             /\ stored' = [stored EXCEPT ![r] = (up = "stored")]
             /\ Report(r, ssh_status(how, up))
             /\ Goto(r, "cleanup")
             /\ UNCHANGED <<tries, faults>>
  BY DEF ssh_run_test_result
<1>2. /\ UNCHANGED <<inp, target, cid, dirs, conts, last, helper, tick, execs, cleaned, foreign,
                     overlap>>
      /\ pc[r] = "ssh_wait"
  BY DEF ssh_run_test_result
<1>a. CASE up = "raised"
  <2>1. UNCHANGED <<exit, stored>> /\ RetryOrRaise(r, "ssh", "done") /\ Fault(r, "upload")
    BY <1>1, <1>a
  <2> QED
    BY <1>2, <2>1, AttemptFails
<1>b. CASE up # "raised"
  <2>0. UNCHANGED <<tries, faults>>
    BY <1>1, <1>b
  <2>1. /\ exit' = [exit EXCEPT ![r] = IF how \in {"zero", "nonzero"} THEN how ELSE "none"]
        /\ stored' = [stored EXCEPT ![r] = (up = "stored")]
        /\ status' = [status EXCEPT ![r] = ssh_status(how, up)]
        /\ pc' = [pc EXCEPT ![r] = "cleanup"]
    BY <1>1, <1>b DEF Report, Goto
  <2>2. /\ ssh_status(how, up) \in {"passed", "timeout", "failed"}
        /\ ssh_status(how, up) = "passed" <=> how = "zero" /\ up = "stored"
    BY DEF ssh_status
  <2>3. /\ pc'[r] = "cleanup" /\ stored'[r] = (up = "stored") /\ status'[r] = ssh_status(how, up)
        /\ exit'[r] = IF how \in {"zero", "nonzero"} THEN how ELSE "none"
        /\ \A q \in Runs: q # r => /\ pc'[q] = pc[q] /\ status'[q] = status[q]
                                   /\ exit'[q] = exit[q] /\ stored'[q] = stored[q]
    BY <2>1 DEF TypeOK
  <2>4. TypeOK'
    BY <1>2, <2>0, <2>1, <2>2 DEF TypeOK, Labels
  <2>a. /\ status'[r] = "passed" => exit'[r] = "zero" /\ stored'[r]
        /\ status'[r] # "passed" => exit'[r] # "zero" \/ ~stored'[r]
    BY <2>2, <2>3
  <2>b. UNCHANGED <<tries[r], execs[r], faults[r], inp[r]>> /\ cleaned' = cleaned
    BY <1>2, <2>0
  <2>c. pc'[r] = "cleanup"
    BY <2>3
  <2>5. RunOK(r)'
    BY <1>2, <2>a, <2>b, <2>c, BoundsAssumption
       DEF RunInv, RunOK, Before, Starting, Waiting, Ran, TypeOK
  <2>6. RunInv'
    BY <1>2, <2>0, <2>3, <2>5, OthersKept DEF Alone
  <2>7. ContInv'
    BY <1>2, <2>0, <2>3, ContQuiet
  <2>8. HelperInv'
    BY <1>2, <2>0, <2>3, HelperQuiet
  <2>9. TickInv'
    BY <1>2, DiskStep
  <2> QED
    BY <2>4, <2>6, <2>7, <2>8, <2>9
<1> QED
  BY <1>a, <1>b

\* A lost worker fails the attempt it was executing.
LEMMA StepLost ==
    ASSUME IInv, NEW r \in Runs, worker_lost(r)
    PROVE  IInv'
<1>1. /\ UNCHANGED <<inp, target, exit, stored, cid, dirs, conts, last, helper, tick, execs,
                     cleaned, foreign, overlap>>
      /\ Fault(r, "lost")
      /\ pc[r] \in {"ssh_wait", "docker_wait", "docker_refused", "legacy_wait"}
      /\ pc[r] = "ssh_wait" => RetryOrRaise(r, "ssh", "done")
      /\ pc[r] \in {"docker_wait", "docker_refused"} => RetryOrRaise(r, "docker", "docker_cleanup")
      /\ pc[r] = "legacy_wait" => RetryOrRaise(r, "legacy", "done")
  BY DEF worker_lost
<1>2. CASE pc[r] = "ssh_wait"
  BY <1>1, <1>2, AttemptFails
<1>3. CASE pc[r] \in {"docker_wait", "docker_refused"}
  BY <1>1, <1>3, AttemptFails
<1>4. CASE pc[r] = "legacy_wait"
  BY <1>1, <1>4, AttemptFails
<1> QED
  BY <1>1, <1>2, <1>3, <1>4

\* docker_daemon_healthcheck: an unhealthy daemon is the verdict.
LEMMA StepDaemon ==
    ASSUME IInv, NEW r \in Runs, docker_daemon(r)
    PROVE  IInv'
<1> USE DEF IInv
<1>1. /\ UNCHANGED <<inp, tries, exit, stored, cid, dirs, conts, last, helper, tick,
                     faults, execs, cleaned, foreign, overlap>>
      /\ pc[r] = "daemon" /\ pc'[r] \in {"build", "cleanup"}
      /\ \A q \in Runs: q # r => pc'[q] = pc[q] /\ status'[q] = status[q]
      /\ pc'[r] = "build" => status'[r] = status[r]
      /\ pc'[r] = "cleanup" => status'[r] = "failed"
  BY DEF docker_daemon, Goto, Report, hostVars, history, TypeOK
<1>2. TypeOK'
  BY DEF docker_daemon, Goto, Report, hostVars, history, TypeOK, Labels
<1>3. RunInv'
  <2>1. RunOK(r)'
    BY <1>1, BoundsAssumption DEF RunInv, RunOK, Before, Starting, Waiting, Ran, TypeOK
  <2> QED
    BY <1>1, <2>1, OthersKept DEF Alone
<1>4. ContInv'
  BY <1>1, ContQuiet
<1>5. HelperInv'
  BY <1>1, HelperQuiet
<1>6. TickInv'
  BY <1>1, DiskStep
<1> QED
  BY <1>2, <1>3, <1>4, <1>5, <1>6

\* docker build: a failed build is the verdict, one that raises ends the run.
LEMMA StepBuild ==
    ASSUME IInv, NEW r \in Runs, docker_build(r)
    PROVE  IInv'
<1> USE DEF IInv
<1>1. /\ UNCHANGED <<inp, tries, exit, stored, cid, dirs, conts, last, helper, tick,
                     faults, execs, cleaned, foreign, overlap>>
      /\ pc[r] = "build" /\ pc'[r] \in {"docker", "cleanup", "done"}
      /\ \A q \in Runs: q # r => pc'[q] = pc[q] /\ status'[q] = status[q]
      /\ pc'[r] = "docker" => status'[r] = status[r]
      /\ pc'[r] = "cleanup" => status'[r] = "failed"
      /\ pc'[r] = "done" => status'[r] = "error"
  BY DEF docker_build, build_answers, Goto, End, Report, hostVars, history, TypeOK
<1>2. TypeOK'
  BY DEF docker_build, build_answers, Goto, End, Report, hostVars, history, TypeOK, Labels
<1>3. RunInv'
  <2>1. RunOK(r)'
    BY <1>1, BoundsAssumption DEF RunInv, RunOK, Before, Starting, Waiting, Ran, TypeOK
  <2> QED
    BY <1>1, <2>1, OthersKept DEF Alone
<1>4. ContInv'
  BY <1>1, ContQuiet
<1>5. HelperInv'
  BY <1>1, HelperQuiet
<1>6. TickInv'
  BY <1>1, DiskStep
<1> QED
  BY <1>2, <1>3, <1>4, <1>5, <1>6

\* docker run, first half: without a credential no container is created,
\* otherwise the new one is the last, and two at once are an overlap.
LEMMA StepDocker ==
    ASSUME IInv, NEW r \in Runs, docker_run_container(r)
    PROVE  IInv'
<1> USE DEF IInv
<1>1. /\ UNCHANGED <<inp, target, tries, stored, cid, dirs, helper, tick, cleaned, foreign>>
      /\ pc[r] = "docker"
      /\ \/ /\ exit' = [exit EXCEPT ![r] = "nonzero"] /\ status' = [status EXCEPT ![r] = "failed"]
            /\ pc' = [pc EXCEPT ![r] = "docker_cleanup"]
            /\ UNCHANGED <<conts, last, execs, overlap, faults>>
         \/ /\ pc' = [pc EXCEPT ![r] = "docker_refused"]
            /\ faults' = [faults EXCEPT ![r] = faults[r] \cup {"no_container"}]
            /\ UNCHANGED <<exit, status, conts, last, execs, overlap>>
         \/ /\ execs' = [execs EXCEPT ![r] = execs[r] + 1]
            /\ conts' = conts \cup {<<r, tries[r]>>} /\ last' = <<r, tries[r]>>
            /\ overlap' = (overlap \/ \E q \in Runs \ {r}: pc[q] = "docker_wait")
            /\ pc' = [pc EXCEPT ![r] = "docker_wait"]
            /\ UNCHANGED <<exit, status, faults>>
  BY DEF docker_run_container, vault_answers, docker_create_answers, Goto, Report, Start, Fault
<1>2. tries[r] \in 1..MaxAttempts /\ <<r, tries[r]>> \in Ids
  BY <1>1, BoundsAssumption DEF RunInv, RunOK, Starting, TypeOK, Ids
<1>3. /\ \A q \in Runs: q # r => /\ pc'[q] = pc[q] /\ status'[q] = status[q]
                                 /\ exit'[q] = exit[q] /\ execs'[q] = execs[q]
                                 /\ faults'[q] = faults[q]
      /\ \/ /\ pc'[r] = "docker_cleanup" /\ exit'[r] = "nonzero" /\ status'[r] = "failed"
            /\ execs'[r] = execs[r] /\ faults'[r] = faults[r]
         \/ /\ pc'[r] = "docker_refused" /\ exit'[r] = exit[r] /\ status'[r] = status[r]
            /\ execs'[r] = execs[r] /\ faults'[r] = faults[r] \cup {"no_container"}
         \/ /\ pc'[r] = "docker_wait" /\ exit'[r] = exit[r] /\ status'[r] = status[r]
            /\ execs'[r] = execs[r] + 1 /\ faults'[r] = faults[r]
  BY <1>1 DEF TypeOK
<1>4. TypeOK'
  <2>1. execs' \in [Runs -> Nat]
    <3>1. execs' = execs \/ execs' = [execs EXCEPT ![r] = execs[r] + 1]
      BY <1>1
    <3>2. execs \in [Runs -> Nat]
      BY DEF TypeOK
    <3> QED
      BY <3>1, <3>2, CountUp
  <2>2. conts' \subseteq Ids /\ last' \in Ids \cup {None}
    BY <1>1, <1>2 DEF TypeOK
  <2>3. overlap' \in BOOLEAN
    BY <1>1 DEF TypeOK
  <2>4. faults' \in [Runs -> SUBSET Faults]
    <3>1. faults \in [Runs -> SUBSET Faults] /\ "no_container" \in Faults
      BY DEF TypeOK, Faults
    <3> QED
      BY <1>1, <3>1, FaultNoted
  <2> QED
    BY <1>1, <2>1, <2>2, <2>3, <2>4 DEF TypeOK, Labels
<1>5. RunOK(r)'
  BY <1>1, <1>3, BoundsAssumption DEF RunInv, RunOK, Before, Starting, Waiting, Ran, TypeOK
<1>6. RunInv'
  BY <1>1, <1>3, <1>5, OthersKept DEF Alone
<1>7. ContInv'
  <2>1. CASE pc'[r] \in {"docker_cleanup", "docker_refused"}
    <3>1. UNCHANGED <<conts, last, overlap>>
      BY <1>1, <2>1 DEF TypeOK
    <3> QED
      BY <1>1, <1>3, <2>1, <3>1, ContQuiet
  <2>2. CASE pc'[r] = "docker_wait"
    <3>1. /\ conts' = conts \cup {<<r, tries[r]>>} /\ last' = <<r, tries[r]>>
          /\ ~overlap' => ~overlap /\ \A q \in Runs: pc[q] # "docker_wait"
      BY <1>1, <2>2 DEF TypeOK
    <3>2. last' # None /\ last'[1] = r
      BY <1>2, <3>1, NamesAssumption
    <3>3. ~overlap' => \A q \in Runs: pc'[q] = "docker_wait" => q = r
      BY <1>3, <3>1
    <3>4. ASSUME NEW q \in Runs, faults'[q] = {}, ~overlap', inp'[q].policy = "always",
                 NEW c \in conts', c[1] = q
          PROVE  \/ pc'[q] = "docker_wait" /\ c = last'
                 \/ pc'[q] = "docker_cleanup" /\ c = cid'[q]
      <4>1. CASE c = <<r, tries[r]>>
        BY <2>2, <3>1, <3>4, <4>1
      <4>2. CASE c # <<r, tries[r]>>
        <5>1. c \in conts /\ faults[q] = {} /\ ~overlap /\ inp[q].policy = "always"
          BY <1>1, <1>3, <3>1, <3>4, <4>2
        <5>2. pc[q] = "docker_cleanup" /\ c = cid[q]
          BY <3>1, <3>4, <5>1 DEF ContInv
        <5> QED
          BY <1>1, <1>3, <5>2
      <4> QED
        BY <4>1, <4>2
    <3> QED
      BY <1>1, <1>3, <2>2, <3>1, <3>2, <3>3, <3>4 DEF ContInv, TypeOK
  <2> QED
    BY <1>3, <2>1, <2>2
<1>8. HelperInv'
  BY <1>1, <1>3, HelperQuiet
<1>9. TickInv'
  BY <1>1, DiskStep
<1> QED
  BY <1>4, <1>6, <1>7, <1>8, <1>9

\* docker run, second half: the verdict, and the id that docker ps -lq answers.
LEMMA StepDockerResult ==
    ASSUME IInv, NEW r \in Runs, docker_run_result(r)
    PROVE  IInv'
<1> USE DEF IInv
<1>1. PICK how \in docker_exec_answers, id \in {last, None}:
        /\ exit' = [exit EXCEPT ![r] = IF how = "zero" THEN "zero" ELSE "nonzero"]
        /\ status' = [status EXCEPT ![r] = IF how = "zero" THEN "passed" ELSE "failed"]
        /\ cid' = [cid EXCEPT ![r] = id]
        /\ IF id = None THEN faults' = [faults EXCEPT ![r] = faults[r] \cup {"no_id"}]
                        ELSE faults' = faults
        /\ pc[r] = "docker_refused" => how # "zero"
  BY DEF docker_run_result, docker_ps, Report, Fault
<1>2. /\ pc[r] \in {"docker_wait", "docker_refused"}
      /\ pc' = [pc EXCEPT ![r] = "docker_cleanup"]
      /\ UNCHANGED <<inp, target, tries, stored, dirs, conts, last, helper, tick,
                     execs, cleaned, foreign, overlap>>
  BY DEF docker_run_result, Goto
<1>3. /\ \A q \in Runs: q # r => /\ pc'[q] = pc[q] /\ status'[q] = status[q] /\ exit'[q] = exit[q]
                                 /\ cid'[q] = cid[q] /\ faults'[q] = faults[q]
      /\ pc'[r] = "docker_cleanup" /\ cid'[r] = id
      /\ exit'[r] = IF how = "zero" THEN "zero" ELSE "nonzero"
      /\ status'[r] = IF how = "zero" THEN "passed" ELSE "failed"
      /\ faults'[r] = IF id = None THEN faults[r] \cup {"no_id"} ELSE faults[r]
  BY <1>1, <1>2 DEF TypeOK
<1>4. TypeOK'
  <2>1. faults' \in [Runs -> SUBSET Faults]
    <3>1. faults \in [Runs -> SUBSET Faults] /\ "no_id" \in Faults
      BY DEF TypeOK, Faults
    <3> QED
      BY <1>1, <3>1, FaultNoted
  <2>2. cid' \in [Runs -> Ids \cup {None}]
    BY <1>1 DEF TypeOK
  <2>3. pc' \in [Runs -> Labels]
    BY <1>2 DEF TypeOK, Labels
  <2> QED
    BY <1>1, <1>2, <2>1, <2>2, <2>3 DEF TypeOK
<1>5. RunOK(r)'
  <2>1. faults[r] \cap {"lost", "upload"} # {} => faults'[r] \cap {"lost", "upload"} # {}
    BY <1>3
  <2> QED
    BY <1>1, <1>2, <1>3, <2>1, BoundsAssumption
       DEF RunInv, RunOK, Before, Starting, Waiting, Ran, TypeOK
<1>6. RunInv'
  BY <1>2, <1>3, <1>5, OthersKept DEF Alone
<1>7. ContInv'
  <2>1. id # None /\ ~overlap => id[1] = r \/ "no_container" \in faults[r]
    BY <1>1, <1>2 DEF ContInv, RunInv, RunOK
  <2>2. ASSUME NEW q \in Runs, faults'[q] = {}, ~overlap', inp'[q].policy = "always",
               NEW c \in conts', c[1] = q
        PROVE  \/ pc'[q] = "docker_wait" /\ c = last'
               \/ pc'[q] = "docker_cleanup" /\ c = cid'[q]
    <3>1. faults[q] = {} /\ (q = r => id = last)
      BY <1>1, <1>3, <2>2
    <3> QED
      BY <1>2, <1>3, <2>2, <3>1 DEF ContInv
  <2>3. ~overlap' => \A q \in Runs: cid'[q] # None => cid'[q][1] = q \/ "no_container" \in faults'[q]
    BY <1>2, <1>3, <2>1 DEF ContInv
  <2>4. \A q \in Runs: pc'[q] = "docker_wait" => pc[q] = "docker_wait"
    BY <1>2, <1>3
  <2> QED
    <3>1. foreign \subseteq Runs
      BY DEF TypeOK
    <3>2. \A q \in foreign': overlap' \/ "no_container" \in faults'[q]
      BY <1>2, <1>3, <3>1 DEF ContInv
    <3> QED
      BY <1>2, <1>3, <2>2, <2>3, <2>4, <3>2 DEF ContInv
<1>8. HelperInv'
  <2>1. \A q \in Runs: "cred_left" \in faults[q] => "cred_left" \in faults'[q]
    BY <1>3
  <2> QED
    BY <1>2, <1>3, <2>1, HelperQuiet
<1>9. TickInv'
  BY <1>2, DiskStep
<1> QED
  BY <1>4, <1>6, <1>7, <1>8, <1>9

\* docker_cleanup_container: under "always" the run's container goes, or its
\* staying is a fault; another run's container needs an overlap.
LEMMA StepDockerCleanup ==
    ASSUME IInv, NEW r \in Runs, docker_cleanup_container(r)
    PROVE  IInv'
<1> USE DEF IInv
<1>1. /\ UNCHANGED <<inp, target, tries, exit, status, stored, cid, dirs, last, helper, tick,
                     execs, cleaned, overlap>>
      /\ pc[r] = "docker_cleanup"
      /\ pc' = [pc EXCEPT ![r] = IF status[r] = "error" THEN "done" ELSE "cleanup"]
      /\ \/ /\ cid[r] # None /\ conts' = conts \ {cid[r]} /\ faults' = faults
            /\ foreign' = IF cid[r][1] # r /\ cid[r] \in conts THEN foreign \cup {r} ELSE foreign
         \/ /\ faults' = [faults EXCEPT ![r] = faults[r] \cup {"not_removed"}]
            /\ UNCHANGED <<conts, foreign>>
         \/ /\ ~(docker_cleanup_guard(r) /\ cid[r] # None)
            /\ UNCHANGED <<conts, foreign, faults>>
  BY DEF docker_cleanup_container, Goto, Fault
<1>2. /\ \A q \in Runs: q # r => pc'[q] = pc[q] /\ faults'[q] = faults[q]
      /\ pc'[r] = IF status[r] = "error" THEN "done" ELSE "cleanup"
      /\ faults'[r] \in {faults[r], faults[r] \cup {"not_removed"}}
  BY <1>1 DEF TypeOK
<1>3. TypeOK'
  <2>1. faults' \in [Runs -> SUBSET Faults]
    <3>1. faults \in [Runs -> SUBSET Faults] /\ "not_removed" \in Faults
      BY DEF TypeOK, Faults
    <3> QED
      BY <1>1, <3>1, FaultNoted
  <2>2. pc' \in [Runs -> Labels]
    BY <1>1 DEF TypeOK, Labels
  <2>3. conts' \subseteq Ids /\ foreign' \subseteq Runs
    BY <1>1 DEF TypeOK
  <2> QED
    BY <1>1, <2>1, <2>2, <2>3 DEF TypeOK
<1>4. RunOK(r)'
  <2>1. faults[r] \cap {"lost", "upload"} # {} => faults'[r] \cap {"lost", "upload"} # {}
    BY <1>2
  <2> QED
    BY <1>1, <1>2, <2>1 DEF RunInv, RunOK, Before, Starting, Waiting, Ran, TypeOK
<1>5. RunInv'
  BY <1>1, <1>2, <1>4, OthersKept DEF Alone
<1>6. ContInv'
  <2>1. \A q \in foreign': overlap' \/ "no_container" \in faults'[q]
    BY <1>1, <1>2 DEF ContInv, TypeOK
  <2>2. conts' \subseteq conts
    BY <1>1
  <2>3. ASSUME NEW q \in Runs, faults'[q] = {}, ~overlap', inp'[q].policy = "always",
               NEW c \in conts', c[1] = q
        PROVE  \/ pc'[q] = "docker_wait" /\ c = last'
               \/ pc'[q] = "docker_cleanup" /\ c = cid'[q]
    <3>1. faults[q] = {} /\ c \in conts /\ inp[q].policy = "always" /\ ~overlap
      BY <1>1, <1>2, <2>2, <2>3
    <3>2. CASE q # r
      BY <1>1, <1>2, <2>3, <3>1, <3>2 DEF ContInv
    <3>3. CASE q = r
      <4>1. c = cid[r]
        BY <1>1, <2>3, <3>1, <3>3 DEF ContInv
      <4>2. cid[r] # None
        BY <3>1, <4>1, NamesAssumption DEF TypeOK
      <4>3. docker_cleanup_guard(r)
        BY <3>1, <3>3 DEF docker_cleanup_guard, should_perform_cleanup
      <4>4. conts' = conts \ {cid[r]}
        <5>1. faults' # [faults EXCEPT ![r] = faults[r] \cup {"not_removed"}]
          BY <2>3, <3>3 DEF TypeOK
        <5> QED
          BY <1>1, <4>2, <4>3, <5>1
      <4> QED
        BY <2>3, <4>1, <4>4
    <3> QED
      BY <3>2, <3>3
  <2>4. \A q \in Runs: pc'[q] = "docker_wait" => pc[q] = "docker_wait"
    BY <1>1, <1>2
  <2> QED
    BY <1>1, <1>2, <2>1, <2>3, <2>4 DEF ContInv
<1>7. HelperInv'
  <2>1. \A q \in Runs: "cred_left" \in faults[q] => "cred_left" \in faults'[q]
    BY <1>2
  <2> QED
    BY <1>1, <1>2, <2>1, HelperQuiet
<1>8. TickInv'
  BY <1>1, DiskStep
<1> QED
  BY <1>3, <1>5, <1>6, <1>7, <1>8

\* apply_cleanup_policy: outside "always" the workspace goes only with exit
\* code zero, whatever the status says.
LEMMA StepCleanup ==
    ASSUME IInv, NEW r \in Runs, apply_cleanup_policy(r)
    PROVE  IInv'
<1> USE DEF IInv
<1>1. /\ UNCHANGED <<inp, tries, exit, status, stored, cid, conts, last, helper, tick,
                     faults, execs, foreign, overlap>>
      /\ dirs' \in {dirs, Append(dirs, r), Without(dirs, r)}
      /\ pc[r] = "cleanup" /\ pc'[r] = "done"
      /\ \A q \in Runs: q # r => pc'[q] = pc[q] /\ (q \in cleaned' <=> q \in cleaned)
      /\ r \in cleaned' => \/ r \in cleaned
                           \/ inp[r].policy = "always"
                           \/ exit[r] = "zero"
  BY DEF apply_cleanup_policy, should_cleanup, normalize_policy, Goto, TypeOK
<1>2. TypeOK'
  <2>1. dirs' \in Seq(OldNames \cup Runs)
    BY <1>1, DiskStep
  <2>2. cleaned' \subseteq Runs
    BY DEF apply_cleanup_policy, Goto, TypeOK
  <2>3. pc' \in [Runs -> Labels]
    BY DEF apply_cleanup_policy, Goto, TypeOK, Labels
  <2> QED
    BY <2>1, <2>2, <2>3 DEF apply_cleanup_policy, TypeOK
<1>3. RunInv'
  <2>1. RunOK(r)'
    BY <1>1, BoundsAssumption DEF RunInv, RunOK, Before, Starting, Waiting, Ran, TypeOK
  <2> QED
    BY <1>1, <2>1, OthersKept DEF Alone
<1>4. ContInv'
  BY <1>1, ContQuiet
<1>5. HelperInv'
  BY <1>1, HelperQuiet
<1>6. TickInv'
  BY <1>1, DiskStep
<1> QED
  BY <1>2, <1>3, <1>4, <1>5, <1>6

\* vault_fetch_ssh_credentials of the legacy workflow.
LEMMA StepVault ==
    ASSUME IInv, NEW r \in Runs, vault_fetch_ssh_credentials(r)
    PROVE  IInv'
<1> USE DEF IInv
<1>1. /\ UNCHANGED <<inp, exit, stored, cid, conts, last, helper, tick,
                     faults, execs, cleaned, foreign, overlap>>
      /\ dirs' \in {dirs, Append(dirs, r), Without(dirs, r)}
      /\ pc[r] = "vault" /\ pc'[r] \in {"quota", "done"}
      /\ \A q \in Runs: q # r => pc'[q] = pc[q] /\ status'[q] = status[q] /\ tries'[q] = tries[q]
      /\ pc'[r] = "quota" => status'[r] = status[r] /\ tries'[r] = 1
      /\ pc'[r] = "done" => status'[r] = "error"
  BY DEF vault_fetch_ssh_credentials, Goto, End, Report, history, TypeOK
<1>2. TypeOK'
  <2>1. dirs' \in Seq(OldNames \cup Runs)
    BY <1>1, DiskStep
  <2>2. tries' \in [Runs -> 0..(MaxRetries + MaxAttempts)]
    <3>1. 1 \in 0..(MaxRetries + MaxAttempts)
      BY BoundsAssumption
    <3> QED
      BY <3>1 DEF vault_fetch_ssh_credentials, Goto, End, Report, TypeOK
  <2> QED
    BY <2>1, <2>2 DEF vault_fetch_ssh_credentials, Goto, End, Report, history, TypeOK, Labels
<1>3. RunInv'
  <2>1. RunOK(r)'
    BY <1>1, BoundsAssumption DEF RunInv, RunOK, Before, Starting, Waiting, Ran, TypeOK
  <2> QED
    BY <1>1, <2>1, OthersKept DEF Alone
<1>4. ContInv'
  BY <1>1, ContQuiet
<1>5. HelperInv'
  BY <1>1, HelperQuiet
<1>6. TickInv'
  BY <1>1, DiskStep
<1> QED
  BY <1>2, <1>3, <1>4, <1>5, <1>6

\* ssh_connect_and_run: the one start of a legacy attempt.
LEMMA StepLegacy ==
    ASSUME IInv, NEW r \in Runs, ssh_connect_and_run(r)
    PROVE  IInv'
<1> USE DEF IInv
<1>1. /\ UNCHANGED <<inp, target, tries, exit, status, stored, cid, dirs, conts, last, helper, tick,
                     faults, cleaned, foreign, overlap>>
      /\ pc[r] = "legacy" /\ pc'[r] = "legacy_wait"
      /\ \A q \in Runs: q # r => pc'[q] = pc[q] /\ execs'[q] = execs[q]
      /\ execs'[r] = execs[r] + 1
  BY DEF ssh_connect_and_run, Goto, Start, TypeOK
<1>2. TypeOK'
  <2>1. execs' \in [Runs -> Nat]
    BY DEF ssh_connect_and_run, Start, TypeOK
  <2>2. pc' \in [Runs -> Labels]
    BY DEF ssh_connect_and_run, Goto, TypeOK, Labels
  <2> QED
    BY <1>1, <2>1, <2>2 DEF TypeOK
<1>3. RunInv'
  <2>1. RunOK(r)'
    BY <1>1, BoundsAssumption DEF RunInv, RunOK, Before, Starting, Waiting, Ran, TypeOK
  <2> QED
    BY <1>1, <2>1, OthersKept DEF Alone
<1>4. ContInv'
  BY <1>1, ContQuiet
<1>5. HelperInv'
  BY <1>1, HelperQuiet
<1>6. TickInv'
  BY <1>1, DiskStep
<1> QED
  BY <1>2, <1>3, <1>4, <1>5, <1>6

\* The end of a legacy session: an exit code, or an attempt that raised.
LEMMA StepLegacyResult ==
    ASSUME IInv, NEW r \in Runs, ssh_connect_and_run_result(r)
    PROVE  IInv'
<1>0. PICK how \in ssh_session_answers:
        IF how \in {"zero", "nonzero"}
        THEN /\ exit' = [exit EXCEPT ![r] = how]
             /\ Goto(r, IF inp[r].push /\ inp[r].dept THEN "inject" ELSE "upload")
             /\ UNCHANGED <<tries, status, faults>>
        ELSE RetryOrRaise(r, "legacy", "done") /\ Fault(r, "lost") /\ UNCHANGED exit
  BY DEF ssh_connect_and_run_result
<1>u. /\ UNCHANGED <<inp, target, stored, cid, dirs, conts, last, helper, tick, execs, cleaned,
                     foreign, overlap>>
      /\ pc[r] = "legacy_wait"
  BY DEF ssh_connect_and_run_result
<1>a. CASE how \notin {"zero", "nonzero"}
  <2>1. UNCHANGED exit /\ RetryOrRaise(r, "legacy", "done") /\ Fault(r, "lost")
    BY <1>0, <1>a
  <2> QED
    BY <1>u, <2>1, AttemptFails
<1>b. CASE how \in {"zero", "nonzero"}
  <2> USE DEF IInv
  <2>1. /\ UNCHANGED <<tries, status, faults>>
        /\ exit' = [exit EXCEPT ![r] = how]
        /\ pc' = [pc EXCEPT ![r] = IF inp[r].push /\ inp[r].dept THEN "inject" ELSE "upload"]
    BY <1>0, <1>b DEF Goto
  <2>2. /\ pc'[r] \in {"inject", "upload"} /\ exit'[r] = how
        /\ \A q \in Runs: q # r => pc'[q] = pc[q] /\ exit'[q] = exit[q]
    BY <2>1 DEF TypeOK
  <2>3. TypeOK'
    BY <1>u, <1>b, <2>1 DEF TypeOK, Labels
  <2>4. RunOK(r)'
    BY <1>u, <2>1, <2>2, BoundsAssumption DEF RunInv, RunOK, Before, Starting, Waiting, Ran, TypeOK
  <2>5. RunInv'
    BY <1>u, <2>1, <2>2, <2>4, OthersKept DEF Alone
  <2>6. ContInv'
    BY <1>u, <2>1, <2>2, ContQuiet
  <2>7. HelperInv'
    BY <1>u, <2>1, <2>2, HelperQuiet
  <2>8. TickInv'
    BY <1>u, DiskStep
  <2> QED
    BY <2>3, <2>5, <2>6, <2>7, <2>8
<1> QED
  BY <1>a, <1>b

\* inject_git_credentials: whether it worked or broke half-way, the clean-up of
\* the credentials is still to come.
LEMMA StepInject ==
    ASSUME IInv, NEW r \in Runs, inject_git_credentials(r)
    PROVE  IInv'
<1> USE DEF IInv
<1>1. /\ UNCHANGED <<inp, tries, exit, stored, cid, dirs, conts, last, tick,
                     faults, execs, cleaned, foreign, overlap>>
      /\ helper' \in {helper, r}
      /\ pc[r] = "inject" /\ pc'[r] \in {"push", "uncred"}
      /\ \A q \in Runs: q # r => pc'[q] = pc[q] /\ status'[q] = status[q]
      /\ status'[r] = status[r] \/ (pc'[r] = "uncred" /\ status'[r] = "error")
  BY DEF inject_git_credentials, Goto, Report, history, TypeOK
<1>2. TypeOK'
  BY DEF inject_git_credentials, Goto, Report, history, TypeOK, Labels
<1>3. RunInv'
  <2>1. RunOK(r)'
    BY <1>1, BoundsAssumption DEF RunInv, RunOK, Before, Starting, Waiting, Ran, TypeOK
  <2> QED
    BY <1>1, <2>1, OthersKept DEF Alone
<1>4. ContInv'
  BY <1>1, ContQuiet
<1>5. HelperInv'
  BY <1>1 DEF HelperInv
<1>6. TickInv'
  BY <1>1, DiskStep
<1> QED
  BY <1>2, <1>3, <1>4, <1>5, <1>6

\* git push, which may fail; the clean-up of the credentials follows either way.
LEMMA StepPush ==
    ASSUME IInv, NEW r \in Runs, git_push(r)
    PROVE  IInv'
<1> USE DEF IInv
<1>1. /\ UNCHANGED <<inp, tries, exit, stored, cid, dirs, conts, last, helper, tick,
                     faults, execs, cleaned, foreign, overlap>>
      /\ pc[r] = "push" /\ pc'[r] = "uncred"
      /\ \A q \in Runs: q # r => pc'[q] = pc[q] /\ status'[q] = status[q]
      /\ status'[r] \in {status[r], "error"}
  BY DEF git_push, Goto, Report, hostVars, history, TypeOK
<1>2. TypeOK'
  BY DEF git_push, Goto, Report, hostVars, history, TypeOK, Labels
<1>3. RunInv'
  <2>1. RunOK(r)'
    BY <1>1, BoundsAssumption DEF RunInv, RunOK, Before, Starting, Waiting, Ran, TypeOK
  <2> QED
    BY <1>1, <2>1, OthersKept DEF Alone
<1>4. ContInv'
  BY <1>1, ContQuiet
<1>5. HelperInv'
  BY <1>1, HelperQuiet
<1>6. TickInv'
  BY <1>1, DiskStep
<1> QED
  BY <1>2, <1>3, <1>4, <1>5, <1>6

\* cleanup_git_credentials: nobody's credentials are left, or it is a fault.
LEMMA StepUncred ==
    ASSUME IInv, NEW r \in Runs, cleanup_git_credentials(r)
    PROVE  IInv'
<1> USE DEF IInv
<1>0. /\ UNCHANGED <<inp, target, tries, exit, status, stored, cid, dirs, conts, last,
                     tick, execs, cleaned, foreign, overlap>>
      /\ pc[r] = "uncred" /\ pc' = [pc EXCEPT ![r] = IF status[r] = "error" THEN "done" ELSE "upload"]
      /\ \/ helper' = None /\ faults' = faults
         \/ helper' = helper /\ faults' = [faults EXCEPT ![r] = faults[r] \cup {"cred_left"}]
  BY DEF cleanup_git_credentials, Goto, Fault
<1>1. /\ pc'[r] = IF status[r] = "error" THEN "done" ELSE "upload"
      /\ \A q \in Runs: q # r => pc'[q] = pc[q] /\ faults'[q] = faults[q]
      /\ faults'[r] \in {faults[r], faults[r] \cup {"cred_left"}}
      /\ helper' = None \/ (helper' = helper /\ "cred_left" \in faults'[r])
  BY <1>0 DEF TypeOK
<1>2. TypeOK'
  <2>1. faults' \in [Runs -> SUBSET Faults]
    <3>1. faults \in [Runs -> SUBSET Faults] /\ "cred_left" \in Faults
      BY DEF TypeOK, Faults
    <3> QED
      BY <1>0, <3>1, FaultNoted
  <2>2. helper' \in Runs \cup {None}
    BY <1>0 DEF TypeOK
  <2>3. pc' \in [Runs -> Labels]
    BY <1>0 DEF TypeOK, Labels
  <2> QED
    BY <1>0, <2>1, <2>2, <2>3 DEF TypeOK
<1>3. RunInv'
  <2>1. faults[r] \cap {"lost", "upload"} # {} => faults'[r] \cap {"lost", "upload"} # {}
    BY <1>1
  <2>2. RunOK(r)'
    BY <1>0, <1>1, <2>1 DEF RunInv, RunOK, Before, Starting, Waiting, Ran, TypeOK
  <2> QED
    BY <1>0, <1>1, <2>2, OthersKept DEF Alone
<1>4. ContInv'
  <2>1. \A q \in Runs: faults'[q] = {} => faults[q] = {}
    BY <1>1
  <2> QED
    BY <1>0, <1>1, <2>1, ContQuiet
<1>5. HelperInv'
  <2>1. \A q \in Runs: "cred_left" \in faults[q] => "cred_left" \in faults'[q]
    BY <1>1
  <2> QED
    BY <1>1, <2>1, NamesAssumption DEF HelperInv
<1>6. TickInv'
  BY <1>0, DiskStep
<1> QED
  BY <1>2, <1>3, <1>4, <1>5, <1>6

\* minio_upload_artifact: the logs are stored, or the workflow has raised.
LEMMA StepUpload ==
    ASSUME IInv, NEW r \in Runs, minio_upload_artifact(r)
    PROVE  IInv'
<1> USE DEF IInv
<1>1. /\ UNCHANGED <<inp, tries, exit, cid, dirs, conts, last, helper, tick,
                     faults, execs, cleaned, foreign, overlap>>
      /\ pc[r] = "upload" /\ pc'[r] \in {"legacy_cleanup", "done"}
      /\ \A q \in Runs: q # r => pc'[q] = pc[q] /\ status'[q] = status[q] /\ stored'[q] = stored[q]
      /\ pc'[r] = "legacy_cleanup" => stored'[r] /\ status'[r] = status[r]
      /\ pc'[r] = "done" => status'[r] = "error"
  BY DEF minio_upload_artifact, Goto, End, Report, hostVars, history, TypeOK
<1>2. TypeOK'
  BY DEF minio_upload_artifact, Goto, End, Report, hostVars, history, TypeOK, Labels
<1>3. RunInv'
  <2>1. RunOK(r)'
    BY <1>1, BoundsAssumption DEF RunInv, RunOK, Before, Starting, Waiting, Ran, TypeOK
  <2> QED
    BY <1>1, <2>1, OthersKept DEF Alone
<1>4. ContInv'
  BY <1>1, ContQuiet
<1>5. HelperInv'
  BY <1>1, HelperQuiet
<1>6. TickInv'
  BY <1>1, DiskStep
<1> QED
  BY <1>2, <1>3, <1>4, <1>5, <1>6

\* ssh_cleanup, the last step of the legacy workflow: the exit code is the
\* verdict, and all the clean-up asks for.
LEMMA StepLegacyCleanup ==
    ASSUME IInv, NEW r \in Runs, ssh_cleanup(r)
    PROVE  IInv'
<1> USE DEF IInv
<1>1. /\ UNCHANGED <<inp, tries, exit, stored, cid, conts, last, helper, tick,
                     faults, execs, foreign, overlap>>
      /\ dirs' \in {dirs, Append(dirs, r), Without(dirs, r)}
      /\ pc[r] = "legacy_cleanup" /\ pc'[r] = "done"
      /\ \A q \in Runs: q # r => /\ pc'[q] = pc[q] /\ status'[q] = status[q]
                                 /\ (q \in cleaned' <=> q \in cleaned)
      /\ status'[r] = IF exit[r] = "zero" THEN "passed" ELSE "failed"
      /\ r \in cleaned' => \/ r \in cleaned
                           \/ inp[r].policy = "always"
                           \/ exit[r] = "zero"
  BY DEF ssh_cleanup, should_cleanup, End, Report, Goto, TypeOK
<1>2. TypeOK'
  <2>1. dirs' \in Seq(OldNames \cup Runs)
    BY <1>1, DiskStep
  <2>2. cleaned' \subseteq Runs
    BY DEF ssh_cleanup, End, Report, Goto, TypeOK
  <2>3. pc' \in [Runs -> Labels]
    BY DEF ssh_cleanup, End, Report, Goto, TypeOK, Labels
  <2> QED
    BY <2>1, <2>2, <2>3 DEF ssh_cleanup, End, Report, Goto, TypeOK
<1>3. RunInv'
  <2>1. RunOK(r)'
    BY <1>1, BoundsAssumption DEF RunInv, RunOK, Before, Starting, Waiting, Ran, TypeOK
  <2> QED
    BY <1>1, <2>1, OthersKept DEF Alone
<1>4. ContInv'
  BY <1>1, ContQuiet
<1>5. HelperInv'
  BY <1>1, HelperQuiet
<1>6. TickInv'
  BY <1>1, DiskStep
<1> QED
  BY <1>2, <1>3, <1>4, <1>5, <1>6

\* The credential cache forgets.
LEMMA StepTtl ==
    ASSUME IInv, credential_ttl
    PROVE  IInv'
<1> USE DEF IInv
<1>1. /\ UNCHANGED <<inp, pc, target, tries, exit, status, stored, cid, dirs, conts, last, tick,
                     faults, execs, cleaned, foreign, overlap>>
      /\ helper' = None
  BY DEF credential_ttl, runVars, history
<1>2. TypeOK'
  BY <1>1 DEF TypeOK
<1>3. RunInv'
  BY <1>1 DEF RunInv, RunOK
<1>4. ContInv'
  BY <1>1, ContQuiet
<1>5. HelperInv'
  BY <1>1, HelperQuiet, NamesAssumption
<1>6. TickInv'
  BY <1>1 DEF TickInv, Prefixed, LiveWorkspaceIsLastResort
<1> QED
  BY <1>2, <1>3, <1>4, <1>5, <1>6

-----------------------------------------------------------------------------
\* A step of the scheduler touches no run, container or credential.
LEMMA TickStep ==
    ASSUME IInv, UNCHANGED <<runVars, conts, last, helper, history>>,
           tick' \in TickShape, dirs' \in Seq(OldNames \cup Runs), TickInv'
    PROVE  IInv'
<1> USE DEF IInv
<1>1. UNCHANGED <<inp, pc, target, tries, exit, status, stored, cid, conts, last, helper,
                  faults, execs, cleaned, foreign, overlap>>
  BY DEF runVars, history
<1>2. TypeOK'
  BY <1>1 DEF TypeOK
<1>3. RunInv'
  BY <1>1 DEF RunInv, RunOK
<1>4. ContInv'
  BY <1>1, ContQuiet
<1>5. HelperInv'
  BY <1>1, HelperQuiet
<1> QED
  BY <1>2, <1>3, <1>4, <1>5

\* The probe starts a tick only at or above the eviction line.
LEMMA StepProbe ==
    ASSUME IInv, probe_workspace_disk_usage
    PROVE  IInv'
<1> USE DEF IInv
<1>1. /\ UNCHANGED <<runVars, conts, last, helper, history>> /\ dirs' = dirs
      /\ tick.pc = "idle"
      /\ \/ /\ Len(dirs) >= EvictAt
            /\ tick' = [tick EXCEPT !.pc = "list", !.used = Len(dirs), !.probed = Len(dirs)]
         \/ tick' = [tick EXCEPT !.pc = "done"]
  BY DEF probe_workspace_disk_usage, hostVars
<1>2. tick \in TickShape /\ dirs \in Seq(OldNames \cup Runs) /\ Len(dirs) \in Nat
  BY DEF TypeOK
<1>3. tick' \in TickShape
  BY <1>1, <1>2 DEF TickShape
<1>4. /\ tick'.list = tick.list /\ tick'.i = tick.i /\ tick'.pruned = tick.pruned
      /\ tick'.failed = tick.failed
      /\ \/ /\ tick'.pc = "list" /\ tick'.used = Len(dirs) /\ tick'.probed = Len(dirs)
            /\ Len(dirs) >= EvictAt
         \/ tick'.pc = "done" /\ tick'.used = tick.used /\ tick'.probed = tick.probed
  BY <1>1, <1>2 DEF TickShape
<1>5. TickInv'
  <2>1. tick.pruned = {} /\ Prefixed(dirs) /\ tick.i = 1
    BY <1>1 DEF TickInv
  <2>2. Prefixed(dirs)'
    BY <1>1, <2>1 DEF Prefixed
  <2>3. Cardinality({}) = 0 /\ IsFiniteSet({})
    BY FS_EmptySet
  <2>4. LiveWorkspaceIsLastResort'
    BY <1>4, <2>1 DEF LiveWorkspaceIsLastResort
  <2>5. IsFiniteSet(tick'.pruned) /\ tick'.used + Cardinality(tick'.pruned) <= tick'.probed
    <3>1. tick.used = 0 /\ tick.probed = 0 /\ tick'.pruned = {}
      BY <1>1, <1>4, <2>1 DEF TickInv
    <3> QED
      BY <1>2, <1>4, <2>3, <3>1
  <2>6. tick'.pc \in {"list", "done"} /\ tick'.pruned = {} /\ tick'.i = 1
        /\ (tick'.pc = "list" => tick'.probed >= EvictAt /\ tick'.used = tick'.probed)
    BY <1>4, <2>1
  <2> QED
    BY <2>2, <2>4, <2>5, <2>6 DEF TickInv
<1> QED
  BY <1>1, <1>2, <1>3, <1>5, TickStep

\* The listing is the disk as it is now, leftovers first.
LEMMA StepList ==
    ASSUME IInv, list_workspace_iter_dirs_oldest_first
    PROVE  IInv'
<1> USE DEF IInv
<1>1. PICK listed \in {dirs, <<>>}:
        tick' = [tick EXCEPT !.pc = IF listed = <<>> THEN "done" ELSE "prune", !.list = listed]
  BY DEF list_workspace_iter_dirs_oldest_first
<1>2. /\ UNCHANGED <<runVars, conts, last, helper, history>> /\ dirs' = dirs
      /\ tick.pc = "list"
  BY DEF list_workspace_iter_dirs_oldest_first, hostVars
<1>3. tick \in TickShape /\ dirs \in Seq(OldNames \cup Runs) /\ listed \in Seq(OldNames \cup Runs)
  <2>1. <<>> \in Seq(OldNames \cup Runs)
    OBVIOUS
  <2> QED
    BY <2>1 DEF TypeOK
<1>4. tick' \in TickShape
  BY <1>1, <1>3 DEF TickShape
<1>5. /\ tick'.list = listed /\ tick'.i = tick.i /\ tick'.pruned = tick.pruned
      /\ tick'.failed = tick.failed /\ tick'.used = tick.used /\ tick'.probed = tick.probed
      /\ tick'.pc = IF listed = <<>> THEN "done" ELSE "prune"
  BY <1>1, <1>3 DEF TickShape
<1>6. TickInv'
  <2>1. tick.pruned = {} /\ Prefixed(dirs) /\ tick.i = 1
    BY <1>2 DEF TickInv
  <2>2. tick'.pc = "prune" => Prefixed(tick.list)'
    BY <1>5, <2>1 DEF Prefixed
  <2>3. LiveWorkspaceIsLastResort'
    BY <1>5, <2>1 DEF LiveWorkspaceIsLastResort
  <2>4. IsFiniteSet(tick'.pruned) /\ tick'.used + Cardinality(tick'.pruned) <= tick'.probed
    BY <1>5 DEF TickInv
  <2> QED
    BY <1>2, <1>5, <2>1, <2>2, <2>3, <2>4 DEF TickInv
<1> QED
  BY <1>2, <1>3, <1>4, <1>6, TickStep

\* One entry of the stale listing: it is pruned and paid for by the estimate, or
\* it is noted as failed; a run's workspace comes behind all the leftovers.
LEMMA StepPrune ==
    ASSUME IInv, prune_workspace_iter
    PROVE  IInv'
<1> USE DEF IInv
<1>1. UNCHANGED <<runVars, conts, last, helper, history>> /\ tick.pc = "prune"
  BY DEF prune_workspace_iter
<1>2. tick \in TickShape /\ dirs \in Seq(OldNames \cup Runs)
  BY DEF TypeOK
<1>3. EvictAt \in Nat /\ EvictAt > 0
  BY BoundsAssumption
<1>a. CASE tick' = [tick EXCEPT !.pc = "done"] /\ dirs' = dirs
  <2>1. /\ tick' \in TickShape /\ tick'.pc = "done"
        /\ tick'.list = tick.list /\ tick'.i = tick.i /\ tick'.pruned = tick.pruned
        /\ tick'.failed = tick.failed /\ tick'.used = tick.used /\ tick'.probed = tick.probed
    BY <1>2, <1>a DEF TickShape
  <2>2. TickInv'
    BY <2>1 DEF TickInv, LiveWorkspaceIsLastResort
  <2> QED
    BY <1>1, <1>2, <1>a, <2>1, <2>2, TickStep
<1>b. CASE ~(tick' = [tick EXCEPT !.pc = "done"] /\ dirs' = dirs)
  <2> DEFINE d == tick.list[tick.i]
  <2>1. /\ tick.i <= Len(tick.list) /\ tick.used >= EvictAt
        /\ \/ /\ dirs' \in {Without(dirs, d), dirs}
              /\ tick' = [tick EXCEPT !.i = tick.i + 1, !.pruned = tick.pruned \cup {d},
                                      !.used = running_used(tick.used)]
           \/ /\ tick' = [tick EXCEPT !.i = tick.i + 1, !.failed = tick.failed \cup {d}]
              /\ dirs' = dirs
    BY <1>2, <1>3, <1>b DEF prune_workspace_iter, TickShape
  <2>2. tick.i \in Nat /\ tick.i >= 1 /\ tick.used \in Nat /\ tick.probed \in Nat
        /\ tick.list \in Seq(OldNames \cup Runs) /\ Prefixed(tick.list)
    BY <1>1, <1>2 DEF TickShape, TickInv
  <2>3. d \in OldNames \cup Runs
    BY <2>1, <2>2
  <2>4. running_used(tick.used) = tick.used - 1 /\ tick.used - 1 \in Nat
    BY <1>3, <2>1, <2>2 DEF running_used
  <2> HIDE DEF d
  <2>5. tick' \in TickShape
    <3>1. /\ tick.i + 1 \in Nat
          /\ tick.pruned \cup {d} \in SUBSET (OldNames \cup Runs)
          /\ tick.failed \cup {d} \in SUBSET (OldNames \cup Runs)
      BY <1>2, <2>2, <2>3 DEF TickShape
    <3>2. CASE tick' = [tick EXCEPT !.i = tick.i + 1, !.pruned = tick.pruned \cup {d},
                                    !.used = running_used(tick.used)]
      BY <1>2, <2>4, <3>1, <3>2 DEF TickShape
    <3>3. CASE tick' = [tick EXCEPT !.i = tick.i + 1, !.failed = tick.failed \cup {d}]
      BY <1>2, <3>1, <3>3 DEF TickShape
    <3> QED
      BY <2>1, <3>2, <3>3
  <2>6. dirs' \in Seq(OldNames \cup Runs)
    BY <1>2, <2>1, WithoutKeeps
  <2>7. /\ tick'.pc = "prune" /\ tick'.list = tick.list /\ tick'.i = tick.i + 1
        /\ tick'.probed = tick.probed
        /\ \/ /\ tick'.pruned = tick.pruned \cup {d} /\ tick'.failed = tick.failed
              /\ tick'.used = tick.used - 1
           \/ /\ tick'.pruned = tick.pruned /\ tick'.failed = tick.failed \cup {d}
              /\ tick'.used = tick.used
    BY <1>1, <1>2, <2>1, <2>4 DEF TickShape
  <2>8. \A k \in 1..Len(tick.list): k < tick'.i => tick.list[k] \in tick'.pruned \cup tick'.failed
    <3>1. \A k \in 1..Len(tick.list): k < tick.i => tick.list[k] \in tick.pruned \cup tick.failed
      BY <1>1 DEF TickInv
    <3>2. \A k \in 1..Len(tick.list): k < tick'.i => k < tick.i \/ k = tick.i
      BY <2>2, <2>7
    <3>3. d \in tick'.pruned \cup tick'.failed
      BY <2>7
    <3> QED
      BY <2>7, <3>1, <3>2, <3>3 DEF d
  <2>9. /\ IsFiniteSet(tick'.pruned)
        /\ tick'.used + Cardinality(tick'.pruned) <= tick'.probed
        /\ tick'.pruned # {} => tick'.probed >= EvictAt /\ tick'.used + 1 >= EvictAt
    <3>1. /\ IsFiniteSet(tick.pruned) /\ Cardinality(tick.pruned) \in Nat
          /\ tick.used + Cardinality(tick.pruned) <= tick.probed /\ tick.probed >= EvictAt
      BY <1>1, FS_CardinalityType DEF TickInv
    <3>2. /\ IsFiniteSet(tick.pruned \cup {d})
          /\ Cardinality(tick.pruned \cup {d}) \in {Cardinality(tick.pruned), Cardinality(tick.pruned) + 1}
      BY <3>1, FS_AddElement
    <3>3. CASE tick'.pruned = tick.pruned \cup {d} /\ tick'.used = tick.used - 1
      <4>1. Cardinality(tick'.pruned) <= Cardinality(tick.pruned) + 1 /\ Cardinality(tick'.pruned) \in Nat
        BY <3>1, <3>2, <3>3
      <4> QED
        BY <1>3, <2>1, <2>2, <2>7, <3>1, <3>2, <3>3, <4>1
    <3>4. CASE tick'.pruned = tick.pruned /\ tick'.used = tick.used
      BY <1>3, <2>1, <2>2, <2>7, <3>1, <3>4
    <3> QED
      BY <2>7, <3>3, <3>4
  <2>10. LiveWorkspaceIsLastResort'
    <3> SUFFICES ASSUME NEW r \in Runs, r \in tick'.pruned
                 PROVE  OldNames \subseteq tick'.pruned \cup tick'.failed
      BY DEF LiveWorkspaceIsLastResort, OldNames
    <3>1. CASE r \in tick.pruned
      BY <2>7, <3>1 DEF TickInv, LiveWorkspaceIsLastResort, OldNames
    <3>2. CASE r = d
      <4>1. OldDirs \in Seq(OldNames) /\ r \notin OldNames
        BY NamesAssumption
      <4>2. \A k \in 1..Len(OldDirs): tick.list[k] = OldDirs[k] /\ OldDirs[k] \in OldNames
        BY <2>2, <4>1 DEF Prefixed
      <4>3. tick.i > Len(OldDirs)
        BY <2>2, <3>2, <4>1, <4>2 DEF d
      <4>4. \A k \in 1..Len(OldDirs): k \in 1..Len(tick.list) /\ k < tick'.i
        BY <2>1, <2>2, <2>7, <4>1, <4>3
      <4>5. \A k \in 1..Len(OldDirs): OldDirs[k] \in tick'.pruned \cup tick'.failed
        BY <2>8, <4>2, <4>4
      <4> QED
        BY <4>1, <4>5 DEF OldNames
    <3> QED
      BY <2>7, <3>1, <3>2
  <2>11. Prefixed(tick.list)'
    BY <2>2, <2>7 DEF Prefixed
  <2>12. tick'.i >= 1 /\ tick'.probed >= EvictAt
    BY <1>1, <2>2, <2>7 DEF TickInv
  <2>13. TickInv'
    BY <2>7, <2>8, <2>9, <2>10, <2>11, <2>12 DEF TickInv
  <2> QED
    BY <1>1, <2>5, <2>6, <2>13, TickStep
<1> QED
  BY <1>a, <1>b

-----------------------------------------------------------------------------
\* The first state: nothing started, nothing on the host but the leftovers.
LEMMA InitHolds ==
    ASSUME Init
    PROVE  IInv
<1> USE DEF Init
<1>1. OldDirs \in Seq(OldNames)
  BY NamesAssumption
<1>2. TypeOK
  <2>1. tick \in TickShape
    BY DEF TickShape
  <2>2. OldDirs \in Seq(OldNames \cup Runs)
    BY <1>1
  <2>3. 0 \in 0..(MaxRetries + MaxAttempts)
    BY BoundsAssumption
  <2>4. pc \in [Runs -> Labels]
    BY DEF Labels
  <2> QED
    BY <2>1, <2>2, <2>3, <2>4 DEF TypeOK
<1>3. RunInv
  BY BoundsAssumption DEF RunInv, RunOK, Before, Starting, Waiting, Ran
<1>4. ContInv
  BY DEF ContInv
<1>5. HelperInv
  BY NamesAssumption DEF HelperInv
<1>6. TickInv
  <2>1. Cardinality({}) = 0 /\ IsFiniteSet({})
    BY FS_EmptySet
  <2>2. Prefixed(dirs)
    BY <1>1 DEF Prefixed
  <2>3. LiveWorkspaceIsLastResort
    BY DEF LiveWorkspaceIsLastResort
  <2> QED
    BY <2>1, <2>2, <2>3, BoundsAssumption DEF TickInv
<1> QED
  BY <1>2, <1>3, <1>4, <1>5, <1>6 DEF IInv

\* Nothing happens.
LEMMA Stutter ==
    ASSUME IInv, UNCHANGED vars
    PROVE  IInv'
<1>1. UNCHANGED <<inp, pc, target, tries, exit, status, stored, cid, dirs, conts, last, helper,
                  tick, faults, execs, cleaned, foreign, overlap>>
  BY DEF vars, runVars, hostVars, history
<1>2. TypeOK'
  BY <1>1 DEF IInv, TypeOK
<1>3. RunInv' /\ ContInv' /\ HelperInv'
  BY <1>1 DEF IInv, RunInv, RunOK, ContInv, HelperInv
<1>4. TickInv'
  BY <1>1 DEF IInv, TickInv, Prefixed, LiveWorkspaceIsLastResort
<1> QED
  BY <1>2, <1>3, <1>4 DEF IInv

\* What every place of a run has established, who owns what on the host, and
\* what the scheduler has dealt with hold throughout, for every number of runs
\* and every retry bound, eviction line and set of leftovers.
THEOREM ExecutionInvariant == Spec => []IInv
<1>1. IInv /\ [Next]_vars => IInv'
  <2> SUFFICES ASSUME IInv, [Next]_vars PROVE IInv'
    OBVIOUS
  <2>1. ASSUME NEW r \in Runs, RunStep(r) PROVE IInv'
    BY <2>1, StepResolve, StepWait, StepQuota, StepSsh, StepSshResult, StepDaemon, StepBuild,
       StepDocker, StepDockerResult, StepDockerCleanup, StepCleanup, StepVault, StepLegacy,
       StepLegacyResult, StepInject, StepPush, StepUncred, StepUpload, StepLegacyCleanup, StepLost
       DEF RunStep
  <2>2. CASE Tick
    BY <2>2, StepProbe, StepList, StepPrune DEF Tick
  <2>3. CASE credential_ttl
    BY <2>3, StepTtl
  <2>4. CASE UNCHANGED vars
    BY <2>4, Stutter
  <2> QED
    BY <2>1, <2>2, <2>3, <2>4 DEF Next
<1> QED
  BY <1>1, InitHolds, PTL DEF Spec

\* A run that reports passed ran its command to exit code 0 with its logs
\* stored, and no command is started again without a fault or beyond the retry
\* policy: VerdictIsEarned in every reachable state.
THEOREM VerdictEarned == Spec => []VerdictIsEarned
<1>1. IInv => VerdictIsEarned
  <2> SUFFICES ASSUME IInv PROVE VerdictIsEarned
    OBVIOUS
  <2>1. \A r \in Runs: RunOK(r)
    BY DEF IInv, RunInv
  <2>2. PassedMeansProven
    BY <2>1 DEF PassedMeansProven, RunOK
  <2>3. RerunNeedsFault
    BY <2>1 DEF RerunNeedsFault, RunOK
  <2> QED
    BY <2>2, <2>3 DEF VerdictIsEarned, IInv
<1> QED
  BY <1>1, ExecutionInvariant, PTL

\* What is left on the shared host: failed workspaces are kept, containers and
\* credentials go with their run unless a fault or an overlap explains them, and
\* a tick prunes no more than the probe allows and live workspaces last:
\* HostIsLeftClean in every reachable state.
THEOREM HostLeftClean == Spec => []HostIsLeftClean
<1>1. IInv => HostIsLeftClean
  <2> SUFFICES ASSUME IInv PROVE HostIsLeftClean
    OBVIOUS
  <2>1. FailedWorkspaceIsKept
    BY DEF IInv, RunInv, RunOK, FailedWorkspaceIsKept
  <2>2. ForeignContainerNeedsCause /\ ContainersAreRemoved
    BY DEF IInv, ContInv, ForeignContainerNeedsCause, ContainersAreRemoved
  <2>3. CredentialsDoNotOutliveRun
    BY DEF IInv, HelperInv, CredentialsDoNotOutliveRun
  <2>4. PruningIsBounded
    <3>1. /\ IsFiniteSet(tick.pruned) /\ Cardinality(tick.pruned) \in Nat
          /\ tick.used + Cardinality(tick.pruned) <= tick.probed
          /\ tick.pruned # {} => tick.probed >= EvictAt /\ tick.used + 1 >= EvictAt
      BY FS_CardinalityType DEF IInv, TickInv
    <3>2. tick.used \in Nat /\ tick.probed \in Nat /\ EvictAt \in Nat
      BY BoundsAssumption DEF IInv, TypeOK, TickShape
    <3>3. tick.pruned = {} => Cardinality(tick.pruned) = 0
      BY FS_EmptySet
    <3> QED
      BY <3>1, <3>2, <3>3 DEF PruningIsBounded
  <2>5. LiveWorkspaceIsLastResort
    BY DEF IInv, TickInv
  <2> QED
    BY <2>1, <2>2, <2>3, <2>4, <2>5 DEF HostIsLeftClean
<1> QED
  BY <1>1, ExecutionInvariant, PTL
=============================================================================
