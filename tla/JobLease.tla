------------------------------ MODULE JobLease ------------------------------
(***************************************************************************)
(* The lease under which one copy of the backend runs the background tasks *)
(* (src/src/jobs/scheduled.job.ts, src/src/jobs/job-lease.ts).             *)
(*                                                                         *)
(* Every copy tries at its start and at every interval to take or to renew *)
(* the lease, and runs a pass of the tasks if it has it. Time passes in    *)
(* ticks; a copy acts at the tick its timer is due, in any order with the  *)
(* others that are due.                                                    *)
(***************************************************************************)
EXTENDS Integers, FiniteSets

CONSTANTS
    Copy,       \* copies of the backend
    Nobody,     \* holder of a lease no living process has
    Interval,   \* INTERVAL_MS, in ticks
    LeaseTicks, \* LEASE_MS, in ticks
    MaxPass,    \* bound: the longest pass, in ticks
    MaxFaults   \* bound: crashes, stops and database errors

ASSUME JobLeaseAssumption ==
    /\ Nobody \notin Copy
    /\ Interval \in Nat \ {0} /\ LeaseTicks \in Nat \ {0}
    /\ MaxPass \in Nat /\ MaxFaults \in Nat

VARIABLES
    lease,     \* the row of JobLease: its holder, the ticks to its end
    copy,      \* the copies
    faults,
    orphaned   \* history: for each copy, the ticks a lease nobody can renew has
               \* been in the way of it while it was up and in no pass

leaseVars == <<lease, copy, faults, orphaned>>

\* until < now(): the tick at which a lease ends is still the holder's.
Over == -1

NoTimer == Interval + 1

\* passes counts the calls of runTasks in progress, spent the ticks of the last.
Down == [up |-> FALSE, timer |-> NoTimer, passes |-> 0, spent |-> 0]

Polls(c) == copy[c].timer # NoTimer

-----------------------------------------------------------------------------

\* Slip: a lease that is over stays with its holder.
free_mine(h) == lease.holder = h

free(h) == lease.left = Over \/ lease.holder = h

leased(h) == [holder |-> h, left |-> LeaseTicks]

\* Slip: the flag of a pass in progress is not looked at.
running_unseen(c) == FALSE

running(c) == copy[c].passes > 0

\* Slip: the timer is set anew by a pass only, not when the turn is left to others.
Waits_not(c) == copy' = [copy EXCEPT ![c].timer = NoTimer]

Waits(c) == copy' = [copy EXCEPT ![c].timer = Interval]

\* The timer is due while the last pass is still on.
SkipPass(c) ==
    /\ copy[c].timer = 0
    /\ running(c)
    /\ Waits(c)
    /\ UNCHANGED <<lease, faults, orphaned>>

\* The lease is taken or renewed in one statement, and the tasks run.
StartPass(c) ==
    /\ copy[c].timer = 0
    /\ ~running(c)
    /\ free(c)
    /\ lease' = leased(c)
    /\ copy' = [copy EXCEPT ![c].timer = Interval, ![c].passes = @ + 1, ![c].spent = 0]
    /\ orphaned' = [d \in Copy |-> 0]
    /\ UNCHANGED faults

\* Another copy has the lease.
LeaveToHolder(c) ==
    /\ copy[c].timer = 0
    /\ ~running(c)
    /\ ~free(c)
    /\ Waits(c)
    /\ UNCHANGED <<lease, faults, orphaned>>

\* The database does not answer: the next interval is the next try.
LeaseFails(c) ==
    /\ copy[c].timer = 0
    /\ ~running(c)
    /\ faults < MaxFaults
    /\ faults' = faults + 1
    /\ Waits(c)
    /\ orphaned' = [orphaned EXCEPT ![c] = 0]
    /\ UNCHANGED lease

ended(passes) == passes - 1

\* runTasks has gone through the tasks, whatever became of each.
FinishPass(c) ==
    /\ running(c)
    /\ copy' = [copy EXCEPT ![c].passes = ended(@), ![c].spent = 0]
    /\ UNCHANGED <<lease, faults, orphaned>>

onApplicationBootstrap(c) ==
    /\ ~copy[c].up
    /\ copy' = [copy EXCEPT ![c] = [Down EXCEPT !.up = TRUE, !.timer = 0]]
    /\ UNCHANGED <<lease, faults, orphaned>>

\* The timer is cleared; a pass in progress goes on until the process exits.
onModuleDestroy(c) ==
    /\ copy[c].up
    /\ Polls(c)
    /\ faults < MaxFaults
    /\ faults' = faults + 1
    /\ copy' = [copy EXCEPT ![c].timer = NoTimer]
    /\ orphaned' = [orphaned EXCEPT ![c] = 0]
    /\ UNCHANGED lease

\* A process ends. A new one has a new id: nobody can renew the old one's lease.
Exits(c) ==
    /\ copy' = [copy EXCEPT ![c] = Down]
    /\ lease' = IF lease.holder = c THEN [lease EXCEPT !.holder = Nobody] ELSE lease
    /\ orphaned' = [orphaned EXCEPT ![c] = 0]

Crash(c) ==
    /\ copy[c].up
    /\ faults < MaxFaults
    /\ faults' = faults + 1
    /\ Exits(c)

Exit(c) ==
    /\ copy[c].up
    /\ ~Polls(c)
    /\ Exits(c)
    /\ UNCHANGED faults

\* Bound: where the count of orphaned ends.
TooLate == LeaseTicks + Interval + 1

\* The copy is up and its next timer will try for the lease.
Tries(c) == Polls(c) /\ ~running(c)

\* A tick passes once every copy whose timer is due has acted, and no pass is
\* longer than MaxPass, which may be longer than the lease: nothing in the code
\* bounds a pass by it.
Tick ==
    /\ \A c \in Copy : copy[c].timer > 0 /\ (copy[c].passes > 0 => copy[c].spent < MaxPass)
    /\ lease' = [lease EXCEPT !.left = IF @ = Over THEN Over ELSE @ - 1]
    /\ copy' = [c \in Copy |->
                  [copy[c] EXCEPT !.timer = IF Polls(c) THEN @ - 1 ELSE @,
                                  !.spent = IF copy[c].passes > 0 THEN @ + 1 ELSE 0]]
    /\ orphaned' = [c \in Copy |->
                      IF lease.holder = Nobody /\ Tries(c)
                      THEN IF orphaned[c] < TooLate THEN orphaned[c] + 1 ELSE TooLate
                      ELSE 0]
    /\ UNCHANGED faults

-----------------------------------------------------------------------------

LeaseInit ==
    /\ lease = [holder |-> Nobody, left |-> Over]
    /\ copy = [c \in Copy |-> Down]
    /\ faults = 0
    /\ orphaned = [c \in Copy |-> 0]

Run(c) == SkipPass(c) \/ StartPass(c) \/ LeaveToHolder(c)

LeaseNext ==
    \/ \E c \in Copy :
        \/ Run(c)
        \/ LeaseFails(c)
        \/ FinishPass(c)
        \/ onApplicationBootstrap(c)
        \/ onModuleDestroy(c)
        \/ Crash(c)
        \/ Exit(c)
    \/ Tick

\* setInterval fires, a pass ends (calls to platforms have timeouts), a process
\* that was told to stop stops and is started again, time passes.
LeaseFairness ==
    /\ WF_leaseVars(Tick)
    /\ \A c \in Copy :
        /\ WF_leaseVars(Run(c))
        /\ WF_leaseVars(FinishPass(c))
        /\ WF_leaseVars(onApplicationBootstrap(c))
        /\ WF_leaseVars(Exit(c))

LeaseSpec == LeaseInit /\ [][LeaseNext]_leaseVars /\ LeaseFairness

-----------------------------------------------------------------------------
(* Properties *)

\* Every variable holds a value of its kind; a lease is never longer than it says.
LeaseTypeOK ==
    /\ lease \in [holder : Copy \cup {Nobody}, left : Over..LeaseTicks]
    /\ copy \in [Copy -> [up : BOOLEAN, timer : 0..NoTimer, passes : Nat,
                          spent : 0..MaxPass]]
    /\ faults \in 0..MaxFaults
    /\ orphaned \in [Copy -> 0..TooLate]

\* The pass in progress has been on for longer than the lease it began under:
\* run renews a lease only between passes.
Outlived(c) == copy[c].passes > 0 /\ copy[c].spent > LeaseTicks

\* One copy runs the tasks, one pass at a time, or notifications would double
\* (ScheduledJob, run): two copies are in a pass at once only if the pass of one
\* of them has outlived its lease, and no copy is ever in two.
OnePass ==
    \A c, d \in Copy :
        copy[c].passes > 0 /\ copy[d].passes > 0 =>
            IF c = d THEN copy[c].passes = 1 ELSE Outlived(c) \/ Outlived(d)

\* One copy runs the tasks, without the exception.
OnePassAlways ==
    \A c, d \in Copy : copy[c].passes > 0 /\ copy[d].passes > 0 => c = d

\* The lease stays with its holder for as long as that lives and polls, so that
\* lastQueueReminder is not lost (ScheduledJob, acquireLease).
HolderKept ==
    [][\A c \in Copy : lease.holder = c /\ Polls(c) => lease'.holder \in {c, Nobody}]_leaseVars

\* A copy that is up and in no pass takes the tasks of a dead holder over within
\* the lease and one interval, a failed try apart (LEASE_MS, run).
TakenOver == \A c \in Copy : orphaned[c] <= LeaseTicks + Interval

\* A dead holder's tasks are taken over within the lease alone (LEASE_MS).
TakenOverInTime == \A c \in Copy : orphaned[c] <= LeaseTicks

\* Whatever stops or fails, a new pass begins again and again (run, acquireLease).
TasksRun == []<><<\E c \in Copy : StartPass(c)>>_leaseVars

=============================================================================
