--------------------------- MODULE TaskScheduler ---------------------------
(***************************************************************************)
(* Background tasks (modules/task): application instances that share one   *)
(* database register a cron entry for a running task (Scheduler), admin    *)
(* requests start, stop, change and delete it inside the framework's       *)
(* request transaction (InfoService), and the callback of an entry takes   *)
(* an execution lease in the task's row, renews it while the target runs   *)
(* and releases it by token (Executor).                                    *)
(*                                                                         *)
(* One task: tasks share nothing but the scheduler's mutex, which is only  *)
(* held for single steps of this model.  The request transaction keeps the *)
(* row locked from its first write to its end and the executor's           *)
(* transactions wait for that lock, so at most one request is under way.   *)
(* gcron is external: it fires live entries, and a singleton entry never   *)
(* overlaps itself.  nextRunTime is written for display only.              *)
(***************************************************************************)
EXTENDS Naturals, FiniteSets

CONSTANTS
  Instances,      \* application processes
  Names,          \* entry names; entryName never repeats one in use
  None,           \* no entry, no instance
  LeaseDuration,  \* Executor.lease
  RenewInterval,  \* Executor.renewInterval
  MaxEvents,      \* bound: requests, manual executions and faults together
  MaxFaults       \* bound: rollbacks, failed calls, shutdowns and crashes

ASSUME TaskAssumption ==
  /\ None \notin Names /\ None \notin Instances
  /\ LeaseDuration \in Nat /\ RenewInterval \in Nat \ {0}
  /\ RenewInterval < LeaseDuration
  /\ MaxEvents \in Nat /\ MaxFaults \in Nat

VARIABLES
  status,   \* committed: "new" (not inserted), "stopped", "running", "deleted"
  lease,    \* lockToken and the time left until lockExpireTime; a token is
            \* fresh random, so it stands for the execution that drew it
  request,  \* the admin request whose transaction is open
  entries,  \* entries[i]: Scheduler.entries of instance i for the task
  cron,     \* cron[i]: names of the entries live in gcron
  jobs,     \* callbacks and manual executions under way
  mode,     \* mode[i]: where the process is in its life
  timely,   \* TRUE: in this behaviour clocks agree and heartbeats are on time
  events,   \* requests, manual executions and faults so far
  faults    \* faults so far

vars == <<status, lease, request, entries, cron, jobs, mode, timely, events, faults>>

Idle == [pc |-> "idle", inst |-> None, draft |-> "new"]

Job == [inst      : Instances,
        name      : Names \cup {None},   \* None: a manual execution
        stage     : {"fired", "running", "settle", "drop"},
        cancelled : BOOLEAN,             \* execCtx is done
        since     : Nat]                 \* time since the last renewal

TypeOK ==
  /\ status \in {"new", "stopped", "running", "deleted"}
  /\ lease \in [token : (Instances \cup {None}) \X (Names \cup {None}), left : 0 .. LeaseDuration]
  /\ request \in [pc : {"idle", "written", "cleared", "synced"},
                  inst : Instances \cup {None},
                  draft : {"new", "stopped", "running", "deleted"}]
  /\ entries \in [Instances -> Names \cup {None}]
  /\ cron \in [Instances -> SUBSET Names]
  /\ jobs \in SUBSET Job
  /\ mode \in [Instances -> {"down", "loading", "up", "stopping"}]
  /\ timely \in BOOLEAN
  /\ events \in 0 .. MaxEvents
  /\ faults \in 0 .. MaxFaults

Init ==
  /\ status \in {"new", "stopped", "running"}
  /\ lease = [token |-> <<None, None>>, left |-> 0]
  /\ request = Idle
  /\ entries = [i \in Instances |-> None]
  /\ cron = [i \in Instances |-> {}]
  /\ jobs = {}
  /\ mode = [i \in Instances |-> "down"]
  /\ timely \in BOOLEAN
  /\ events = 0
  /\ faults = 0

Event == events < MaxEvents /\ events' = events + 1 /\ UNCHANGED faults

Fault ==
  /\ events < MaxEvents /\ faults < MaxFaults
  /\ events' = events + 1 /\ faults' = faults + 1

Exists == status \in {"stopped", "running"}

RowFree == request.pc = "idle"

JobsOf(i) == {j \in jobs : j.inst = i}

----------------------------------------------------------------------------
(* The registry of one instance.                                           *)

\* Mutant of Remove: the entry is forgotten and stays live in gcron.
RemoveFromMap(i) ==
  /\ UNCHANGED cron
  /\ entries' = [entries EXCEPT ![i] = None]

\* Scheduler.Remove: the registered entry goes, the others stay.
Remove(i) ==
  /\ cron' = [cron EXCEPT ![i] = @ \ {entries[i]}]
  /\ entries' = [entries EXCEPT ![i] = None]

Unused(i) ==
  {n \in Names : n \notin cron[i] /\ n # entries[i] /\ \A j \in JobsOf(i) : j.name # n}

UnusedName(i) == CHOOSE n \in Unused(i) : TRUE

\* The second half of Scheduler.register, after its Remove.  The code never
\* runs out of names, and neither do the runs.
AddSingleton(i) ==
  /\ Unused(i) # {}
  /\ cron' = [cron EXCEPT ![i] = @ \cup {UnusedName(i)}]
  /\ entries' = [entries EXCEPT ![i] = UnusedName(i)]

----------------------------------------------------------------------------
(* Admin requests.  The status is written first, in the transaction.       *)

Write(i, s) ==
  /\ RowFree
  /\ mode[i] = "up"
  /\ Event
  /\ request' = [pc |-> "written", inst |-> i, draft |-> s]
  /\ UNCHANGED <<status, lease, entries, cron, jobs, mode, timely>>

Add(i, s) == status = "new" /\ Write(i, s)

Update(i, s) == Exists /\ Write(i, s)

Start(i) == Exists /\ Write(i, "running")

Stop(i) == Exists /\ Write(i, "stopped")

Delete(i) == Exists /\ Write(i, "deleted")

\* Sync reads the transaction's own write: the entry is removed in any
\* case, and for a running task register goes on to add a new one.
Sync ==
  /\ request.pc = "written"
  /\ Remove(request.inst)
  /\ request' = [request EXCEPT !.pc = IF request.draft = "running" THEN "cleared" ELSE "synced"]
  /\ UNCHANGED <<status, lease, jobs, mode, timely, events, faults>>

Register ==
  /\ request.pc = "cleared"
  /\ AddSingleton(request.inst)
  /\ request' = [request EXCEPT !.pc = "synced"]
  /\ UNCHANGED <<status, lease, jobs, mode, timely, events, faults>>

Commit ==
  /\ request.pc = "synced"
  /\ status' = request.draft
  /\ request' = Idle
  /\ UNCHANGED <<lease, entries, cron, jobs, mode, timely, events, faults>>

\* An invalid rule, a failed statement or a failed commit: the row keeps
\* its committed state, the registry keeps what was done to it.
Rollback ==
  /\ request.pc # "idle"
  /\ Fault
  /\ request' = Idle
  /\ UNCHANGED <<status, lease, entries, cron, jobs, mode, timely>>

----------------------------------------------------------------------------
(* Triggers.                                                               *)

NewJob(i, n) ==
  jobs' = jobs \cup {[inst |-> i, name |-> n, stage |-> "fired",
                      cancelled |-> FALSE, since |-> 0]}

CronFire(i, n) ==
  /\ n \in cron[i]
  /\ \A j \in JobsOf(i) : j.name # n
  /\ NewJob(i, n)
  /\ UNCHANGED <<status, lease, request, entries, cron, mode, timely, events, faults>>

Once(i) ==
  /\ mode[i] = "up"
  /\ Event
  /\ \A j \in JobsOf(i) : j.name # None
  /\ NewJob(i, None)
  /\ UNCHANGED <<status, lease, request, entries, cron, mode, timely>>

----------------------------------------------------------------------------
(* Executor.execute.                                                       *)

Become(j, new) == jobs' = (jobs \ {j}) \cup {new}

End(j) == jobs' = jobs \ {j}

\* Mutant of Gone: the status is not looked at.
GoneIfDeleted(j) == ~Exists

\* claim finds no task to run: gone, or stopped for a scheduled trigger.
Gone(j) == IF j.name = None THEN ~Exists ELSE status # "running"

ClaimRemoved(j) ==
  /\ j.stage = "fired"
  /\ RowFree
  /\ Gone(j)
  /\ IF j.name = None THEN End(j) ELSE Become(j, [j EXCEPT !.stage = "drop"])
  /\ UNCHANGED <<status, lease, request, entries, cron, mode, timely, events, faults>>

\* Mutant of LeaseHeld: the lease is not looked at.
LeaseNeverHeld == {FALSE}

\* leaseHeld compares lockExpireTime with the clock of the instance: an
\* instance whose clock is off sees a running lease as over, or the reverse.
LeaseHeld == IF timely \/ lease.left = 0 THEN {lease.left > 0} ELSE BOOLEAN

\* The lease is held, or the moment is outside the task's start and end.
ClaimSkipped(j) ==
  /\ j.stage = "fired"
  /\ RowFree
  /\ ~Gone(j)
  /\ End(j)
  /\ UNCHANGED <<status, lease, request, entries, cron, mode, timely, events, faults>>

\* newLeaseToken: an instance runs one callback per entry and one manual
\* execution at a time, so these two name the execution.
Token(j) == <<j.inst, j.name>>

Taken(j) == [token |-> Token(j), left |-> LeaseDuration]

Claim(j) ==
  /\ j.stage = "fired"
  /\ RowFree
  /\ ~Gone(j)
  /\ FALSE \in LeaseHeld
  /\ lease' = Taken(j)
  /\ Become(j, [j EXCEPT !.stage = "running"])
  /\ UNCHANGED <<status, request, entries, cron, mode, timely, events, faults>>

\* The claim transaction fails, before or after its commit took effect.
ClaimFails(j) ==
  /\ j.stage = "fired"
  /\ RowFree
  /\ Fault
  /\ lease' \in {lease} \cup (IF ~Gone(j) /\ FALSE \in LeaseHeld THEN {Taken(j)} ELSE {})
  /\ End(j)
  /\ UNCHANGED <<status, request, entries, cron, mode, timely>>

\* Mutant of OwnsLease: the token is not compared.
OwnsAnyLease(j) == Exists

\* UPDATE ... WHERE id = ? AND lockToken = ?
OwnsLease(j) == Exists /\ lease.token = Token(j)

Renew(j) ==
  /\ j.stage = "running"
  /\ ~j.cancelled
  /\ RowFree
  /\ OwnsLease(j)
  /\ lease' = [lease EXCEPT !.left = LeaseDuration]
  /\ Become(j, [j EXCEPT !.since = 0])
  /\ UNCHANGED <<status, request, entries, cron, mode, timely, events, faults>>

\* The lease was taken over, or the renewal failed: execCtx is cancelled.
RenewFails(j) ==
  /\ j.stage = "running"
  /\ ~j.cancelled
  /\ IF RowFree /\ ~OwnsLease(j) THEN UNCHANGED <<events, faults>> ELSE Fault
  /\ Become(j, [j EXCEPT !.cancelled = TRUE])
  /\ UNCHANGED <<status, lease, request, entries, cron, mode, timely>>

\* The target returns or panics; the heartbeat is stopped and waited for.
Return(j) ==
  /\ j.stage = "running"
  /\ Become(j, [j EXCEPT !.stage = "settle"])
  /\ UNCHANGED <<status, lease, request, entries, cron, mode, timely, events, faults>>

\* Releasing clears lockExpireTime and leaves lockToken.
Settle(j) ==
  /\ j.stage = "settle"
  /\ RowFree
  /\ lease' = IF OwnsLease(j) THEN [lease EXCEPT !.left = 0] ELSE lease
  /\ End(j)
  /\ UNCHANGED <<status, request, entries, cron, mode, timely, events, faults>>

SettleFails(j) ==
  /\ j.stage = "settle"
  /\ Fault
  /\ End(j)
  /\ UNCHANGED <<status, lease, request, entries, cron, mode, timely>>

\* Scheduler.run after claim reported the task removed.
SelfRemove(j) ==
  /\ j.stage = "drop"
  /\ Remove(j.inst)
  /\ End(j)
  /\ UNCHANGED <<status, lease, request, mode, timely, events, faults>>

----------------------------------------------------------------------------
(* The life of an instance, and time.                                      *)

\* OnStart: Load reads the running tasks ...
Boot(i) ==
  /\ mode[i] = "down"
  /\ mode' = [mode EXCEPT ![i] = IF status = "running" THEN "loading" ELSE "up"]
  /\ UNCHANGED <<status, lease, request, entries, cron, jobs, timely, events, faults>>

\* ... and registers them.
LoadRegister(i) ==
  /\ mode[i] = "loading"
  /\ AddSingleton(i)
  /\ mode' = [mode EXCEPT ![i] = "up"]
  /\ UNCHANGED <<status, lease, request, jobs, timely, events, faults>>

\* OnStop, once the transports have ended their requests.
Shutdown(i) ==
  /\ mode[i] = "up"
  /\ request.inst # i
  /\ Fault
  /\ Remove(i)
  /\ mode' = [mode EXCEPT ![i] = "stopping"]
  /\ UNCHANGED <<status, lease, request, jobs, timely>>

Exit(i) ==
  /\ mode[i] = "stopping"
  /\ JobsOf(i) = {}
  /\ mode' = [mode EXCEPT ![i] = "down"]
  /\ UNCHANGED <<status, lease, request, entries, cron, jobs, timely, events, faults>>

\* The process dies, also when the shutdown deadline passes.
Crash(i) ==
  /\ mode[i] # "down"
  /\ Fault
  /\ request' = IF request.inst = i THEN Idle ELSE request
  /\ entries' = [entries EXCEPT ![i] = None]
  /\ cron' = [cron EXCEPT ![i] = {}]
  /\ jobs' = jobs \ JobsOf(i)
  /\ mode' = [mode EXCEPT ![i] = "down"]
  /\ UNCHANGED <<status, lease, timely>>

\* Heartbeats on time: no target runs longer than RenewInterval without a
\* renewal, and a cancelled one returns at once.
OnTime(j) == j.stage = "running" => ~j.cancelled /\ j.since < RenewInterval

Later(j) ==
  IF j.stage = "running" /\ timely THEN [j EXCEPT !.since = @ + 1] ELSE j

Tick ==
  /\ lease.left > 0
  /\ timely => \A j \in jobs : OnTime(j)
  /\ lease' = [lease EXCEPT !.left = @ - 1]
  /\ jobs' = {Later(j) : j \in jobs}
  /\ UNCHANGED <<status, request, entries, cron, mode, timely, events, faults>>

----------------------------------------------------------------------------

Requests(i) ==
  \/ Start(i) \/ Stop(i) \/ Delete(i)
  \/ \E s \in {"stopped", "running"} : Add(i, s) \/ Update(i, s)

JobSteps(j) ==
  \/ ClaimRemoved(j) \/ ClaimSkipped(j) \/ Claim(j)
  \/ Return(j) \/ Settle(j) \/ SelfRemove(j)

Next ==
  \/ \E i \in Instances : Requests(i)
  \/ Sync \/ Register \/ Commit \/ Rollback
  \/ \E i \in Instances : \E n \in Names : CronFire(i, n)
  \/ \E i \in Instances : Once(i) \/ Boot(i) \/ LoadRegister(i)
  \/ \E i \in Instances : Shutdown(i) \/ Exit(i) \/ Crash(i)
  \/ \E j \in jobs : JobSteps(j)
  \/ \E j \in jobs : Renew(j) \/ RenewFails(j) \/ ClaimFails(j) \/ SettleFails(j)
  \/ Tick

Spec == Init /\ [][Next]_vars

(* Fairness: a request in progress ends, every live entry fires again, and *)
(* callbacks go on (the target returns).                                   *)
FairSpec ==
  /\ Spec
  /\ WF_vars(Sync \/ Register \/ Commit)
  /\ \A i \in Instances : /\ \A n \in Names : WF_vars(CronFire(i, n))
                          /\ WF_vars(LoadRegister(i))
                          /\ WF_vars(\E j \in JobsOf(i) : JobSteps(j))

----------------------------------------------------------------------------
(* Properties.                                                             *)

\* No entry is leaked: whatever requests, rollbacks, restarts and callbacks
\* in flight do, the only live cron entry of the task is the one the
\* scheduler can still remove, so a task never fires twice per period.
OneEntryPerTask ==
  \A i \in Instances :
    cron[i] = IF entries[i] = None THEN {} ELSE {entries[i]}

\* With clocks that agree and heartbeats on time the target of the task
\* runs at most once at a time over all instances, scheduled and manual
\* executions together.
OneRunAtATime ==
  timely => \A j, k \in jobs : (j.stage = "running" /\ k.stage = "running") => j = k

\* An execution that lost its lease, even one whose clock was wrong, can
\* neither release nor extend the lease of its successor: a lease is cut
\* short or extended by its own execution only, unless a new claim replaces
\* it, which clocks that agree prevent while it runs.
LeaseStep ==
  lease.left > 0 =>
    \/ ~timely /\ \E j \in jobs : j.stage = "fired" /\ lease' = Taken(j)
    \/ lease' = lease
    \/ lease' = [lease EXCEPT !.left = @ - 1]
    \/ /\ lease'.token = lease.token
       /\ \E j \in jobs : Token(j) = lease.token /\ j.stage \in {"running", "settle"}

LeaseEndedByOwner == [][LeaseStep]_vars

\* An entry that was left behind, by a rollback or by a stop on another
\* instance, unregisters itself when it fires.
ResidualEntryGoes ==
  \A i \in Instances :
    (status # "running" /\ entries[i] # None) ~> (status = "running" \/ entries[i] = None)

\* While nothing is under way, a running task has its entry: the callback
\* of an entry that is being replaced takes only itself out of the registry.
Quiet == jobs = {} /\ request = Idle /\ \A i \in Instances : mode[i] = "up"

RunningTaskIsScheduled ==
  (Quiet /\ status = "running") => \E i \in Instances : entries[i] # None
=============================================================================
