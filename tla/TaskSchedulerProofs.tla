-------------------------- MODULE TaskSchedulerProofs --------------------------
(***************************************************************************)
(* Proofs about TaskScheduler, for any number of instances, requests,      *)
(* executions and faults, and every lease longer than its renewal.         *)
(***************************************************************************)
EXTENDS TaskScheduler, TLAPS

(* The inductive invariant.  OneEntryPerTask needs to know when a registry *)
(* is empty, OneRunAtATime that a running target on time owns a lease that *)
(* has not run out.                                                        *)

EmptyModes == {"down", "loading", "stopping"}

RequestAlive ==
  IF request.pc = "idle" THEN request = Idle
  ELSE request.inst \in Instances /\ mode[request.inst] = "up"

RegistryEmpty ==
  /\ \A i \in Instances : mode[i] \in EmptyModes => entries[i] = None
  /\ request.pc = "cleared" => entries[request.inst] = None

OneJobPerEntry ==
  \A j, k \in jobs : Token(j) = Token(k) => j = k

FiredIsNew == \A j \in jobs : j.stage = "fired" => j.since = 0

RunnerOwnsLease ==
  timely => \A j \in jobs : j.stage = "running" =>
    /\ lease.token = Token(j)
    /\ lease.left + j.since = LeaseDuration
    /\ j.since <= RenewInterval

Inv ==
  /\ TypeOK
  /\ RequestAlive
  /\ RegistryEmpty
  /\ OneEntryPerTask
  /\ OneJobPerEntry
  /\ FiredIsNew
  /\ RunnerOwnsLease

-----------------------------------------------------------------------------
(* Lemmas about the operators of the model.                                *)

LEMMA FaultFacts ==
  ASSUME TypeOK, \/ Event \/ Fault \/ UNCHANGED <<events, faults>>
  PROVE  events' \in 0 .. MaxEvents /\ faults' \in 0 .. MaxFaults
  BY TaskAssumption DEF TypeOK, Event, Fault, TaskAssumption

\* A new entry has a name of its own.
LEMMA UnusedFacts ==
  ASSUME NEW i \in Instances, Unused(i) # {}
  PROVE  UnusedName(i) \in Names
<1>1. UnusedName(i) \in Unused(i)
  BY DEF UnusedName
<1> QED
  BY <1>1 DEF Unused

\* Removing an entry, when at most the registered one is live, leaves none.
LEMMA RemoveFacts ==
  ASSUME TypeOK, OneEntryPerTask, NEW i \in Instances, Remove(i)
  PROVE  /\ entries' \in [Instances -> Names \cup {None}]
         /\ cron' \in [Instances -> SUBSET Names]
         /\ entries'[i] = None /\ cron'[i] = {}
         /\ \A o \in Instances \ {i} : entries'[o] = entries[o] /\ cron'[o] = cron[o]
  BY DEF TypeOK, OneEntryPerTask, Remove

\* Registering where nothing is registered leaves the one entry.
LEMMA AddFacts ==
  ASSUME TypeOK, OneEntryPerTask, NEW i \in Instances, AddSingleton(i), entries[i] = None
  PROVE  /\ entries' \in [Instances -> Names \cup {None}]
         /\ cron' \in [Instances -> SUBSET Names]
         /\ entries'[i] # None /\ cron'[i] = {entries'[i]}
         /\ \A o \in Instances \ {i} : entries'[o] = entries[o] /\ cron'[o] = cron[o]
<1>1. UnusedName(i) \in Names
  BY UnusedFacts DEF AddSingleton
<1> QED
  BY <1>1, TaskAssumption DEF TypeOK, OneEntryPerTask, AddSingleton, TaskAssumption

\* The lease a claim takes.
LEMMA TakenFacts ==
  ASSUME TypeOK, NEW j \in jobs
  PROVE  /\ Taken(j) \in [token : (Instances \cup {None}) \X (Names \cup {None}),
                          left : 0 .. LeaseDuration]
         /\ Taken(j).token = Token(j) /\ Taken(j).left = LeaseDuration
<1>1. j.inst \in Instances /\ j.name \in Names \cup {None}
  BY DEF TypeOK, Job
<1>2. LeaseDuration \in 0 .. LeaseDuration
  BY TaskAssumption DEF TaskAssumption
<1> QED
  BY <1>1, <1>2 DEF Taken, Token

-----------------------------------------------------------------------------
(* What keeps the invariant, by what a step does to the executions.        *)

\* Executions end or go on without running anew, and the lease is left alone.
LEMMA JobsGoOn ==
  ASSUME TypeOK, TypeOK', OneJobPerEntry, FiredIsNew, RunnerOwnsLease,
         UNCHANGED <<lease, timely>>,
         \A k \in jobs' : \E j \in jobs :
           /\ Token(k) = Token(j)
           /\ k.stage = "fired" => k.since = 0
           /\ k.stage = "running" => j.stage = "running" /\ k.since = j.since,
         \A k, l \in jobs' : Token(k) = Token(l) => k = l
  PROVE  OneJobPerEntry' /\ FiredIsNew' /\ RunnerOwnsLease'
<1>1. OneJobPerEntry'
  BY DEF OneJobPerEntry, Token
<1>2. FiredIsNew'
  BY DEF FiredIsNew
<1>3. RunnerOwnsLease'
  BY DEF RunnerOwnsLease, Token
<1> QED
  BY <1>1, <1>2, <1>3

\* Some executions end and nothing else changes for the others.
LEMMA JobsEnd ==
  ASSUME TypeOK, TypeOK', OneJobPerEntry, FiredIsNew, RunnerOwnsLease,
         UNCHANGED <<lease, timely>>, jobs' \subseteq jobs
  PROVE  OneJobPerEntry' /\ FiredIsNew' /\ RunnerOwnsLease'
  BY JobsGoOn DEF OneJobPerEntry, FiredIsNew, Token

\* One execution goes on to a later stage.
LEMMA JobMoves ==
  ASSUME TypeOK, TypeOK', OneJobPerEntry, FiredIsNew, RunnerOwnsLease,
         UNCHANGED <<lease, timely>>,
         NEW j \in jobs, NEW new \in Job, Become(j, new), Token(new) = Token(j),
         new.stage # "fired",
         new.stage = "running" => j.stage = "running" /\ new.since = j.since
  PROVE  OneJobPerEntry' /\ FiredIsNew' /\ RunnerOwnsLease'
<1>1. jobs' = (jobs \ {j}) \cup {new}
  BY DEF Become
<1>2. \A k \in jobs' : \E l \in jobs :
        /\ Token(k) = Token(l)
        /\ k.stage = "fired" => k.since = 0
        /\ k.stage = "running" => l.stage = "running" /\ k.since = l.since
  BY <1>1 DEF FiredIsNew
<1>3. \A k, l \in jobs' : Token(k) = Token(l) => k = l
  BY <1>1 DEF OneJobPerEntry
<1> QED
  BY <1>2, <1>3, JobsGoOn

\* An execution starts under a token no other one has.
LEMMA JobFires ==
  ASSUME TypeOK, TypeOK', OneJobPerEntry, FiredIsNew, RunnerOwnsLease,
         UNCHANGED <<lease, timely>>,
         NEW i \in Instances, NEW n \in Names \cup {None},
         \A j \in JobsOf(i) : j.name # n, NewJob(i, n)
  PROVE  OneJobPerEntry' /\ FiredIsNew' /\ RunnerOwnsLease'
<1> DEFINE new == [inst |-> i, name |-> n, stage |-> "fired", cancelled |-> FALSE, since |-> 0]
<1>1. jobs' = jobs \cup {new}
  BY DEF NewJob
<1>2. \A j \in jobs : Token(j) # Token(new)
  BY DEF Token, JobsOf
<1>3. new.stage = "fired" /\ new.since = 0
  OBVIOUS
<1> HIDE DEF new
<1>4. OneJobPerEntry'
  <2> SUFFICES ASSUME NEW j \in jobs', NEW k \in jobs', Token(j) = Token(k) PROVE j = k
    BY DEF OneJobPerEntry, Token
  <2> QED
    BY <1>1, <1>2 DEF OneJobPerEntry
<1>5. FiredIsNew'
  BY <1>1, <1>3 DEF FiredIsNew
<1>6. RunnerOwnsLease'
  BY <1>1, <1>3 DEF RunnerOwnsLease, Token
<1> QED
  BY <1>4, <1>5, <1>6

-----------------------------------------------------------------------------
(* The steps keep the types.                                               *)

\* What the steps do to one execution.
LEMMA JobFacts ==
  ASSUME TypeOK, NEW j \in jobs
  PROVE  /\ j \in Job /\ j.inst \in Instances /\ j.name \in Names \cup {None}
         /\ j.since \in Nat
         /\ \A s \in {"fired", "running", "settle", "drop"} :
              /\ [j EXCEPT !.stage = s] \in Job
              /\ [j EXCEPT !.stage = s].stage = s
              /\ [j EXCEPT !.stage = s].since = j.since
              /\ Token([j EXCEPT !.stage = s]) = Token(j)
         /\ /\ [j EXCEPT !.cancelled = TRUE] \in Job
            /\ [j EXCEPT !.cancelled = TRUE].stage = j.stage
            /\ [j EXCEPT !.cancelled = TRUE].since = j.since
            /\ Token([j EXCEPT !.cancelled = TRUE]) = Token(j)
         /\ /\ [j EXCEPT !.since = 0] \in Job
            /\ [j EXCEPT !.since = 0].stage = j.stage
            /\ [j EXCEPT !.since = 0].since = 0
            /\ Token([j EXCEPT !.since = 0]) = Token(j)
<1>1. j \in Job
  BY DEF TypeOK
<1>2. j.inst \in Instances /\ j.name \in Names \cup {None} /\ j.since \in Nat
  BY <1>1 DEF Job
<1>3. \A s \in {"fired", "running", "settle", "drop"} :
        /\ [j EXCEPT !.stage = s] \in Job
        /\ [j EXCEPT !.stage = s].stage = s
        /\ [j EXCEPT !.stage = s].since = j.since
        /\ Token([j EXCEPT !.stage = s]) = Token(j)
  BY <1>1 DEF Job, Token
<1>4. /\ [j EXCEPT !.cancelled = TRUE] \in Job
      /\ [j EXCEPT !.cancelled = TRUE].stage = j.stage
      /\ [j EXCEPT !.cancelled = TRUE].since = j.since
      /\ Token([j EXCEPT !.cancelled = TRUE]) = Token(j)
  BY <1>1 DEF Job, Token
<1>5. /\ [j EXCEPT !.since = 0] \in Job
      /\ [j EXCEPT !.since = 0].stage = j.stage
      /\ [j EXCEPT !.since = 0].since = 0
      /\ Token([j EXCEPT !.since = 0]) = Token(j)
  BY <1>1 DEF Job, Token
<1> QED
  BY <1>1, <1>2, <1>3, <1>4, <1>5

LEMMA NewJobType ==
  ASSUME TypeOK, NEW i \in Instances, NEW n \in Names \cup {None}, NewJob(i, n)
  PROVE  jobs' \in SUBSET Job
<1>1. [inst |-> i, name |-> n, stage |-> "fired", cancelled |-> FALSE, since |-> 0] \in Job
  BY DEF Job
<1> QED
  BY <1>1 DEF NewJob, TypeOK

LEMMA JobStepKeepsTypes ==
  ASSUME TypeOK, OneEntryPerTask, NEW j \in jobs,
         JobSteps(j) \/ Renew(j) \/ RenewFails(j) \/ ClaimFails(j) \/ SettleFails(j)
  PROVE  TypeOK'
<1> USE DEF TypeOK, Become, End
<1>j. /\ j \in Job /\ j.inst \in Instances
      /\ \A s \in {"fired", "running", "settle", "drop"} : [j EXCEPT !.stage = s] \in Job
      /\ [j EXCEPT !.cancelled = TRUE] \in Job
      /\ [j EXCEPT !.since = 0] \in Job
  BY JobFacts
<1>l. /\ LeaseDuration \in 0 .. LeaseDuration /\ 0 \in 0 .. LeaseDuration
  BY TaskAssumption DEF TaskAssumption
<1>f. events' \in 0 .. MaxEvents /\ faults' \in 0 .. MaxFaults
  <2>1. Fault \/ UNCHANGED <<events, faults>>
    BY DEF JobSteps, ClaimRemoved, ClaimSkipped, Claim, Return, Settle, SelfRemove, Renew,
           RenewFails, ClaimFails, SettleFails
  <2> QED
    BY <2>1, FaultFacts
<1>1. CASE ClaimRemoved(j)
  BY <1>1, <1>j, <1>f DEF ClaimRemoved
<1>2. CASE ClaimSkipped(j)
  BY <1>2, <1>f DEF ClaimSkipped
<1>3. CASE Claim(j)
  BY <1>3, <1>j, <1>f, TakenFacts DEF Claim
<1>4. CASE Return(j)
  BY <1>4, <1>j, <1>f DEF Return
<1>5. CASE Settle(j)
  BY <1>5, <1>l, <1>f DEF Settle
<1>6. CASE SelfRemove(j)
  BY <1>6, <1>j, <1>f, RemoveFacts DEF SelfRemove
<1>7. CASE Renew(j)
  BY <1>7, <1>j, <1>l, <1>f DEF Renew
<1>8. CASE RenewFails(j)
  BY <1>8, <1>j, <1>f DEF RenewFails
<1>9. CASE ClaimFails(j)
  <2>1. lease' = lease \/ lease' = Taken(j)
    BY <1>9 DEF ClaimFails
  <2>2. lease' \in [token : (Instances \cup {None}) \X (Names \cup {None}),
                    left : 0 .. LeaseDuration]
    BY <2>1, TakenFacts
  <2> QED
    BY <1>9, <1>f, <2>2 DEF ClaimFails
<1>10. CASE SettleFails(j)
  BY <1>10, <1>f DEF SettleFails
<1> QED
  BY <1>1, <1>2, <1>3, <1>4, <1>5, <1>6, <1>7, <1>8, <1>9, <1>10 DEF JobSteps

LEMMA StepKeepsTypes ==
  ASSUME TypeOK, OneEntryPerTask, RequestAlive, RegistryEmpty, [Next]_vars
  PROVE  TypeOK'
<1> USE DEF TypeOK
<1>1. ASSUME NEW i \in Instances, Requests(i) PROVE TypeOK'
  <2>1. PICK s \in {"stopped", "running", "deleted"} : Write(i, s)
    BY <1>1 DEF Requests, Start, Stop, Delete, Add, Update
  <2>2. events' \in 0 .. MaxEvents /\ faults' \in 0 .. MaxFaults
    BY <2>1, FaultFacts DEF Write
  <2> QED
    BY <2>1, <2>2 DEF Write
<1>2. CASE Sync
  <2>1. request.inst \in Instances
    BY <1>2 DEF Sync, RequestAlive
  <2> QED
    BY <1>2, <2>1, RemoveFacts DEF Sync
<1>3. CASE Register
  <2>1. request.inst \in Instances /\ entries[request.inst] = None
    BY <1>3 DEF Register, RequestAlive, RegistryEmpty
  <2> QED
    BY <1>3, <2>1, AddFacts DEF Register
<1>4. CASE Commit
  BY <1>4 DEF Commit, Idle
<1>5. CASE Rollback
  BY <1>5, FaultFacts DEF Rollback, Idle
<1>6. ASSUME NEW i \in Instances, NEW n \in Names, CronFire(i, n) PROVE TypeOK'
  BY <1>6, NewJobType DEF CronFire
<1>7. ASSUME NEW i \in Instances, Once(i) PROVE TypeOK'
  BY <1>7, FaultFacts, NewJobType DEF Once
<1>8. ASSUME NEW i \in Instances, Boot(i) PROVE TypeOK'
  BY <1>8 DEF Boot
<1>9. ASSUME NEW i \in Instances, LoadRegister(i) PROVE TypeOK'
  <2>1. entries[i] = None
    BY <1>9 DEF LoadRegister, RegistryEmpty, EmptyModes
  <2> QED
    BY <1>9, <2>1, AddFacts DEF LoadRegister
<1>10. ASSUME NEW i \in Instances, Shutdown(i) PROVE TypeOK'
  BY <1>10, FaultFacts, RemoveFacts DEF Shutdown
<1>11. ASSUME NEW i \in Instances, Exit(i) PROVE TypeOK'
  BY <1>11 DEF Exit
<1>12. ASSUME NEW i \in Instances, Crash(i) PROVE TypeOK'
  BY <1>12, FaultFacts DEF Crash, Idle
<1>13. ASSUME NEW j \in jobs,
              JobSteps(j) \/ Renew(j) \/ RenewFails(j) \/ ClaimFails(j) \/ SettleFails(j)
       PROVE  TypeOK'
  BY <1>13, JobStepKeepsTypes
<1>14. CASE Tick
  <2>1. \A j \in jobs : Later(j) \in Job
    BY DEF Later, Job
  <2>2. lease.left - 1 \in 0 .. LeaseDuration
    BY <1>14, TaskAssumption DEF Tick, TaskAssumption
  <2>3. jobs' = {Later(j) : j \in jobs} /\ lease' = [lease EXCEPT !.left = lease.left - 1]
    BY <1>14 DEF Tick
  <2> QED
    BY <1>14, <2>1, <2>2, <2>3 DEF Tick
<1>15. CASE UNCHANGED vars
  BY <1>15 DEF vars
<1> QED
  BY <1>1, <1>2, <1>3, <1>4, <1>5, <1>6, <1>7, <1>8, <1>9, <1>10, <1>11, <1>12, <1>13,
     <1>14, <1>15 DEF Next

-----------------------------------------------------------------------------
(* The steps keep the registry in order.                                   *)

Registry == RequestAlive /\ RegistryEmpty /\ OneEntryPerTask

LEMMA RegistryKept ==
  ASSUME Registry, UNCHANGED <<request, entries, cron, mode>>
  PROVE  Registry'
  BY DEF Registry, RequestAlive, RegistryEmpty, OneEntryPerTask

\* An entry is removed, whoever does it and wherever the request stands.
LEMMA RegistryRemoved ==
  ASSUME TypeOK, Registry, NEW i \in Instances, Remove(i), UNCHANGED mode,
         \/ request' = request
         \/ /\ request.pc # "idle" /\ request.inst = i
            /\ request'.pc # "idle" /\ request'.inst = i
  PROVE  Registry'
<1>1. /\ entries'[i] = None /\ cron'[i] = {}
      /\ \A o \in Instances \ {i} : entries'[o] = entries[o] /\ cron'[o] = cron[o]
  BY RemoveFacts DEF Registry
<1>2. RequestAlive'
  BY DEF Registry, RequestAlive
<1>3. RegistryEmpty'
  BY <1>1 DEF Registry, RegistryEmpty, RequestAlive
<1>4. OneEntryPerTask'
  BY <1>1 DEF Registry, OneEntryPerTask
<1> QED
  BY <1>2, <1>3, <1>4 DEF Registry

LEMMA StepKeepsRegistry ==
  ASSUME TypeOK, TypeOK', Registry, [Next]_vars
  PROVE  Registry'
<1> USE DEF Registry
<1>a. \A i \in Instances : None # i
  BY TaskAssumption DEF TaskAssumption
<1>1. ASSUME NEW i \in Instances, Requests(i) PROVE Registry'
  <2>1. PICK s \in {"stopped", "running", "deleted"} : Write(i, s)
    BY <1>1 DEF Requests, Start, Stop, Delete, Add, Update
  <2>2. /\ request' = [pc |-> "written", inst |-> i, draft |-> s]
        /\ mode[i] = "up" /\ UNCHANGED <<entries, cron, mode>>
    BY <2>1 DEF Write
  <2> QED
    BY <2>2 DEF RequestAlive, RegistryEmpty, OneEntryPerTask
<1>2. CASE Sync
  <2>1. /\ request.inst \in Instances /\ request.pc = "written"
        /\ Remove(request.inst) /\ UNCHANGED mode
    BY <1>2 DEF Sync, RequestAlive
  <2>2. request'.inst = request.inst /\ request'.pc \in {"cleared", "synced"}
    BY <1>2 DEF Sync, TypeOK
  <2> QED
    BY <2>1, <2>2, RegistryRemoved
<1>3. CASE Register
  <2>1. request.inst \in Instances /\ entries[request.inst] = None /\ mode[request.inst] = "up"
    BY <1>3 DEF Register, RequestAlive, RegistryEmpty
  <2>2. request'.inst = request.inst /\ request'.pc = "synced" /\ UNCHANGED mode
    BY <1>3 DEF Register, TypeOK
  <2>3. /\ entries'[request.inst] # None /\ cron'[request.inst] = {entries'[request.inst]}
        /\ \A o \in Instances \ {request.inst} : entries'[o] = entries[o] /\ cron'[o] = cron[o]
    BY <1>3, <2>1, AddFacts DEF Register
  <2>4. RequestAlive'
    BY <2>1, <2>2 DEF RequestAlive
  <2>5. RegistryEmpty'
    BY <2>1, <2>2, <2>3 DEF RegistryEmpty, EmptyModes
  <2>6. OneEntryPerTask'
    BY <2>3 DEF OneEntryPerTask
  <2> QED
    BY <2>4, <2>5, <2>6
<1>4. CASE Commit \/ Rollback
  BY <1>4 DEF Commit, Rollback, Idle, RequestAlive, RegistryEmpty, OneEntryPerTask
<1>5. ASSUME NEW i \in Instances, NEW n \in Names, CronFire(i, n) PROVE Registry'
  BY <1>5, RegistryKept DEF CronFire
<1>6. ASSUME NEW i \in Instances, Once(i) PROVE Registry'
  BY <1>6, RegistryKept DEF Once
<1>7. ASSUME NEW i \in Instances, Boot(i) PROVE Registry'
  <2>1. mode[i] = "down" /\ UNCHANGED <<request, entries, cron>>
        /\ \A o \in Instances \ {i} : mode'[o] = mode[o]
    BY <1>7 DEF Boot, TypeOK
  <2> QED
    BY <2>1 DEF RequestAlive, RegistryEmpty, OneEntryPerTask, EmptyModes
<1>8. ASSUME NEW i \in Instances, LoadRegister(i) PROVE Registry'
  <2>1. /\ mode[i] = "loading" /\ mode'[i] = "up" /\ UNCHANGED request
        /\ \A o \in Instances \ {i} : mode'[o] = mode[o]
    BY <1>8 DEF LoadRegister, TypeOK
  <2>2. entries[i] = None
    BY <2>1 DEF RegistryEmpty, EmptyModes
  <2>3. /\ entries'[i] # None /\ cron'[i] = {entries'[i]}
        /\ \A o \in Instances \ {i} : entries'[o] = entries[o] /\ cron'[o] = cron[o]
    BY <1>8, <2>2, AddFacts DEF LoadRegister
  <2>4. RequestAlive'
    BY <2>1 DEF RequestAlive
  <2>5. RegistryEmpty'
    BY <2>1, <2>3 DEF RegistryEmpty, RequestAlive, EmptyModes
  <2>6. OneEntryPerTask'
    BY <2>3 DEF OneEntryPerTask
  <2> QED
    BY <2>4, <2>5, <2>6
<1>9. ASSUME NEW i \in Instances, Shutdown(i) PROVE Registry'
  <2>1. /\ request.inst # i /\ UNCHANGED request
        /\ \A o \in Instances \ {i} : mode'[o] = mode[o]
    BY <1>9 DEF Shutdown, TypeOK
  <2>2. /\ entries'[i] = None /\ cron'[i] = {}
        /\ \A o \in Instances \ {i} : entries'[o] = entries[o] /\ cron'[o] = cron[o]
    BY <1>9, RemoveFacts DEF Shutdown
  <2>4. RequestAlive'
    BY <2>1 DEF RequestAlive
  <2>5. RegistryEmpty'
    BY <2>1, <2>2 DEF RegistryEmpty, RequestAlive
  <2>6. OneEntryPerTask'
    BY <2>2 DEF OneEntryPerTask
  <2> QED
    BY <2>4, <2>5, <2>6
<1>10. ASSUME NEW i \in Instances, Exit(i) PROVE Registry'
  <2>1. mode[i] = "stopping" /\ UNCHANGED <<request, entries, cron>>
        /\ \A o \in Instances \ {i} : mode'[o] = mode[o]
    BY <1>10 DEF Exit, TypeOK
  <2> QED
    BY <2>1 DEF RequestAlive, RegistryEmpty, OneEntryPerTask, EmptyModes
<1>11. ASSUME NEW i \in Instances, Crash(i) PROVE Registry'
  <2>1. /\ request' = IF request.inst = i THEN Idle ELSE request
        /\ \A o \in Instances \ {i} :
             mode'[o] = mode[o] /\ entries'[o] = entries[o] /\ cron'[o] = cron[o]
        /\ entries'[i] = None /\ cron'[i] = {} /\ mode'[i] = "down"
    BY <1>11 DEF Crash, TypeOK
  <2>2. Idle.pc = "idle" /\ Idle.inst = None
    BY DEF Idle
  <2>4. RequestAlive'
    BY <2>1, <2>2 DEF RequestAlive
  <2>5. RegistryEmpty'
    BY <2>1, <2>2, <1>a DEF RegistryEmpty, RequestAlive
  <2>6. OneEntryPerTask'
    BY <2>1 DEF OneEntryPerTask
  <2> QED
    BY <2>4, <2>5, <2>6
<1>12. ASSUME NEW j \in jobs,
              JobSteps(j) \/ Renew(j) \/ RenewFails(j) \/ ClaimFails(j) \/ SettleFails(j)
       PROVE  Registry'
  <2>1. CASE SelfRemove(j)
    <3>1. j.inst \in Instances
      BY JobFacts
    <3> QED
      BY <2>1, <3>1, RegistryRemoved DEF SelfRemove
  <2>2. CASE ~SelfRemove(j)
    BY <1>12, <2>2, RegistryKept
       DEF JobSteps, ClaimRemoved, ClaimSkipped, Claim, Return, Settle, Renew,
           RenewFails, ClaimFails, SettleFails
  <2> QED
    BY <2>1, <2>2
<1>13. CASE Tick \/ UNCHANGED vars
  BY <1>13, RegistryKept DEF Tick, vars
<1> QED
  BY <1>1, <1>2, <1>3, <1>4, <1>5, <1>6, <1>7, <1>8, <1>9, <1>10, <1>11, <1>12, <1>13 DEF Next

-----------------------------------------------------------------------------
(* The steps keep the executions apart.                                    *)

Executions == OneJobPerEntry /\ FiredIsNew /\ RunnerOwnsLease

\* A claim, with clocks that agree, finds no target running.
LEMMA ClaimFindsNoRunner ==
  ASSUME TypeOK, Executions, FALSE \in LeaseHeld, timely, NEW k \in jobs
  PROVE  k.stage # "running"
<1>1. k.since \in Nat
  BY JobFacts
<1>2. lease.left \in Nat
  BY DEF TypeOK
<1>3. ~(lease.left > 0)
  BY DEF LeaseHeld
<1> QED
  BY <1>1, <1>2, <1>3, TaskAssumption DEF Executions, RunnerOwnsLease, TaskAssumption

LEMMA JobStepKeepsExecutions ==
  ASSUME TypeOK, TypeOK', Executions, NEW j \in jobs,
         JobSteps(j) \/ Renew(j) \/ RenewFails(j) \/ ClaimFails(j) \/ SettleFails(j)
  PROVE  Executions'
<1> USE DEF Executions
<1>j. /\ j \in Job /\ j.since \in Nat
      /\ \A s \in {"fired", "running", "settle", "drop"} :
           /\ [j EXCEPT !.stage = s] \in Job
           /\ [j EXCEPT !.stage = s].stage = s
           /\ [j EXCEPT !.stage = s].since = j.since
           /\ Token([j EXCEPT !.stage = s]) = Token(j)
      /\ /\ [j EXCEPT !.cancelled = TRUE] \in Job
         /\ [j EXCEPT !.cancelled = TRUE].stage = j.stage
         /\ [j EXCEPT !.cancelled = TRUE].since = j.since
         /\ Token([j EXCEPT !.cancelled = TRUE]) = Token(j)
      /\ /\ [j EXCEPT !.since = 0] \in Job
         /\ [j EXCEPT !.since = 0].stage = j.stage
         /\ [j EXCEPT !.since = 0].since = 0
         /\ Token([j EXCEPT !.since = 0]) = Token(j)
  BY JobFacts
<1>c. LeaseDuration \in Nat /\ RenewInterval \in Nat
  BY TaskAssumption DEF TaskAssumption
<1>k. Taken(j).token = Token(j) /\ Taken(j).left = LeaseDuration
  BY TakenFacts
<1>1. CASE ClaimRemoved(j)
  <2>1. jobs' \subseteq jobs \/ Become(j, [j EXCEPT !.stage = "drop"])
    BY <1>1 DEF ClaimRemoved, End
  <2>2. UNCHANGED <<lease, timely>>
    BY <1>1 DEF ClaimRemoved
  <2> QED
    BY <2>1, <2>2, <1>j, JobsEnd, JobMoves
<1>2. CASE ClaimSkipped(j)
  BY <1>2, JobsEnd DEF ClaimSkipped, End
<1>3. CASE Claim(j)
  <2> DEFINE new == [j EXCEPT !.stage = "running"]
  <2>1. /\ j.stage = "fired" /\ FALSE \in LeaseHeld
        /\ lease' = Taken(j) /\ UNCHANGED timely
        /\ jobs' = (jobs \ {j}) \cup {new}
    BY <1>3 DEF Claim, Become
  <2>2. new.stage = "running" /\ new.since = 0 /\ Token(new) = Token(j)
    BY <1>j, <2>1 DEF FiredIsNew
  <2> HIDE DEF new
  <2>3. OneJobPerEntry'
    <3> SUFFICES ASSUME NEW k \in jobs', NEW l \in jobs', Token(k) = Token(l) PROVE k = l
      BY DEF OneJobPerEntry, Token
    <3> QED
      BY <2>1, <2>2 DEF OneJobPerEntry
  <2>4. FiredIsNew'
    BY <2>1, <2>2 DEF FiredIsNew
  <2>5. RunnerOwnsLease'
    <3> SUFFICES ASSUME timely, NEW k \in jobs', k.stage = "running"
                 PROVE  /\ lease'.token = Token(k)
                        /\ lease'.left + k.since = LeaseDuration
                        /\ k.since <= RenewInterval
      BY <2>1 DEF RunnerOwnsLease, Token
    <3>1. k = new
      BY <2>1, ClaimFindsNoRunner
    <3> QED
      BY <3>1, <2>1, <2>2, <1>k, <1>c
  <2> QED
    BY <2>3, <2>4, <2>5
<1>4. CASE Return(j)
  BY <1>4, <1>j, JobMoves DEF Return
<1>5. CASE Settle(j)
  <2>1. /\ j.stage = "settle" /\ jobs' = jobs \ {j} /\ UNCHANGED timely
        /\ ~OwnsLease(j) => lease' = lease
        /\ OwnsLease(j) => lease.token = Token(j)
    BY <1>5 DEF Settle, End, OwnsLease
  <2>2. OneJobPerEntry' /\ FiredIsNew'
    BY <2>1 DEF OneJobPerEntry, FiredIsNew, Token
  <2>3. RunnerOwnsLease'
    <3> SUFFICES ASSUME timely, NEW k \in jobs', k.stage = "running"
                 PROVE  /\ lease'.token = Token(k)
                        /\ lease'.left + k.since = LeaseDuration
                        /\ k.since <= RenewInterval
      BY <2>1 DEF RunnerOwnsLease, Token
    <3>1. /\ lease.token = Token(k)
          /\ lease.left + k.since = LeaseDuration
          /\ k.since <= RenewInterval
      BY <2>1 DEF RunnerOwnsLease
    <3>2. ~OwnsLease(j)
      BY <2>1, <3>1 DEF OneJobPerEntry
    <3> QED
      BY <2>1, <3>1, <3>2
  <2> QED
    BY <2>2, <2>3
<1>6. CASE SelfRemove(j)
  BY <1>6, JobsEnd DEF SelfRemove, End
<1>7. CASE Renew(j)
  <2> DEFINE new == [j EXCEPT !.since = 0]
  <2>1. /\ j.stage = "running" /\ lease.token = Token(j)
        /\ lease' = [lease EXCEPT !.left = LeaseDuration] /\ UNCHANGED timely
        /\ jobs' = (jobs \ {j}) \cup {new}
    BY <1>7 DEF Renew, OwnsLease, Become
  <2>2. new.stage = "running" /\ new.since = 0 /\ Token(new) = Token(j)
    BY <1>j, <2>1
  <2>3. lease'.token = Token(j) /\ lease'.left = LeaseDuration
    BY <2>1 DEF TypeOK
  <2> HIDE DEF new
  <2>4. OneJobPerEntry'
    <3> SUFFICES ASSUME NEW k \in jobs', NEW l \in jobs', Token(k) = Token(l) PROVE k = l
      BY DEF OneJobPerEntry, Token
    <3> QED
      BY <2>1, <2>2 DEF OneJobPerEntry
  <2>5. FiredIsNew'
    BY <2>1, <2>2 DEF FiredIsNew
  <2>6. RunnerOwnsLease'
    <3> SUFFICES ASSUME timely, NEW k \in jobs', k.stage = "running"
                 PROVE  /\ lease'.token = Token(k)
                        /\ lease'.left + k.since = LeaseDuration
                        /\ k.since <= RenewInterval
      BY <2>1 DEF RunnerOwnsLease, Token
    <3>1. k = new
      BY <2>1 DEF RunnerOwnsLease, OneJobPerEntry
    <3> QED
      BY <3>1, <2>2, <2>3, <1>c
  <2> QED
    BY <2>4, <2>5, <2>6
<1>8. CASE RenewFails(j)
  BY <1>8, <1>j, JobMoves DEF RenewFails
<1>9. CASE ClaimFails(j)
  <2>1. /\ jobs' = jobs \ {j} /\ UNCHANGED timely
        /\ lease' = lease \/ FALSE \in LeaseHeld
    BY <1>9 DEF ClaimFails, End
  <2>2. CASE lease' = lease
    BY <2>1, <2>2, JobsEnd
  <2>3. CASE FALSE \in LeaseHeld
    <3>1. OneJobPerEntry' /\ FiredIsNew'
      BY <2>1 DEF OneJobPerEntry, FiredIsNew, Token
    <3>2. RunnerOwnsLease'
      BY <2>1, <2>3, ClaimFindsNoRunner DEF RunnerOwnsLease
    <3> QED
      BY <3>1, <3>2
  <2> QED
    BY <2>1, <2>2, <2>3
<1>10. CASE SettleFails(j)
  BY <1>10, JobsEnd DEF SettleFails, End
<1> QED
  BY <1>1, <1>2, <1>3, <1>4, <1>5, <1>6, <1>7, <1>8, <1>9, <1>10 DEF JobSteps

\* Time passes: the lease gets shorter as its running target gets older.
LEMMA TickKeepsExecutions ==
  ASSUME TypeOK, TypeOK', Executions, Tick
  PROVE  Executions'
<1> USE DEF Executions
<1>1. /\ jobs' = {Later(j) : j \in jobs} /\ UNCHANGED timely
      /\ lease.left > 0 /\ lease'.token = lease.token /\ lease'.left = lease.left - 1
  BY DEF Tick, TypeOK
<1>2. \A j \in jobs : /\ Token(Later(j)) = Token(j) /\ Later(j).stage = j.stage
                      /\ j.since \in Nat
                      /\ j.stage = "fired" => Later(j) = j
                      /\ (j.stage = "running" /\ timely) =>
                           Later(j).since = j.since + 1 /\ j.since < RenewInterval
  <2> TAKE j \in jobs
  <2>1. j \in Job
    BY DEF TypeOK
  <2>2. timely => OnTime(j)
    BY DEF Tick
  <2> QED
    BY <2>1, <2>2 DEF Later, Job, Token, OnTime
<1>3. OneJobPerEntry'
  <2> SUFFICES ASSUME NEW k \in jobs', NEW l \in jobs', Token(k) = Token(l) PROVE k = l
    BY DEF OneJobPerEntry, Token
  <2>1. PICK a \in jobs : k = Later(a)
    BY <1>1
  <2>2. PICK b \in jobs : l = Later(b)
    BY <1>1
  <2> QED
    BY <2>1, <2>2, <1>2 DEF OneJobPerEntry
<1>4. FiredIsNew'
  <2> SUFFICES ASSUME NEW k \in jobs', k.stage = "fired" PROVE k.since = 0
    BY DEF FiredIsNew
  <2>1. PICK a \in jobs : k = Later(a)
    BY <1>1
  <2> QED
    BY <2>1, <1>2 DEF FiredIsNew
<1>5. RunnerOwnsLease'
  <2> SUFFICES ASSUME timely, NEW k \in jobs', k.stage = "running"
               PROVE  /\ lease'.token = Token(k)
                      /\ lease'.left + k.since = LeaseDuration
                      /\ k.since <= RenewInterval
    BY <1>1 DEF RunnerOwnsLease, Token
  <2>1. PICK a \in jobs : k = Later(a)
    BY <1>1
  <2>2. a.stage = "running" /\ k.since = a.since + 1 /\ a.since < RenewInterval
        /\ Token(k) = Token(a) /\ a.since \in Nat
    BY <2>1, <1>2
  <2>3. /\ lease.token = Token(a) /\ lease.left + a.since = LeaseDuration
    BY <2>2 DEF RunnerOwnsLease
  <2>4. lease.left \in Nat /\ RenewInterval \in Nat /\ LeaseDuration \in Nat
    BY TaskAssumption DEF TypeOK, TaskAssumption
  <2> QED
    BY <2>2, <2>3, <2>4, <1>1
<1> QED
  BY <1>3, <1>4, <1>5

LEMMA StepKeepsExecutions ==
  ASSUME TypeOK, TypeOK', Executions, [Next]_vars
  PROVE  Executions'
<1> USE DEF Executions
<1>1. ASSUME NEW i \in Instances, NEW n \in Names, CronFire(i, n) PROVE Executions'
  BY <1>1, JobFires DEF CronFire
<1>2. ASSUME NEW i \in Instances, Once(i) PROVE Executions'
  BY <1>2, JobFires DEF Once
<1>3. ASSUME NEW i \in Instances, Requests(i) PROVE Executions'
  BY <1>3, JobsEnd DEF Requests, Start, Stop, Delete, Add, Update, Write
<1>4. CASE Sync \/ Register \/ Commit \/ Rollback \/ UNCHANGED vars
  BY <1>4, JobsEnd DEF Sync, Register, Commit, Rollback, vars
<1>5. ASSUME NEW i \in Instances,
             Boot(i) \/ LoadRegister(i) \/ Shutdown(i) \/ Exit(i) \/ Crash(i)
      PROVE  Executions'
  BY <1>5, JobsEnd DEF Boot, LoadRegister, Shutdown, Exit, Crash
<1>6. ASSUME NEW j \in jobs,
             JobSteps(j) \/ Renew(j) \/ RenewFails(j) \/ ClaimFails(j) \/ SettleFails(j)
      PROVE  Executions'
  BY <1>6, JobStepKeepsExecutions
<1>7. CASE Tick
  BY <1>7, TickKeepsExecutions
<1> QED
  BY <1>1, <1>2, <1>3, <1>4, <1>5, <1>6, <1>7 DEF Next

-----------------------------------------------------------------------------
(* The theorems.                                                           *)

LEMMA StepKeepsInv == Inv /\ [Next]_vars => Inv'
  BY StepKeepsTypes, StepKeepsRegistry, StepKeepsExecutions DEF Inv, Registry, Executions

LEMMA InvHolds == Spec => []Inv
<1>1. Init => Inv
  <2> SUFFICES ASSUME Init PROVE Inv
    OBVIOUS
  <2>1. TypeOK
    <3>1. 0 \in 0 .. LeaseDuration /\ 0 \in 0 .. MaxEvents /\ 0 \in 0 .. MaxFaults
      BY TaskAssumption DEF TaskAssumption
    <3> QED
      BY <3>1 DEF Init, TypeOK, Idle
  <2>2. RequestAlive /\ RegistryEmpty /\ OneEntryPerTask
    BY DEF Init, RequestAlive, RegistryEmpty, OneEntryPerTask, Idle
  <2>3. OneJobPerEntry /\ FiredIsNew /\ RunnerOwnsLease
    BY DEF Init, OneJobPerEntry, FiredIsNew, RunnerOwnsLease
  <2> QED
    BY <2>1, <2>2, <2>3 DEF Inv
<1> QED
  BY <1>1, StepKeepsInv, PTL DEF Spec

\* Type correctness of the scheduler.
THEOREM TypeCorrect == Spec => []TypeOK
  BY InvHolds, PTL DEF Inv

\* No cron entry is leaked by requests, rollbacks, restarts and callbacks.
THEOREM NoEntryLeaked == Spec => []OneEntryPerTask
  BY InvHolds, PTL DEF Inv

\* With clocks that agree and heartbeats on time (RenewInterval is shorter
\* than LeaseDuration) the target runs at most once at a time.
THEOREM OneRun == Spec => []OneRunAtATime
<1>1. Inv => OneRunAtATime
  BY DEF Inv, RunnerOwnsLease, OneJobPerEntry, OneRunAtATime
<1> QED
  BY <1>1, InvHolds, PTL

\* A running lease is ended or extended by its own execution only.
THEOREM LeaseProtected == Spec => LeaseEndedByOwner
<1>1. TypeOK /\ [Next]_vars => [LeaseStep]_vars
  <2> SUFFICES ASSUME TypeOK, [Next]_vars, lease.left > 0, lease' # lease
               PROVE  LeaseStep
    BY DEF LeaseStep
  <2>1. CASE Tick
    BY <2>1 DEF Tick, LeaseStep
  <2>2. ASSUME NEW j \in jobs, Claim(j) \/ ClaimFails(j) PROVE LeaseStep
    <3>1. j.stage = "fired" /\ lease' = Taken(j) /\ FALSE \in LeaseHeld
      BY <2>2 DEF Claim, ClaimFails
    <3>2. ~timely
      BY <3>1 DEF LeaseHeld, TypeOK
    <3> QED
      BY <3>1, <3>2 DEF LeaseStep
  <2>3. ASSUME NEW j \in jobs, Renew(j) \/ Settle(j) PROVE LeaseStep
    <3>1. /\ j.stage \in {"running", "settle"} /\ lease.token = Token(j)
          /\ \E n \in Nat : lease' = [lease EXCEPT !.left = n]
      BY <2>3, TaskAssumption DEF Renew, Settle, OwnsLease, TaskAssumption
    <3> QED
      BY <3>1 DEF LeaseStep, TypeOK
  <2> QED
    BY <2>1, <2>2, <2>3
       DEF Next, Requests, Start, Stop, Delete, Add, Update, Write, Sync, Register, Commit,
           Rollback, CronFire, Once, Boot, LoadRegister, Shutdown, Exit, Crash, JobSteps,
           ClaimRemoved, ClaimSkipped, Return, SelfRemove, RenewFails, SettleFails, vars
<1> QED
  BY <1>1, TypeCorrect, PTL DEF Spec, LeaseEndedByOwner
=============================================================================
