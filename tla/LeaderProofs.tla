---------------------------- MODULE LeaderProofs ----------------------------
(***************************************************************************)
(* Theorems about Leader, for any number of instances and any durations;   *)
(* the ones about the lease for durations that keep leaders apart.         *)
(***************************************************************************)
EXTENDS Leader, TLAPS

\* A process that was started is a process.
LEMMA StartedType == Started \in Process
  BY LeaderAssumption DEF LeaderAssumption, Started, Process

\* The timing that Run configures.
LEMMA TimingType ==
  /\ Timing.lease = LeaseDuration /\ Timing.renew = RenewDeadline
  /\ Timing.retry = RenewPeriod
  /\ LeaseDuration \in Nat /\ RenewDeadline \in Nat /\ RenewPeriod \in Nat
  /\ AnswerWithin \in Nat
  BY LeaderAssumption DEF LeaderAssumption, Timing, AnswerWithin, RequestTimeout

\* The steps of one instance.
Step(i) ==
  \/ Elector(i) \/ Acquire(i) \/ Elected(i) \/ Renew(i) \/ Renewed(i)
  \/ Task(i) \/ Worker(i)
  \/ Event(i) \/ Cancel(i) \/ ReadError(i) \/ Restart(i) \/ Crash(i)

\* A step of instance i leaves the other processes alone, and its own process
\* stays one.
LEMMA StepType ==
  ASSUME TypeOK, NEW i \in Instances, Step(i)
  PROVE  TypeOK'
<1> USE LeaderAssumption DEF LeaderAssumption, TypeOK, Process, Local
<1>1. CASE Elector(i)
  <2>1. CASE New(i) \/ Run(i)
    BY <2>1 DEF New, Run
  <2>2. CASE Withdraw(i) \/ Lose(i)
    BY <2>2 DEF Withdraw, Lose
  <2>3. CASE RunFailed(i)
    BY <2>3 DEF RunFailed, Send
  <2>4. CASE Stopped(i)
    BY <2>4 DEF Stopped, Send
  <2> QED BY <1>1, <2>1, <2>2, <2>3, <2>4 DEF Elector
<1>2. CASE Acquire(i) \/ Renew(i)
  <2>1. AnswerWithin + 1 \in Nat /\ Timing.lease \in Nat
    BY TimingType
  <2>2. WriteLease(i)
    BY <1>2 DEF Acquire, Renew
  <2> QED BY <2>1, <2>2 DEF WriteLease
<1>3. CASE Elected(i) \/ Renewed(i)
  <2>1. Timing.renew \in Nat /\ Timing.retry \in Nat
    BY TimingType
  <2>2. \E p \in Process : proc' = [proc EXCEPT ![i] = p]
    <3>1. proc[i] \in Process
      OBVIOUS
    <3>2. CASE Elected(i)
      <4> DEFINE p == [proc[i] EXCEPT !.elector = "leading", !.lead = "live",
                                      !.task = "init", !.answer = 0,
                                      !.rest = 0, !.deadline = Timing.renew]
      <4>1. p \in Process
        BY ONLY <2>1, <3>1 DEF Process
      <4>2. proc' = [proc EXCEPT ![i] = p]
        BY <3>2 DEF Elected
      <4> QED BY <4>1, <4>2
    <3>3. CASE Renewed(i)
      <4> DEFINE p == [proc[i] EXCEPT !.answer = 0, !.rest = Timing.retry,
                                      !.deadline = Timing.renew]
      <4>1. p \in Process
        BY ONLY <2>1, <3>1 DEF Process
      <4>2. proc' = [proc EXCEPT ![i] = p]
        BY <3>3 DEF Renewed
      <4> QED BY <4>1, <4>2
    <3> QED BY <1>3, <3>2, <3>3
  <2>3. proc' \in [Instances -> Process]
    BY <2>2
  <2> QED BY <1>3, <2>3 DEF Elected, Renewed
<1>4. CASE Task(i)
  BY <1>4 DEF Task, TaskSynced, TaskFailed, TaskReport
<1>5. CASE Worker(i)
  BY <1>5 DEF Worker, WorkerBegin, Take, Finish, WorkerExit
<1>6. CASE Event(i) \/ Cancel(i)
  BY <1>6 DEF Event, Cancel
<1>7. CASE ReadError(i)
  <2>1. proc[i].errch - 1 \in 0 .. ErrCap
    BY <1>7 DEF ReadError
  <2>2. proc'[i] = [proc[i] EXCEPT !.errch = @ - 1, !.read = TRUE]
    BY <1>7 DEF ReadError
  <2>3. proc'[i] \in Process
    <3>1. proc[i] \in Process
      OBVIOUS
    <3> QED BY ONLY <2>1, <2>2, <3>1 DEF Process
  <2>4. proc' = [proc EXCEPT ![i] = proc'[i]]
    BY <1>7 DEF ReadError
  <2> QED BY <1>7, <2>3, <2>4 DEF ReadError
<1>8. CASE Restart(i) \/ Crash(i)
  BY <1>8, StartedType, LeaderAssumption DEF LeaderAssumption, TypeOK, Local,
                                             Restart, Crash
<1> QED BY <1>1, <1>2, <1>3, <1>4, <1>5, <1>6, <1>7, <1>8 DEF Step

\* What a tick leaves of a process that waits.
LEMMA WaitedType ==
  ASSUME NEW p \in Process, p.elector = "leading" => p.deadline > 0
  PROVE  /\ Waited(p) \in Process
         /\ Waited(p).lead = p.lead /\ Waited(p).elector = p.elector
         /\ Waited(p).answer = Down(p.answer) /\ Waited(p).rest = Down(p.rest)
         /\ Waited(p).deadline =
              IF p.elector = "leading" /\ p.rest = 0 THEN p.deadline - 1
              ELSE p.deadline
<1>1. /\ Down(p.answer) \in Nat /\ Down(p.rest) \in Nat
      /\ p.elector = "leading" => p.deadline - 1 \in Nat
  BY DEF Process, Down
<1> QED BY <1>1 DEF Process, Waited

\* Time passes for the lease and for the processes.
LEMMA TickType == TypeOK /\ Tick => TypeOK'
<1> SUFFICES ASSUME TypeOK, Tick PROVE TypeOK'
  OBVIOUS
<1>1. \A i \in Instances : Waited(proc[i]) \in Process
  BY WaitedType DEF TypeOK, Tick
<1>2. left' \in Nat
  BY DEF TypeOK, Tick, Down
<1> QED BY <1>1, <1>2 DEF TypeOK, Tick

\* Every variable keeps its type, whatever the durations are.
THEOREM TypeCorrect == Spec => []TypeOK
<1>1. Init => TypeOK
  BY LeaderAssumption, StartedType DEF LeaderAssumption, Init, TypeOK
<1>2. TypeOK /\ [Next]_vars => TypeOK'
  <2> SUFFICES ASSUME TypeOK, [Next]_vars PROVE TypeOK'
    OBVIOUS
  <2>1. CASE UNCHANGED vars
    BY <2>1 DEF vars, TypeOK
  <2> QED BY <2>1, StepType, TickType DEF Next, Step
<1> QED BY <1>1, <1>2, PTL DEF Spec

-----------------------------------------------------------------------------
\* A step that writes nothing, and leaves the timers of the leaders that stay
\* alone, preserves LeaseInv.
LEMMA Passive ==
  ASSUME LeaseInv, UNCHANGED <<holder, left>>,
         \A i \in Instances :
           /\ proc'[i].answer \in {0, proc[i].answer}
           /\ \/ /\ proc'[i].lead = proc[i].lead
                 /\ proc'[i].elector = "leading" <=> proc[i].elector = "leading"
                 /\ proc'[i].rest = proc[i].rest
                 /\ proc'[i].deadline = proc[i].deadline
              \/ proc'[i].lead # "live" /\ proc'[i].elector # "leading"
  PROVE  LeaseInv'
  BY DEF LeaseInv

\* While the answer to a write of an instance may come, or an instance leads,
\* others cannot write the lease.
LEMMA Mine ==
  ASSUME TypeOK, LeaseInv, KeepsApart, NEW i \in Instances,
         proc[i].answer > 0 \/ proc[i].lead = "live"
  PROVE  holder = i /\ left > 0
<1>1. /\ proc[i].answer \in Nat /\ left \in Nat
      /\ proc[i].rest \in Nat /\ proc[i].deadline \in Nat
  BY DEF TypeOK, Process
<1> QED BY <1>1, TimingType DEF LeaseInv, KeepsApart

\* A write starts the lease anew: it is the writer's own, or had run out.
LEMMA WriteKeeps ==
  ASSUME TypeOK, LeaseInv, KeepsApart, NEW i \in Instances,
         WriteLease(i), holder = i \/ left = 0,
         proc[i].lead = "live" => proc[i].rest = 0
  PROVE  LeaseInv'
<1>1. /\ holder' = i /\ left' = LeaseDuration
      /\ proc'[i].answer = AnswerWithin + 1
      /\ proc'[i].lead = proc[i].lead /\ proc'[i].elector = proc[i].elector
      /\ proc'[i].rest = proc[i].rest /\ proc'[i].deadline = proc[i].deadline
  BY TimingType DEF TypeOK, Process, WriteLease
<1>2. proc[i].rest \in Nat /\ proc[i].deadline \in Nat
  BY DEF TypeOK, Process
<1>3. \A j \in Instances : j # i => proc'[j] = proc[j]
  BY DEF TypeOK, WriteLease
<1>4. \A j \in Instances :
        j # i => ~(proc[j].answer > 0) /\ proc[j].lead # "live"
  BY Mine
<1> QED BY ONLY <1>1, <1>2, <1>3, <1>4, TimingType, LeaseInv, KeepsApart,
                proc[i].lead = "live" => proc[i].rest = 0, i \in Instances
           DEF LeaseInv, KeepsApart

\* An answer in time leaves enough of the lease for the rest and the deadline.
LEMMA AnswerKeeps ==
  ASSUME TypeOK, LeaseInv, KeepsApart, NEW i \in Instances,
         Elected(i) \/ Renewed(i)
  PROVE  LeaseInv'
<1>1. /\ proc[i].answer \in Nat /\ proc[i].answer > 0 /\ left \in Nat
      /\ holder' = holder /\ left' = left
  BY DEF TypeOK, Process, Elected, Renewed, Local
<1>2. holder = i /\ RenewPeriod + RenewDeadline < left
  BY <1>1, TimingType DEF LeaseInv, KeepsApart
<1>3. /\ proc'[i].answer = 0 /\ proc'[i].lead = "live"
      /\ proc'[i].elector = "leading" /\ proc'[i].deadline = RenewDeadline
      /\ proc'[i].rest \in {0, RenewPeriod}
  <2>1. CASE Elected(i)
    BY <2>1, TimingType DEF TypeOK, Process, Elected
  <2>2. CASE Renewed(i)
    BY <2>2, TimingType DEF TypeOK, Process, Renewed, LeaseInv
  <2> QED BY <2>1, <2>2
<1>4. \A j \in Instances : j # i => proc'[j] = proc[j]
  BY DEF TypeOK, Elected, Renewed
<1> QED BY ONLY <1>1, <1>2, <1>3, <1>4, TimingType, LeaseInv, i \in Instances
           DEF LeaseInv

\* A step of an instance keeps the lease and the live contexts together.
LEMMA StepLease ==
  ASSUME TypeOK, LeaseInv, KeepsApart, NEW i \in Instances, Step(i)
  PROVE  LeaseInv'
<1>1. CASE Acquire(i) \/ Renew(i)
  BY <1>1, WriteKeeps DEF Acquire, Renew, LeaseInv
<1>2. CASE Elected(i) \/ Renewed(i)
  BY <1>2, AnswerKeeps
<1> USE DEF TypeOK, Process, Started, Local
<1>3. CASE Elector(i)
  <2>1. CASE New(i) \/ Run(i) \/ RunFailed(i) \/ Stopped(i)
    BY <2>1, Passive DEF New, Run, RunFailed, Stopped, Send
  <2>2. CASE Withdraw(i) \/ Lose(i)
    BY <2>2, Passive DEF Withdraw, Lose
  <2> QED BY <1>3, <2>1, <2>2 DEF Elector
<1>4. CASE Task(i)
  BY <1>4, Passive DEF Task, TaskSynced, TaskFailed, TaskReport
<1>5. CASE Worker(i)
  BY <1>5, Passive DEF Worker, WorkerBegin, Take, Finish, WorkerExit
<1>6. CASE Event(i) \/ Cancel(i) \/ ReadError(i)
  BY <1>6, Passive DEF Event, Cancel, ReadError
<1>7. CASE Restart(i) \/ Crash(i)
  BY <1>7, Passive DEF Restart, Crash
<1> QED BY <1>1, <1>2, <1>3, <1>4, <1>5, <1>6, <1>7 DEF Step

\* The lease loses a tick when its leader or an answer on its way does.
LEMMA TickLease == TypeOK /\ LeaseInv /\ KeepsApart /\ Tick => LeaseInv'
<1> SUFFICES ASSUME TypeOK, LeaseInv, KeepsApart, Tick, NEW i \in Instances
             PROVE  /\ proc'[i].answer > 0 =>
                         /\ holder' = i
                         /\ left' + AnswerWithin
                              >= LeaseDuration + (proc'[i].answer - 1)
                    /\ proc'[i].lead = "live" <=> proc'[i].elector = "leading"
                    /\ proc'[i].lead = "live" =>
                         /\ holder' = i
                         /\ proc'[i].rest + proc'[i].deadline < left'
                         /\ proc'[i].deadline <= RenewDeadline
  BY DEF LeaseInv
<1>1. /\ proc[i].answer \in Nat /\ proc[i].rest \in Nat
      /\ proc[i].deadline \in Nat /\ left \in Nat
      /\ proc[i].elector = "leading" => proc[i].deadline > 0
  BY DEF TypeOK, Process, Tick
<1>2. /\ proc'[i].lead = proc[i].lead /\ proc'[i].elector = proc[i].elector
      /\ proc'[i].answer = Down(proc[i].answer)
      /\ proc'[i].rest = Down(proc[i].rest)
      /\ proc'[i].deadline =
           IF proc[i].elector = "leading" /\ proc[i].rest = 0
           THEN proc[i].deadline - 1 ELSE proc[i].deadline
  <2>1. proc'[i] = Waited(proc[i]) /\ proc[i] \in Process
    BY DEF Tick, TypeOK
  <2> QED BY <1>1, <2>1, WaitedType
<1>3. holder' = holder /\ left' = Down(left)
  BY DEF Tick
<1>4. proc[i].answer > 0 \/ proc[i].lead = "live" => holder = i /\ left > 0
  BY Mine
<1> QED BY ONLY <1>1, <1>2, <1>3, <1>4, TimingType, LeaseInv, i \in Instances
           DEF LeaseInv, Down

\* With durations that keep leaders apart, whoever has a live context owns a
\* lease that outlasts its rest and its renew deadline, in every reachable
\* state: a leader that hears nothing any more is gone before the lease is.
THEOREM LeaseKept ==
  ASSUME KeepsApart
  PROVE  Spec => []LeaseInv
<1>1. Init => LeaseInv
  <2> SUFFICES ASSUME Init PROVE LeaseInv
    OBVIOUS
  <2>1. \A i \in Instances : proc[i] = Started
    BY DEF Init
  <2>2. /\ Started.answer = 0 /\ Started.lead = "none"
        /\ Started.elector = "off"
    BY DEF Started
  <2>3. ~(0 > 0)
    OBVIOUS
  <2> QED BY <2>1, <2>2, <2>3, Zenon DEF LeaseInv
<1>2. TypeOK /\ LeaseInv /\ [Next]_vars => LeaseInv'
  <2> SUFFICES ASSUME TypeOK, LeaseInv, [Next]_vars PROVE LeaseInv'
    OBVIOUS
  <2>1. CASE UNCHANGED vars
    BY <2>1 DEF vars, LeaseInv
  <2> QED BY <2>1, KeepsApart, StepLease, TickLease DEF Next, Step
<1> QED BY <1>1, <1>2, TypeCorrect, PTL DEF Spec

\* At most one instance runs its controllers under a live context, if the lease
\* duration Run hands on lies above the renew deadline, the renew period and
\* the time an answer may take together.  That the elector accepts the durations
\* is not enough.
THEOREM SingleLeader ==
  ASSUME KeepsApart
  PROVE  Spec => []OneLiveLeader
<1>1. LeaseInv => OneLiveLeader
  BY DEF LeaseInv, OneLiveLeader
<1> QED BY <1>1, KeepsApart, LeaseKept, PTL

=============================================================================
