------------------------------- MODULE Leader -------------------------------
(***************************************************************************)
(* Instances of a program that run their controllers under a LeaderRunner  *)
(* (controller/runner.go).  Each instance is a process of its own: it      *)
(* takes part in one election, runs the controllers when it is elected,    *)
(* and reports the end of its leadership on its error channel.             *)
(*                                                                         *)
(* The election (client-go) is modelled from the way the runner uses it: a *)
(* lease at the API server that its holder renews and others may take when *)
(* it has run out.  A write of the lease takes effect and is answered      *)
(* later, or never.  A leader rests for the retry period after an answer,  *)
(* then tries to renew until the renew deadline has passed, then gives up. *)
(* Time is counted in ticks, and clocks run at the same speed.  The        *)
(* elector cancels the context of the controllers first and calls          *)
(* OnStoppedLeading afterwards, also if it never led.                      *)
(*                                                                         *)
(* The controllers are one Runnable with one worker and a number of items  *)
(* in its queue; Controller and Processor have the details.                *)
(***************************************************************************)
EXTENDS Integers

CONSTANTS
  Instances,      \* the processes, with an identity of their own each
  Nobody,         \* stands for the holder of a lease never taken
  Sound,          \* the instances whose configuration is known to work
  LeaseDuration,  \* LeaderConfig.LeaseDuration
  RenewDeadline,  \* LeaderConfig.RenewDeadline
  RenewPeriod,    \* LeaderConfig.RenewPeriod
  Latency,        \* the longest time from a write of the lease to its answer
  ErrCap,         \* the capacity of the error channels
  Readers,        \* the instances that read their error channel
  MaxItems,       \* bound: items in a queue
  MaxCrashes      \* bound: processes that crash

ASSUME LeaderAssumption ==
  /\ Nobody \notin Instances
  /\ Readers \subseteq Instances /\ Sound \subseteq Instances
  /\ LeaseDuration \in Nat /\ RenewDeadline \in Nat /\ RenewPeriod \in Nat
  /\ Latency \in Nat
  /\ ErrCap \in Nat \ {0} /\ MaxItems \in Nat /\ MaxCrashes \in Nat

VARIABLES
  holder,   \* the holder written in the lease
  left,     \* the ticks until others may take the lease
  proc,     \* the processes
  crashes   \* the processes crashed so far

vars == <<holder, left, proc, crashes>>

\* A process has
\*   ctx       the context given to Run
\*   elector   what the runner and its elector do
\*   answer    the ticks left for an answer to its last write, 0 without one
\*   rest      the ticks until a leader tries to renew the lease
\*   deadline  the ticks left to renew it from then on
\*   lead      the context derived for the controllers
\*   task      the goroutine of OnStartedLeading
\*   worker    the worker of the controllers
\*   items     the items ready in their queue
\*   errch     the number of errors in the channel
\*   read      whether the consumer has read an error
Process ==
  [ctx : {"live", "done"},
   elector : {"off", "created", "refused", "failing", "acquiring", "leading",
              "stopping", "ended"},
   answer : Nat,
   rest : Nat,
   deadline : Nat,
   lead : {"none", "live", "done"},
   task : {"off", "init", "failed", "running"},
   worker : {"off", "idle", "busy", "gone"},
   items : 0 .. MaxItems,
   errch : 0 .. ErrCap,
   read : BOOLEAN]

Started ==
  [ctx |-> "live", elector |-> "off", answer |-> 0, rest |-> 0,
   deadline |-> 0, lead |-> "none", task |-> "off", worker |-> "off",
   items |-> 0, errch |-> 0, read |-> FALSE]

TypeOK ==
  /\ holder \in Instances \cup {Nobody}
  /\ left \in Nat
  /\ proc \in [Instances -> Process]
  /\ crashes \in 0 .. MaxCrashes

Init ==
  /\ holder = Nobody
  /\ left = 0
  /\ proc = [i \in Instances |-> Started]
  /\ crashes = 0

Local == UNCHANGED <<holder, left, crashes>>

-----------------------------------------------------------------------------
(* The timing that Run and restConfig give the election. *)

\* Mutated form of Timing: the lease just covers what the leader waits itself.
TimingTight ==
  [lease |-> RenewDeadline + RenewPeriod, renew |-> RenewDeadline,
   retry |-> RenewPeriod]

Timing ==
  [lease |-> LeaseDuration, renew |-> RenewDeadline, retry |-> RenewPeriod]

\* Mutated form of RequestTimeout: the client waits as long as it takes.
RequestTimeoutNone == Latency

\* The timeout of the requests of the election client.
RequestTimeout == RenewDeadline

\* What NewLeaderElector insists on: the deadline lies above the retry period
\* with a jitter factor of 1.2, the lease above the deadline.
Accepted ==
  /\ Timing.retry > 0
  /\ 5 * Timing.renew > 6 * Timing.retry
  /\ Timing.lease > Timing.renew

\* The answer to a request comes within the timeout of the client, or never.
AnswerWithin == IF Latency < RequestTimeout THEN Latency ELSE RequestTimeout

-----------------------------------------------------------------------------
(* NewLeaderRunner and Run. *)

\* A configuration that is missing or unfit for a client yields no runner.
New(i) ==
  /\ proc[i].elector = "off"
  /\ \/ proc' = [proc EXCEPT ![i].elector = "created"]
     \/ i \notin Sound /\ proc' = [proc EXCEPT ![i].elector = "refused"]
  /\ Local

\* Run returns at once: with an error to be sent, or leaving an elector behind.
Run(i) ==
  /\ proc[i].elector = "created"
  /\ \/ Accepted /\ proc' = [proc EXCEPT ![i].elector = "acquiring"]
     \/ /\ i \notin Sound \/ ~Accepted
        /\ proc' = [proc EXCEPT ![i].elector = "failing"]
  /\ Local

\* A send waits for room in the channel.
Send(i, from) ==
  /\ proc[i].elector = from
  /\ proc[i].errch < ErrCap
  /\ Local

\* The lock or the elector could not be created.
RunFailed(i) ==
  /\ Send(i, "failing")
  /\ proc' = [proc EXCEPT ![i].errch = @ + 1, ![i].elector = "ended"]

\* Mutated form of Stopped: the loss is not reported.
StoppedSilently(i) ==
  /\ proc[i].elector = "stopping"
  /\ proc' = [proc EXCEPT ![i].elector = "ended"]
  /\ Local

\* OnStoppedLeading; nothing enters the election again.
Stopped(i) ==
  /\ Send(i, "stopping")
  /\ proc' = [proc EXCEPT ![i].errch = @ + 1, ![i].elector = "ended"]

-----------------------------------------------------------------------------
(* The election (client-go). *)

\* The lease is written; an earlier write can no longer be answered.
WriteLease(i) ==
  /\ proc[i].ctx = "live"
  /\ holder' = i
  /\ left' = Timing.lease
  /\ proc' = [proc EXCEPT ![i].answer = AnswerWithin + 1]
  /\ UNCHANGED crashes

\* A candidate takes a lease that has run out, or is its own still.
Acquire(i) ==
  /\ proc[i].elector = "acquiring"
  /\ holder = i \/ left = 0
  /\ WriteLease(i)

\* The elector starts OnStartedLeading in a goroutine, and renews at once.
Elected(i) ==
  /\ proc[i].elector = "acquiring"
  /\ proc[i].ctx = "live" /\ proc[i].answer > 0
  /\ proc' = [proc EXCEPT ![i].elector = "leading", ![i].lead = "live",
                          ![i].task = "init", ![i].answer = 0,
                          ![i].rest = 0, ![i].deadline = Timing.renew]
  /\ Local

Renew(i) ==
  /\ proc[i].elector = "leading"
  /\ proc[i].rest = 0 /\ proc[i].deadline > 0
  /\ holder = i
  /\ WriteLease(i)

\* The leader rests for the retry period before it tries again.
Renewed(i) ==
  /\ proc[i].elector = "leading"
  /\ proc[i].answer > 0 /\ proc[i].deadline > 0
  /\ proc' = [proc EXCEPT ![i].answer = 0, ![i].rest = Timing.retry,
                          ![i].deadline = Timing.renew]
  /\ Local

Withdraw(i) ==
  /\ proc[i].elector = "acquiring" /\ proc[i].ctx = "done"
  /\ proc' = [proc EXCEPT ![i].elector = "stopping", ![i].answer = 0]
  /\ Local

Lose(i) ==
  /\ proc[i].elector = "leading"
  /\ proc[i].ctx = "done" \/ proc[i].deadline = 0
  /\ proc' = [proc EXCEPT ![i].elector = "stopping", ![i].lead = "done",
                          ![i].answer = 0, ![i].rest = 0, ![i].deadline = 0]
  /\ Local

Down(n) == IF n = 0 THEN 0 ELSE n - 1

\* What the passing of a tick does to a process.
Waited(p) ==
  [p EXCEPT
     !.answer = Down(@),
     !.rest = Down(@),
     !.deadline = IF p.elector = "leading" /\ p.rest = 0 THEN @ - 1 ELSE @]

\* Mutated form of Tick: a leader goes on after its deadline.
TickOn ==
  /\ left' = Down(left)
  /\ proc' = [i \in Instances |-> Waited(proc[i])]
  /\ UNCHANGED <<holder, crashes>>

\* A leader gives up when its deadline has passed, not later.
Tick ==
  /\ \A i \in Instances :
       proc[i].elector = "leading" => proc[i].deadline > 0
  /\ left' = Down(left)
  /\ proc' = [i \in Instances |-> Waited(proc[i])]
  /\ UNCHANGED <<holder, crashes>>

-----------------------------------------------------------------------------
(* OnStartedLeading: the run function over the controllers. *)

\* Init returns with the cache synced, even if its context is done by then, or
\* fails with its context.
TaskSynced(i) ==
  /\ proc[i].task = "init"
  /\ proc' = [proc EXCEPT ![i].task = "running"]
  /\ Local

TaskFailed(i) ==
  /\ proc[i].task = "init" /\ proc[i].lead = "done"
  /\ proc' = [proc EXCEPT ![i].task = "failed"]
  /\ Local

\* The error of Init is sent, then Run is called as if it had succeeded.
TaskReport(i) ==
  /\ proc[i].task = "failed" /\ proc[i].errch < ErrCap
  /\ proc' = [proc EXCEPT ![i].task = "running", ![i].errch = @ + 1]
  /\ Local

WorkerBegin(i) ==
  /\ proc[i].task = "running" /\ proc[i].worker = "off"
  /\ proc' = [proc EXCEPT ![i].worker =
                IF proc[i].lead = "live" THEN "idle" ELSE "gone"]
  /\ Local

\* The informer runs from Init on until its context is done.
Event(i) ==
  /\ proc[i].task # "off" /\ proc[i].lead = "live"
  /\ proc[i].items < MaxItems
  /\ proc' = [proc EXCEPT ![i].items = @ + 1]
  /\ Local

\* The loop of the worker does not look at the context.
Take(i) ==
  /\ proc[i].worker = "idle" /\ proc[i].items > 0
  /\ proc' = [proc EXCEPT ![i].worker = "busy", ![i].items = @ - 1]
  /\ Local

Finish(i) ==
  /\ proc[i].worker = "busy"
  /\ proc' = [proc EXCEPT ![i].worker = "idle"]
  /\ Local

\* Mutated form of WorkerExit: the controllers got the context of the process.
WorkerExitLate(i) ==
  /\ proc[i].worker = "idle" /\ proc[i].items = 0
  /\ proc[i].ctx = "done"
  /\ proc' = [proc EXCEPT ![i].worker = "gone"]
  /\ Local

\* The queue is shut down with the context and has been emptied.
WorkerExit(i) ==
  /\ proc[i].worker = "idle" /\ proc[i].items = 0
  /\ proc[i].lead = "done"
  /\ proc' = [proc EXCEPT ![i].worker = "gone"]
  /\ Local

-----------------------------------------------------------------------------
(* The consumer and its process. *)

Cancel(i) ==
  /\ proc[i].ctx = "live"
  /\ proc' = [proc EXCEPT ![i].ctx = "done"]
  /\ Local

ReadError(i) ==
  /\ i \in Readers /\ proc[i].errch > 0
  /\ proc' = [proc EXCEPT ![i].errch = @ - 1, ![i].read = TRUE]
  /\ Local

\* The program ends with the first error it reads and is started again.
Restart(i) ==
  /\ proc[i].read
  /\ proc' = [proc EXCEPT ![i] = Started]
  /\ Local

\* The lease of a process that crashes stays with it.
Crash(i) ==
  /\ crashes < MaxCrashes
  /\ proc[i].elector # "off"
  /\ crashes' = crashes + 1
  /\ proc' = [proc EXCEPT ![i] = Started]
  /\ UNCHANGED <<holder, left>>

-----------------------------------------------------------------------------
Task(i) == TaskSynced(i) \/ TaskFailed(i) \/ TaskReport(i)

Worker(i) == WorkerBegin(i) \/ Take(i) \/ Finish(i) \/ WorkerExit(i)

Elector(i) ==
  New(i) \/ Run(i) \/ RunFailed(i) \/ Withdraw(i) \/ Lose(i) \/ Stopped(i)

Next ==
  \/ Tick
  \/ \E i \in Instances :
       \/ Elector(i) \/ Acquire(i) \/ Elected(i) \/ Renew(i) \/ Renewed(i)
       \/ Task(i) \/ Worker(i)
       \/ Event(i) \/ Cancel(i) \/ ReadError(i) \/ Restart(i) \/ Crash(i)

Spec == Init /\ [][Next]_vars

\* Goroutines are scheduled, time passes, a candidate that may take the lease
\* gets to it, a candidate that takes it again and again gets an answer, and
\* consumers that read errors act on them.  Renewals, events, crashes and the
\* end of a context are up to others.
Fairness ==
  /\ WF_vars(Tick)
  /\ \A i \in Instances :
       /\ WF_vars(Elector(i))
       /\ WF_vars(Acquire(i)) /\ SF_vars(Elected(i))
       /\ WF_vars(Task(i)) /\ WF_vars(Worker(i))
       /\ WF_vars(ReadError(i)) /\ WF_vars(Restart(i))

FairSpec == Spec /\ Fairness

-----------------------------------------------------------------------------
(* Safety. *)

\* The condition on the configuration under which leaders are kept apart: the
\* lease outlasts the way of an answer, the rest and the renew deadline.  The
\* elector insists on less (Accepted).
KeepsApart == LeaseDuration > AnswerWithin + RenewPeriod + RenewDeadline

\* The controllers of at most one instance have a live context, whatever
\* renewals fail, answers come late or never and processes crash, provided
\* that the durations Run hands on keep leaders apart: a leader that cannot
\* renew is stopped before another may be elected.
OneLiveLeader ==
  \A i, j \in Instances :
    proc[i].lead = "live" /\ proc[j].lead = "live" => i = j

\* While an answer may come, nobody else has taken the lease, which has run no
\* longer than the answer has been on its way; the holder of a live context owns
\* the lease for longer than it rests and tries to renew it.  With both, and for
\* durations that keep leaders apart, OneLiveLeader is inductive.
LeaseInv ==
  \A i \in Instances :
    /\ proc[i].answer > 0 =>
         /\ holder = i
         /\ left + AnswerWithin >= LeaseDuration + (proc[i].answer - 1)
    /\ proc[i].lead = "live" <=> proc[i].elector = "leading"
    /\ proc[i].lead = "live" =>
         /\ holder = i
         /\ proc[i].rest + proc[i].deadline < left
         /\ proc[i].deadline <= RenewDeadline

-----------------------------------------------------------------------------
(* Liveness. *)

\* The work of an instance that has lost its leadership ends, also if nobody
\* reads its error channel: a send that blocks in Init or in OnStoppedLeading
\* must not keep the workers running.
LosersStop ==
  \A i \in Instances :
    proc[i].lead = "done" ~> proc[i].worker \in {"off", "gone"}

\* If some instance has a sound configuration, reads its errors and is not told
\* to stop, then somebody leads again and again: a lease left behind by a crash
\* or a loss is taken over, and the loss is reported and leads to a restart,
\* since the runner itself never enters the election again.
Served ==
  \A i \in Readers \cap Sound :
    []<>(proc[i].ctx = "done" \/ \E j \in Instances : proc[j].lead = "live")

-----------------------------------------------------------------------------
(* What the documentation says and the code does not do. *)

\* "The loop will run until the given context is done or the queue is shutdown"
\* (Process): an instance that has lost its leadership takes no more items from
\* its queue, at the very latest when another instance leads.
NoWorkAside ==
  [][\A i, j \in Instances :
       Take(i) /\ proc[i].lead = "done" => proc[j].lead # "live"]_vars

=============================================================================
