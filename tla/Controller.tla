----------------------------- MODULE Controller -----------------------------
(***************************************************************************)
(* The life of a set of controllers (controller/controller.go) under the   *)
(* DefaultRunner (controller/runner.go): the consumer registers handlers,  *)
(* then the runner initializes all controllers in parallel, waits for all  *)
(* of them, and runs each in a goroutine of its own, in which the          *)
(* controller runs the processors of its handlers one after the other.     *)
(*                                                                         *)
(* What a processor does while it runs is the subject of Processor; here   *)
(* it is only known whether its workers have begun, and its queue is open  *)
(* until the processor has stopped.                                        *)
(***************************************************************************)
EXTENDS Integers, Sequences, Functions

CONSTANTS
  Controllers,  \* the runnables given to the runner
  Handlers,     \* the names of the handlers the consumer may register
  MaxHandlers,  \* bound: handlers of one controller
  ErrCap,       \* the capacity of the error channel
  Concurrent    \* whether the consumer reads errors while the runner runs

ASSUME ControllerAssumption ==
  MaxHandlers \in Nat /\ ErrCap \in Nat \ {0} /\ Concurrent \in BOOLEAN

VARIABLES
  ctx,         \* "live" or "done": the context given to the runner
  processor,   \* the processors of each controller, in registration order
  registered,  \* the handler names whose queue length is registered
  runner,      \* the runner: "setup", "waiting" or "returned"
  init,        \* Init of each controller: "off", "syncing", "failed", "done"
  synced,      \* the controllers whose cache has synced
  errch,       \* the number of errors in the channel
  loop,        \* the position of Run in the processors, 0 before it starts
  span,        \* the number of processors Run goes through
  run,         \* Run of each processor: "new", "running" or "stopped"
  worker,      \* the workers of each processor: "off", "busy", "never", "gone"
  reported     \* history: the controllers whose Init has reported an error

setupVars == <<processor, registered>>
initVars == <<init, synced, errch, reported>>
runVars == <<loop, span, run, worker>>
vars == <<ctx, runner, setupVars, initVars, runVars>>

TypeOK ==
  /\ ctx \in {"live", "done"}
  /\ processor \in [Controllers -> Seq(Handlers)]
  /\ registered \in SUBSET Handlers
  /\ runner \in {"setup", "waiting", "returned"}
  /\ init \in [Controllers -> {"off", "syncing", "failed", "done"}]
  /\ synced \in SUBSET Controllers
  /\ errch \in 0 .. ErrCap
  /\ loop \in [Controllers -> Nat]
  /\ span \in [Controllers -> Nat]
  /\ run \in [Handlers -> {"new", "running", "stopped"}]
  /\ worker \in [Handlers -> {"off", "busy", "never", "gone"}]
  /\ reported \in SUBSET Controllers

Init ==
  /\ ctx = "live"
  /\ processor = [c \in Controllers |-> <<>>]
  /\ registered = {}
  /\ runner = "setup"
  /\ init = [c \in Controllers |-> "off"]
  /\ synced = {}
  /\ errch = 0
  /\ loop = [c \in Controllers |-> 0]
  /\ span = [c \in Controllers |-> 0]
  /\ run = [h \in Handlers |-> "new"]
  /\ worker = [h \in Handlers |-> "off"]
  /\ reported = {}

-----------------------------------------------------------------------------
(* The consumer. *)

\* Creating the queue registers its length under the name of the handler, so
\* every handler has a name of its own; only then the informer is asked, which
\* refuses once it has been stopped.  The consumer is blocked in the runner
\* while this waits, and free to add handlers before and after.
AddHandler(c, h) ==
  /\ runner # "waiting"
  /\ h \notin registered
  /\ Len(processor[c]) < MaxHandlers
  /\ registered' = registered \cup {h}
  /\ \/ processor' = [processor EXCEPT ![c] = Append(@, h)]
     \/ init[c] # "off" /\ ctx = "done" /\ UNCHANGED processor
  /\ UNCHANGED <<ctx, runner, initVars, runVars>>

Cancel ==
  /\ ctx = "live"
  /\ ctx' = "done"
  /\ UNCHANGED <<setupVars, runner, initVars, runVars>>

ReadError ==
  /\ Concurrent \/ runner = "returned"
  /\ errch > 0
  /\ errch' = errch - 1
  /\ UNCHANGED <<ctx, setupVars, runner, init, synced, runVars, reported>>

-----------------------------------------------------------------------------
(* The runner and Init of the controllers. *)

\* The runner calls Init of every controller in a goroutine.
RunnerInit ==
  /\ runner = "setup"
  /\ runner' = "waiting"
  /\ init' = [c \in Controllers |-> "syncing"]
  /\ UNCHANGED <<ctx, setupVars, synced, errch, runVars, reported>>

\* The informer (client-go) has listed all resources.
Sync(c) ==
  /\ init[c] # "off"
  /\ c \notin synced
  /\ synced' = synced \cup {c}
  /\ UNCHANGED <<ctx, setupVars, runner, init, errch, runVars, reported>>

InitSynced(c) ==
  /\ init[c] = "syncing"
  /\ c \in synced
  /\ init' = [init EXCEPT ![c] = "done"]
  /\ UNCHANGED <<ctx, setupVars, runner, synced, errch, runVars, reported>>

\* Mutated form of InitFailed: the wait ignores the context.
InitFailedNever(c) ==
  /\ init[c] = "syncing"
  /\ ctx = "done" /\ c \in synced
  /\ init' = [init EXCEPT ![c] = "failed"]
  /\ UNCHANGED <<ctx, setupVars, runner, synced, errch, runVars, reported>>

\* Mutated form of InitFailed: the error is not sent.
InitFailedSilently(c) ==
  /\ init[c] = "syncing"
  /\ ctx = "done"
  /\ init' = [init EXCEPT ![c] = "done"]
  /\ UNCHANGED <<ctx, setupVars, runner, synced, errch, runVars, reported>>

\* WaitForCacheSync gives up with the context, synced or not.
InitFailed(c) ==
  /\ init[c] = "syncing"
  /\ ctx = "done"
  /\ init' = [init EXCEPT ![c] = "failed"]
  /\ UNCHANGED <<ctx, setupVars, runner, synced, errch, runVars, reported>>

\* The send blocks while the channel is full.
InitReport(c) ==
  /\ init[c] = "failed"
  /\ errch < ErrCap
  /\ errch' = errch + 1
  /\ init' = [init EXCEPT ![c] = "done"]
  /\ reported' = reported \cup {c}
  /\ UNCHANGED <<ctx, setupVars, runner, synced, runVars>>

\* Mutated form of RunnerRun: the runner does not wait for the slowest Init.
RunnerRunEarly ==
  /\ runner = "waiting"
  /\ \E c \in Controllers : init[c] = "done"
  /\ runner' = "returned"
  /\ UNCHANGED <<ctx, setupVars, initVars, runVars>>

\* All Inits have returned: every controller runs in a goroutine, whether or
\* not an Init has failed.
RunnerRun ==
  /\ runner = "waiting"
  /\ \A c \in Controllers : init[c] = "done"
  /\ runner' = "returned"
  /\ UNCHANGED <<ctx, setupVars, initVars, runVars>>

-----------------------------------------------------------------------------
(* Run of the controllers and of their processors. *)

\* Mutated form of ControllerRun: the runner calls Run without go.
ControllerRunInTurn(c) ==
  /\ runner = "returned"
  /\ loop[c] = 0
  /\ \A d \in Controllers : loop[d] = 0 \/ loop[d] > span[d]
  /\ loop' = [loop EXCEPT ![c] = 1]
  /\ span' = [span EXCEPT ![c] = Len(processor[c])]
  /\ UNCHANGED <<ctx, setupVars, runner, initVars, run, worker>>

\* The range loop of Run is over the processors there are when it starts.
ControllerRun(c) ==
  /\ runner = "returned"
  /\ loop[c] = 0
  /\ loop' = [loop EXCEPT ![c] = 1]
  /\ span' = [span EXCEPT ![c] = Len(processor[c])]
  /\ UNCHANGED <<ctx, setupVars, runner, initVars, run, worker>>

Current(c) == processor[c][loop[c]]

\* Mutated form of ProcessorRun: the loop runs the first processor only.
ProcessorRunFirst(c) ==
  /\ loop[c] = 1 /\ span[c] > 0
  /\ run[Current(c)] = "new"
  /\ run' = [run EXCEPT ![Current(c)] = "running"]
  /\ UNCHANGED <<ctx, setupVars, runner, initVars, loop, span, worker>>

ProcessorRun(c) ==
  /\ loop[c] \in 1 .. span[c]
  /\ run[Current(c)] = "new"
  /\ run' = [run EXCEPT ![Current(c)] = "running"]
  /\ UNCHANGED <<ctx, setupVars, runner, initVars, loop, span, worker>>

\* Run returns with the context, having shut its queue down, and the loop of
\* the controller goes on to the next processor.
ProcessorStop(c) ==
  /\ loop[c] \in 1 .. span[c]
  /\ run[Current(c)] = "running"
  /\ ctx = "done"
  /\ run' = [run EXCEPT ![Current(c)] = "stopped"]
  /\ loop' = [loop EXCEPT ![c] = @ + 1]
  /\ UNCHANGED <<ctx, setupVars, runner, initVars, span, worker>>

\* The goroutines of the workers look at the context before they process.
WorkerBegin(h) ==
  /\ run[h] # "new"
  /\ worker[h] = "off"
  /\ worker' = [worker EXCEPT ![h] = IF ctx = "live" THEN "busy" ELSE "never"]
  /\ UNCHANGED <<ctx, setupVars, runner, initVars, loop, span, run>>

\* Get reports the shutdown once the queue is empty.
WorkerExit(h) ==
  /\ run[h] = "stopped"
  /\ worker[h] = "busy"
  /\ worker' = [worker EXCEPT ![h] = "gone"]
  /\ UNCHANGED <<ctx, setupVars, runner, initVars, loop, span, run>>

-----------------------------------------------------------------------------
Next ==
  \/ \E c \in Controllers, h \in Handlers : AddHandler(c, h)
  \/ Cancel \/ ReadError
  \/ RunnerInit \/ RunnerRun
  \/ \E c \in Controllers :
       \/ Sync(c) \/ InitSynced(c) \/ InitFailed(c) \/ InitReport(c)
       \/ ControllerRun(c) \/ ProcessorRun(c) \/ ProcessorStop(c)
  \/ \E h \in Handlers : WorkerBegin(h) \/ WorkerExit(h)

Spec == Init /\ [][Next]_vars

\* Goroutines are scheduled, the API server answers while the context is live
\* and the consumer reads its errors; registering and cancelling are choices.
Fairness ==
  /\ WF_vars(RunnerRun) /\ WF_vars(ReadError)
  /\ \A c \in Controllers :
       /\ WF_vars(ctx = "live" /\ Sync(c))
       /\ WF_vars(InitSynced(c) \/ InitFailed(c))
       /\ WF_vars(InitReport(c))
       /\ WF_vars(ControllerRun(c) \/ ProcessorRun(c) \/ ProcessorStop(c))
  /\ \A h \in Handlers : WF_vars(WorkerBegin(h) \/ WorkerExit(h))

FairSpec == Spec /\ Fairness

-----------------------------------------------------------------------------
(* Safety. *)

\* No worker processes an item before the caches of ALL controllers have
\* synced: handlers may look resources of other controllers up (Init exists
\* "to coordinate multiple controllers by initializing all controllers before
\* running their processors").
SyncedBeforeWork ==
  (\E h \in Handlers : worker[h] \in {"busy", "gone"}) => synced = Controllers

\* The runner never goes on over a cache that did not sync without a report:
\* by the time it starts the processors the error of every such controller is
\* in the channel or was read, also if it had to wait for room in the channel.
NoSilentFailure ==
  runner = "returned" => Controllers = synced \cup reported

-----------------------------------------------------------------------------
(* The inductive invariant behind them. *)

\* Init of a controller runs with the runner, and ends with the cache synced or
\* with an error reported; it fails only once the context is done.
InitInv ==
  /\ \A c \in Controllers :
       /\ init[c] = "off" <=> runner = "setup"
       /\ init[c] = "done" => c \in synced \cup reported
       /\ runner = "returned" => init[c] = "done"
       /\ init[c] = "failed" => ctx = "done"
  /\ reported # {} => ctx = "done"

\* Nothing runs before the runner has returned.
RunInv ==
  /\ \A c \in Controllers : loop[c] # 0 => runner = "returned"
  /\ \A h \in Handlers : run[h] # "new" => runner = "returned"

\* Init, the barrier of the runner, Run and the workers follow each other in
\* order, for every controller and handler by itself.
IndInv == TypeOK /\ InitInv /\ RunInv /\ SyncedBeforeWork

-----------------------------------------------------------------------------
(* Liveness. *)

\* The runner returns once the context is done, however many controllers fail
\* to sync: the error channel must not block it.
RunnerReturns == runner = "waiting" /\ ctx = "done" ~> runner = "returned"

\* Once the context is done every queue is shut down and every worker returns,
\* also those of handlers whose turn came only then.
AllStop ==
  runner # "setup" /\ ctx = "done" ~>
    \A c \in Controllers :
      /\ loop[c] > 0
      /\ \A i \in 1 .. span[c] :
           /\ run[processor[c][i]] = "stopped"
           /\ worker[processor[c][i]] \in {"never", "gone"}

\* Every controller starts to work on its first handler, also while the Run of
\* other controllers blocks, unless the context ends before.
FirstHandlersWork ==
  \A c \in Controllers :
    runner = "waiting" /\ processor[c] # <<>> ~>
      ctx = "done" \/ \E i \in DOMAIN processor[c] :
                        i = 1 /\ worker[processor[c][i]] # "off"

-----------------------------------------------------------------------------
(* What the documentation says and the code does not do. *)

\* "Run starts the controller loop by creating the workers that are running
\* the actual event processing", for any number of handlers: every handler
\* added before the runner started gets to work unless the context ends.
AllHandlersWork ==
  \A h \in Handlers :
    runner = "waiting" /\ (\E c \in Controllers : h \in Range(processor[c])) ~>
      worker[h] # "off" \/ ctx = "done"

=============================================================================
