-------------------------- MODULE ControllerProofs --------------------------
(***************************************************************************)
(* How controllers come up under the DefaultRunner, for any number of      *)
(* controllers and handlers, any room in the error channel, and a context  *)
(* that may end at any moment.                                             *)
(***************************************************************************)
EXTENDS Controller, TLAPS

\* The initial state satisfies every part.
LEMMA InitIndInv == Init => IndInv
<1> SUFFICES ASSUME Init PROVE IndInv
  OBVIOUS
<1> USE ControllerAssumption DEF ControllerAssumption, Init
<1>1. TypeOK
  <2>1. /\ processor \in [Controllers -> Seq(Handlers)]
        /\ errch \in 0 .. ErrCap
        /\ loop \in [Controllers -> Nat] /\ span \in [Controllers -> Nat]
    OBVIOUS
  <2>2. /\ init \in [Controllers -> {"off", "syncing", "failed", "done"}]
        /\ run \in [Handlers -> {"new", "running", "stopped"}]
        /\ worker \in [Handlers -> {"off", "busy", "never", "gone"}]
    OBVIOUS
  <2> QED
    BY <2>1, <2>2 DEF TypeOK
<1>2. InitInv
  BY DEF InitInv
<1>3. RunInv /\ SyncedBeforeWork
  BY DEF RunInv, SyncedBeforeWork
<1> QED
  BY <1>1, <1>2, <1>3 DEF IndInv

-----------------------------------------------------------------------------
(* The steps in groups, and what each group leaves alone. *)

Consumer ==
  (\E c \in Controllers, h \in Handlers : AddHandler(c, h))
    \/ Cancel \/ ReadError

Initialize ==
  \/ RunnerInit \/ RunnerRun
  \/ \E c \in Controllers :
       Sync(c) \/ InitSynced(c) \/ InitFailed(c) \/ InitReport(c)

Execute ==
  \/ \E c \in Controllers :
       ControllerRun(c) \/ ProcessorRun(c) \/ ProcessorStop(c)
  \/ \E h \in Handlers : WorkerBegin(h) \/ WorkerExit(h)

\* Every step is one of the consumer, of Init or of Run.
LEMMA NextGroups == Next <=> Consumer \/ Initialize \/ Execute
BY DEF Next, Consumer, Initialize, Execute

\* The context ends once and for good, and caches stay synced.
LEMMA OneWay ==
  ASSUME TypeOK, Next
  PROVE  /\ ctx = "done" => ctx' = "done"
         /\ synced \subseteq synced' /\ reported \subseteq reported'
<1> USE DEF setupVars, initVars, runVars
<1>1. CASE Consumer
  BY <1>1 DEF Consumer, AddHandler, Cancel, ReadError
<1>2. CASE Initialize
  BY <1>2 DEF Initialize, RunnerInit, RunnerRun, Sync, InitSynced, InitFailed,
              InitReport
<1>3. CASE Execute
  BY <1>3 DEF Execute, ControllerRun, ProcessorRun, ProcessorStop, WorkerBegin,
              WorkerExit
<1> QED
  BY <1>1, <1>2, <1>3, NextGroups

-----------------------------------------------------------------------------
(* Types. *)

\* Every step keeps the types.
LEMMA TypeStep ==
  ASSUME TypeOK, [Next]_vars
  PROVE  TypeOK'
<1> USE ControllerAssumption DEF ControllerAssumption, TypeOK, setupVars,
        initVars, runVars, vars
<1>1. ASSUME NEW c \in Controllers, NEW h \in Handlers, AddHandler(c, h)
      PROVE  TypeOK'
  <2>1. Append(processor[c], h) \in Seq(Handlers)
    OBVIOUS
  <2>2. processor' \in [Controllers -> Seq(Handlers)]
    BY <1>1, <2>1 DEF AddHandler
  <2>3. registered' \in SUBSET Handlers
    BY <1>1 DEF AddHandler
  <2> QED
    BY <1>1, <2>2, <2>3 DEF AddHandler
<1>2. CASE Cancel \/ ReadError
  BY <1>2 DEF Cancel, ReadError
<1>3. CASE RunnerInit \/ RunnerRun
  BY <1>3 DEF RunnerInit, RunnerRun
<1>4. ASSUME NEW c \in Controllers,
             Sync(c) \/ InitSynced(c) \/ InitFailed(c) \/ InitReport(c)
      PROVE  TypeOK'
  <2>1. CASE Sync(c)
    BY <2>1 DEF Sync
  <2>2. CASE InitSynced(c)
    BY <2>2 DEF InitSynced
  <2>3. CASE InitFailed(c)
    BY <2>3 DEF InitFailed
  <2>4. CASE InitReport(c)
    <3>1. errch' \in 0 .. ErrCap
      BY <2>4 DEF InitReport
    <3>2. /\ reported' \in SUBSET Controllers
          /\ init' \in [Controllers -> {"off", "syncing", "failed", "done"}]
      BY <2>4 DEF InitReport
    <3> QED
      BY <2>4, <3>1, <3>2 DEF InitReport
  <2> QED
    BY <1>4, <2>1, <2>2, <2>3, <2>4
<1>5. ASSUME NEW c \in Controllers, ControllerRun(c)
      PROVE  TypeOK'
  <2>1. Len(processor[c]) \in Nat
    OBVIOUS
  <2> QED
    BY <1>5, <2>1 DEF ControllerRun
<1>6. ASSUME NEW c \in Controllers, ProcessorRun(c) \/ ProcessorStop(c)
      PROVE  TypeOK'
  <2>1. run' \in [Handlers -> {"new", "running", "stopped"}]
    BY <1>6 DEF ProcessorRun, ProcessorStop
  <2>2. loop' \in [Controllers -> Nat]
    <3>1. \/ loop' = loop
          \/ loop' = [loop EXCEPT ![c] = loop[c] + 1]
      BY <1>6 DEF ProcessorRun, ProcessorStop
    <3>2. loop \in [Controllers -> Nat] /\ loop[c] + 1 \in Nat
      OBVIOUS
    <3> QED
      BY <3>1, <3>2
  <2>3. UNCHANGED <<ctx, setupVars, runner, initVars, span, worker>>
    BY <1>6 DEF ProcessorRun, ProcessorStop
  <2> QED
    BY <2>1, <2>2, <2>3
<1>7. ASSUME NEW h \in Handlers, WorkerBegin(h) \/ WorkerExit(h)
      PROVE  TypeOK'
  BY <1>7 DEF WorkerBegin, WorkerExit
<1>8. CASE UNCHANGED vars
  BY <1>8
<1> QED
  BY <1>1, <1>2, <1>3, <1>4, <1>5, <1>6, <1>7, <1>8 DEF Next

-----------------------------------------------------------------------------
(* Init of the controllers. *)

\* Every step keeps what is known of the Init calls.
LEMMA InitStep ==
  ASSUME TypeOK, InitInv, [Next]_vars
  PROVE  InitInv'
<1> USE DEF TypeOK, InitInv, setupVars, initVars, runVars
<1>1. CASE Consumer
  BY <1>1 DEF Consumer, AddHandler, Cancel, ReadError
<1>2. CASE RunnerInit
  BY <1>2 DEF RunnerInit
<1>3. CASE RunnerRun
  BY <1>3 DEF RunnerRun
<1>4. ASSUME NEW c \in Controllers, Sync(c)
      PROVE  InitInv'
  BY <1>4 DEF Sync
<1>5. ASSUME NEW c \in Controllers, InitSynced(c)
      PROVE  InitInv'
  BY <1>5 DEF InitSynced
<1>6. ASSUME NEW c \in Controllers, InitFailed(c)
      PROVE  InitInv'
  BY <1>6 DEF InitFailed
<1>7. ASSUME NEW c \in Controllers, InitReport(c)
      PROVE  InitInv'
  BY <1>7 DEF InitReport
<1>8. CASE Execute
  BY <1>8 DEF Execute, ControllerRun, ProcessorRun, ProcessorStop, WorkerBegin,
              WorkerExit
<1>9. CASE UNCHANGED vars
  BY <1>9 DEF vars
<1> QED
  BY <1>1, <1>2, <1>3, <1>4, <1>5, <1>6, <1>7, <1>8, <1>9, NextGroups
  DEF Initialize

-----------------------------------------------------------------------------
(* Run of the controllers and of their processors. *)

\* Every step keeps what is known of the Run calls.
LEMMA RunStep ==
  ASSUME TypeOK, RunInv, [Next]_vars
  PROVE  RunInv'
<1> USE DEF TypeOK, RunInv, setupVars, initVars, runVars
<1>1. CASE Consumer \/ Initialize
  <2>1. UNCHANGED <<loop, run>> /\ (runner = "returned" => runner' = "returned")
    BY <1>1 DEF Consumer, Initialize, AddHandler, Cancel, ReadError, RunnerInit,
                RunnerRun, Sync, InitSynced, InitFailed, InitReport
  <2> QED
    BY <2>1
<1>2. ASSUME NEW c \in Controllers, ControllerRun(c)
      PROVE  RunInv'
  BY <1>2 DEF ControllerRun
<1>3. ASSUME NEW c \in Controllers, ProcessorRun(c) \/ ProcessorStop(c)
      PROVE  RunInv'
  <2>1. runner = "returned" /\ runner' = runner
    BY <1>3 DEF ProcessorRun, ProcessorStop
  <2> QED
    BY <2>1
<1>4. ASSUME NEW h \in Handlers, WorkerBegin(h) \/ WorkerExit(h)
      PROVE  RunInv'
  BY <1>4 DEF WorkerBegin, WorkerExit
<1>5. CASE UNCHANGED vars
  BY <1>5 DEF vars
<1> QED
  BY <1>1, <1>2, <1>3, <1>4, <1>5, NextGroups DEF Execute

\* While the context lives no Init has failed: once the runner has returned,
\* every cache is synced.
LEMMA LiveSynced ==
  ASSUME TypeOK, InitInv, runner = "returned", ctx = "live"
  PROVE  synced = Controllers
<1>1. reported = {}
  BY DEF InitInv
<1>2. \A c \in Controllers : c \in synced
  BY <1>1 DEF InitInv
<1> QED
  BY <1>2 DEF TypeOK

\* Work starts behind the barrier of the Init calls, and no cache is unsynced
\* again.
LEMMA WorkStep ==
  ASSUME TypeOK, InitInv, RunInv, SyncedBeforeWork, [Next]_vars
  PROVE  SyncedBeforeWork'
<1> USE DEF SyncedBeforeWork
<1>1. synced = Controllers => synced' = Controllers
  <2>1. synced \subseteq synced' /\ synced' \subseteq Controllers
    BY OneWay, TypeStep DEF TypeOK, vars, initVars
  <2> QED
    BY <2>1
<1>2. ASSUME NEW h \in Handlers, WorkerBegin(h)
      PROVE  SyncedBeforeWork'
  <2>1. /\ run[h] # "new" /\ synced' = synced
        /\ worker' = [worker EXCEPT ![h] = IF ctx = "live" THEN "busy"
                                           ELSE "never"]
    BY <1>2 DEF WorkerBegin, initVars
  <2>2. CASE ctx = "live"
    BY <2>1, <2>2, LiveSynced DEF RunInv
  <2>3. CASE ctx # "live"
    BY <2>1, <2>3 DEF TypeOK
  <2> QED
    BY <2>2, <2>3
<1>3. ASSUME NEW h \in Handlers, WorkerExit(h)
      PROVE  SyncedBeforeWork'
  <2>1. worker[h] = "busy" /\ synced' = synced
    BY <1>3 DEF WorkerExit, initVars
  <2> QED
    BY <2>1
<1>4. CASE Consumer \/ Initialize \/ UNCHANGED vars
  <2>1. worker' = worker
    BY <1>4 DEF Consumer, Initialize, AddHandler, Cancel, ReadError, RunnerInit,
                RunnerRun, Sync, InitSynced, InitFailed, InitReport, runVars,
                vars
  <2> QED
    BY <1>1, <2>1
<1>5. ASSUME NEW c \in Controllers,
             ControllerRun(c) \/ ProcessorRun(c) \/ ProcessorStop(c)
      PROVE  SyncedBeforeWork'
  <2>1. worker' = worker
    BY <1>5 DEF ControllerRun, ProcessorRun, ProcessorStop
  <2> QED
    BY <1>1, <2>1
<1> QED
  BY <1>2, <1>3, <1>4, <1>5, NextGroups DEF Execute

-----------------------------------------------------------------------------
(* The theorems. *)

\* The parts of the invariant hold together in every reachable state.
THEOREM Invariance == Spec => []IndInv
<1>1. IndInv /\ [Next]_vars => IndInv'
  BY TypeStep, InitStep, RunStep, WorkStep DEF IndInv
<1> QED
  BY <1>1, InitIndInv, PTL DEF Spec

\* Every variable of the controllers and the runner keeps its type.
THEOREM TypeCorrect == Spec => []TypeOK
<1>1. IndInv => TypeOK
  BY DEF IndInv
<1> QED
  BY <1>1, Invariance, PTL

\* However many controllers there are, in whatever order their caches sync and
\* whenever the context ends, no worker processes an item before all caches of
\* the group are complete.
THEOREM WorkAfterSync == Spec => []SyncedBeforeWork
<1>1. IndInv => SyncedBeforeWork
  BY DEF IndInv
<1> QED
  BY <1>1, Invariance, PTL

\* The runner goes on over a cache that did not sync only after its error was
\* sent, however little room the channel has.
THEOREM FailuresReported == Spec => []NoSilentFailure
<1>1. IndInv => NoSilentFailure
  BY DEF IndInv, TypeOK, InitInv, NoSilentFailure
<1> QED
  BY <1>1, Invariance, PTL

=============================================================================
