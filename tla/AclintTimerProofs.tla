-------------------------- MODULE AclintTimerProofs --------------------------
(***************************************************************************)
(* Proofs about AclintTimer for any number of worker threads, any register *)
(* values, any clock bound and any limit on the delay.                     *)
(***************************************************************************)
EXTENDS AclintTimer, TLAPS

(* worker_active as a token: it is set exactly while one worker polls or   *)
(* the hart thread is about to spawn one, and a deadline stored while it   *)
(* is clear is about to be seen by whoever comes next.                     *)
WorkerInv ==
    /\ wpc \in [Workers -> WorkerPcs]
    /\ OneWorker
    /\ (\E w \in Workers : wpc[w] \in Owning) => workerActive /\ gpc # "spawn"
    /\ workerActive => gpc = "spawn" \/ \E w \in Workers : wpc[w] \in Owning
    /\ gpc = "spawn" => workerActive
    /\ deadline # Never /\ ~workerActive /\ ~spawnFailed =>
          \/ gpc = "activate"
          \/ \E w \in Workers : wpc[w] \in {"recheck", "reclaim"}

(* The hart thread's own steps that neither take nor give the token.       *)
LEMMA TokenStill ==
    ASSUME WorkerInv, UNCHANGED <<wpc, workerActive, spawnFailed>>,
           gpc # "spawn", gpc' # "spawn",
           deadline' # Never => gpc' = "activate" \/ (gpc # "activate"
                                                       /\ deadline' = deadline)
    PROVE  WorkerInv'
BY DEF WorkerInv, OneWorker

(* Every step keeps the token.                                             *)
LEMMA WorkerInvStep ==
    ASSUME WorkerInv, [Next]_vars
    PROVE  WorkerInv'
<1> USE DEF regs, hart, workers, history
<1>1. CASE Tick \/ WfiExpires \/ UNCHANGED vars
  BY <1>1 DEF Tick, WfiExpires, vars, WorkerInv, OneWorker
<1>2. ASSUME NEW v \in Values \cup {Never}, WriteMtimecmp(v) \/ WriteMtime(v)
      PROVE  WorkerInv'
  BY <1>2, TokenStill DEF WriteMtimecmp, WriteMtime, CancelTimer
<1>3. CASE ResetRuntime \/ ResetRegs \/ LowerOutputs
  BY <1>3, TokenStill DEF ResetRuntime, CancelTimer, ResetRegs, LowerOutputs,
     Return
<1>4. CASE StoreMtimecmp \/ DriveLine \/ ScheduleTimer \/ StoreDeadline
  BY <1>4, TokenStill DEF StoreMtimecmp, DriveLine, ScheduleTimer, StoreDeadline
<1>5. CASE StoreMtime \/ UpdateMti \/ UpdateMtiLine \/ UpdateWfiDeadline
  BY <1>5, TokenStill DEF StoreMtime, UpdateMti, UpdateMtiLine,
     UpdateWfiDeadline, Return
<1>6. CASE Activate
  BY <1>6 DEF Activate, WorkerInv, OneWorker
<1>7. CASE Spawn
  BY <1>7 DEF Spawn, WorkerInv, OneWorker, Owning, WorkerPcs
<1>8. CASE SpawnFails
  BY <1>8 DEF SpawnFails, WorkerInv, OneWorker
<1>9. ASSUME NEW w \in Workers, WorkerStep(w) PROVE WorkerInv'
  <2> USE <1>9 DEF WorkerInv, OneWorker, Owning, WorkerPcs, WorkerFrame, At,
          GoTo, Forget
  <2>1. CASE Load(w)
    BY <2>1 DEF Load
  <2>2. CASE Deactivate(w)
    BY <2>2 DEF Deactivate
  <2>3. CASE Recheck(w)
    BY <2>3 DEF Recheck
  <2>4. CASE Reclaim(w)
    BY <2>4 DEF Reclaim
  <2>5. CASE Check(w)
    BY <2>5 DEF Check
  <2>6. CASE Claim(w)
    BY <2>6 DEF Claim
  <2>7. CASE Fire(w)
    BY <2>7 DEF Fire
  <2>8. CASE WakeUp(w)
    BY <2>8 DEF WakeUp
  <2> QED
    BY <2>1, <2>2, <2>3, <2>4, <2>5, <2>6, <2>7, <2>8 DEF WorkerStep
<1> QED
  BY <1>1, <1>2, <1>3, <1>4, <1>5, <1>6, <1>7, <1>8, <1>9 DEF Next, HartStep

(* It holds before the first register write.                               *)
LEMMA WorkerInvInit == Init => WorkerInv
BY DEF Init, WorkerInv, OneWorker, Owning, WorkerPcs

(* However often mtimecmp is retargeted, one worker polls for the hart.    *)
THEOREM AtMostOneWorker == Spec => []OneWorker
<1>1. WorkerInv => OneWorker
  BY DEF WorkerInv
<1> QED
  BY <1>1, WorkerInvInit, WorkerInvStep, PTL DEF Spec

(* No deadline is stored that nobody will look at.                         *)
THEOREM DeadlineHasWorker == Spec => []NoOrphanDeadline
<1>1. WorkerInv => NoOrphanDeadline
  BY DEF WorkerInv, NoOrphanDeadline, Owning
<1> QED
  BY <1>1, WorkerInvInit, WorkerInvStep, PTL DEF Spec

-----------------------------------------------------------------------------
(* The types, flags and numbers apart.  The clock is never behind the      *)
(* epoch, so mtime and every distance computed from it are natural.        *)
FlagInv ==
    /\ line \in BOOLEAN /\ workerActive \in BOOLEAN /\ gpend \in BOOLEAN
    /\ overtaken \in BOOLEAN /\ spawnFailed \in BOOLEAN

TimeInv ==
    /\ now \in Nat /\ base \in Nat /\ epoch \in Nat /\ mtimecmp \in Nat
    /\ deadline \in Nat /\ wfiDeadline \in Nat
    /\ gpc \in HartPcs /\ gval \in Nat
    /\ wpc \in [Workers -> WorkerPcs]
    /\ wdl \in [Workers -> Nat]
    /\ epoch <= now

(* Flags stay flags.                                                       *)
LEMMA FlagInvStep ==
    ASSUME TimeInv, FlagInv, [Next]_vars
    PROVE  FlagInv'
<1> USE DEF FlagInv, regs, hart, workers, history, Return, CancelTimer
<1>1. CASE Tick \/ WfiExpires \/ UNCHANGED vars
  BY <1>1, Zenon DEF Tick, WfiExpires, vars
<1>2. ASSUME NEW v \in Values \cup {Never}, WriteMtimecmp(v) \/ WriteMtime(v)
      PROVE  FlagInv'
  BY <1>2, Zenon DEF WriteMtimecmp, WriteMtime
<1>3. CASE ResetRuntime \/ ResetRegs \/ LowerOutputs
  BY <1>3, Zenon DEF ResetRuntime, ResetRegs, LowerOutputs
<1>4. CASE StoreMtimecmp \/ UpdateMti
  <2>1. UNCHANGED <<line, workerActive, overtaken, spawnFailed>>
    BY <1>4 DEF StoreMtimecmp, UpdateMti
  <2>2. Mtime \in Nat /\ gval \in Nat /\ mtimecmp \in Nat
    BY DEF TimeInv, Mtime
  <2>3. (Mtime >= gval) \in BOOLEAN /\ (Mtime >= mtimecmp) \in BOOLEAN
    BY <2>2
  <2>4. gpend' \in BOOLEAN
    BY <1>4, <2>3, Zenon DEF StoreMtimecmp, UpdateMti
  <2> QED
    BY <2>1, <2>4, Zenon
<1>5. CASE Activate \/ Spawn \/ SpawnFails \/ UpdateWfiDeadline
  BY <1>5, Zenon DEF Activate, Spawn, SpawnFails, UpdateWfiDeadline
<1>6. CASE DriveLine \/ ScheduleTimer \/ StoreMtime \/ UpdateMtiLine
  BY <1>6, Zenon DEF DriveLine, ScheduleTimer, StoreMtime, UpdateMtiLine
<1>8. CASE StoreDeadline
  <2>1. UNCHANGED <<line, workerActive, gpend, spawnFailed>>
    BY <1>8 DEF StoreDeadline
  <2>2. overtaken' \in BOOLEAN
    BY <1>8 DEF StoreDeadline
  <2> QED
    BY <2>1, <2>2, Zenon
<1>7. ASSUME NEW w \in Workers, WorkerStep(w) PROVE FlagInv'
  BY <1>7, Zenon DEF WorkerStep, Load, Deactivate, Recheck, Reclaim, Check,
     Claim, Fire, WakeUp, WorkerFrame
<1> QED
  BY <1>1, <1>2, <1>3, <1>4, <1>5, <1>6, <1>7, <1>8 DEF Next, HartStep

(* Numbers stay natural.                                                   *)
LEMMA TimeInvStep ==
    ASSUME TimeInv, [Next]_vars
    PROVE  TimeInv'
<1> USE TimeAssumption DEF TimeInv, regs, hart, workers, history,
        HartPcs, Mtime
<1>1. CASE Tick \/ WfiExpires \/ UNCHANGED vars
  BY <1>1 DEF Tick, WfiExpires, vars
<1>2. ASSUME NEW v \in Values \cup {Never}, WriteMtimecmp(v) \/ WriteMtime(v)
      PROVE  TimeInv'
  BY <1>2 DEF WriteMtimecmp, WriteMtime, CancelTimer
<1>3. CASE ResetRuntime \/ ResetRegs
  BY <1>3 DEF ResetRuntime, CancelTimer, ResetRegs
<1>4. CASE LowerOutputs
  BY <1>4 DEF LowerOutputs, Return
<1>5. CASE StoreMtimecmp \/ DriveLine
  BY <1>5 DEF StoreMtimecmp, DriveLine
<1>6. CASE ScheduleTimer
  BY <1>6 DEF ScheduleTimer
<1>7. CASE StoreDeadline
  BY <1>7 DEF StoreDeadline, AtMost
<1>8. CASE Activate
  BY <1>8 DEF Activate
<1>9. CASE Spawn
  BY <1>9 DEF Spawn, WorkerPcs, Owning
<1>10. CASE SpawnFails
  BY <1>10 DEF SpawnFails
<1>11. CASE UpdateWfiDeadline
  BY <1>11 DEF UpdateWfiDeadline, AtMost, Return
<1>12. CASE StoreMtime \/ UpdateMti \/ UpdateMtiLine
  BY <1>12 DEF StoreMtime, UpdateMti, UpdateMtiLine, Return
<1>13. ASSUME NEW w \in Workers, WorkerStep(w) PROVE TimeInv'
  BY <1>13 DEF WorkerStep, Load, Deactivate, Recheck, Reclaim, Check, Claim,
     Fire, WakeUp, WorkerFrame, At, GoTo, Forget, WorkerPcs, Owning
<1> QED
  BY <1>1, <1>2, <1>3, <1>4, <1>5, <1>6, <1>7, <1>8, <1>9, <1>10, <1>11, <1>12,
     <1>13 DEF Next, HartStep

(* The type invariant of AclintTimer holds in every reachable state.       *)
THEOREM TypeCorrect == Spec => []TypeOK
<1>1. Init => FlagInv
  BY Zenon DEF Init, FlagInv
<1>2. Init => TimeInv
  BY TimeAssumption DEF Init, TimeInv, HartPcs, WorkerPcs
<1>3. FlagInv /\ TimeInv => TypeOK
  BY DEF FlagInv, TimeInv, TypeOK
<1> QED
  BY <1>1, <1>2, <1>3, FlagInvStep, TimeInvStep, PTL DEF Spec
-----------------------------------------------------------------------------
(* Where a handler may leave a deadline to be served.                      *)
Armed == {"idle", "activate", "spawn", "wfi"}

(* Unless a worker was overtaken by a cancel, a deadline in force lies at  *)
(* or after the moment mtime reaches mtimecmp, so a worker that claims it  *)
(* raises the line in time and while the registers it fires for are still  *)
(* there.                                                                  *)
LineInv ==
    /\ deadline # Never => gpc \in Armed
    /\ \A w \in Workers : wpc[w] \in {"check", "claim"} => wdl[w] # Never
    /\ \A w \in Workers : wpc[w] = "claim" => now >= wdl[w]
    /\ \A w \in Workers : wpc[w] = "fire" /\ ~overtaken =>
                            gpc \in Armed /\ Mtime >= mtimecmp
    /\ gpc \in {"line", "updateLine"} /\ gpend => Mtime >= mtimecmp
    /\ gpc = "store" => gval + Mtime >= mtimecmp
    /\ ~overtaken /\ deadline # Never => deadline + base >= mtimecmp + epoch
    /\ line /\ ~overtaken /\ gpc \in Armed \cup {"sched", "store"} =>
          Mtime >= mtimecmp

(* Every step keeps it.                                                    *)
LEMMA LineInvStep ==
    ASSUME TimeInv, LineInv, [Next]_vars
    PROVE  LineInv'
<1> USE TimeAssumption DEF TimeInv, LineInv, Armed, regs, hart, workers,
        history, Mtime, HartPcs
<1>1. CASE Tick
  BY <1>1 DEF Tick
<1>2. CASE WfiExpires \/ UNCHANGED vars
  BY <1>2 DEF WfiExpires, vars
<1>3. ASSUME NEW v \in Values \cup {Never}, WriteMtimecmp(v) \/ WriteMtime(v)
      PROVE  LineInv'
  BY <1>3 DEF WriteMtimecmp, WriteMtime, CancelTimer
<1>4. CASE ResetRuntime
  BY <1>4 DEF ResetRuntime, CancelTimer
<1>5. CASE ResetRegs
  BY <1>5 DEF ResetRegs
<1>6. CASE LowerOutputs
  BY <1>6 DEF LowerOutputs, Return
<1>7. CASE StoreMtimecmp
  BY <1>7 DEF StoreMtimecmp
<1>8. CASE DriveLine
  BY <1>8 DEF DriveLine
<1>9. CASE ScheduleTimer
  BY <1>9 DEF ScheduleTimer
<1>10. CASE StoreDeadline
  <2>0. ~overtaken' => ~overtaken /\ ~(gval > Cap)
    BY <1>10, Zenon DEF StoreDeadline
  <2>1. ~overtaken' => ~overtaken /\ gval <= Cap
    BY <2>0
  <2>2. gval <= Cap => deadline' = now + gval
    BY <1>10 DEF StoreDeadline, AtMost
  <2>3. ~overtaken' => deadline' + base >= mtimecmp + epoch
    BY <1>10, <2>1, <2>2 DEF StoreDeadline
  <2> QED
    BY <1>10, <2>1, <2>3 DEF StoreDeadline
<1>11. CASE Activate \/ SpawnFails
  BY <1>11 DEF Activate, SpawnFails
<1>12. CASE Spawn
  BY <1>12 DEF Spawn
<1>13. CASE UpdateWfiDeadline
  BY <1>13 DEF UpdateWfiDeadline, Return
<1>14. CASE StoreMtime
  BY <1>14 DEF StoreMtime
<1>15. CASE UpdateMti
  BY <1>15 DEF UpdateMti
<1>16. CASE UpdateMtiLine
  BY <1>16 DEF UpdateMtiLine, Return
<1>17. ASSUME NEW w \in Workers, WorkerStep(w) PROVE LineInv'
  <2> USE <1>17 DEF WorkerFrame, At, GoTo, Forget
  <2>1. CASE Load(w)
    BY <2>1 DEF Load
  <2>2. CASE Deactivate(w) \/ Recheck(w) \/ Reclaim(w) \/ WakeUp(w)
    BY <2>2 DEF Deactivate, Recheck, Reclaim, WakeUp
  <2>3. CASE Check(w)
    BY <2>3 DEF Check
  <2>4. CASE Claim(w)
    BY <2>4 DEF Claim
  <2>5. CASE Fire(w)
    BY <2>5 DEF Fire
  <2> QED
    BY <2>1, <2>2, <2>3, <2>4, <2>5 DEF WorkerStep
<1> QED
  BY <1>1, <1>2, <1>3, <1>4, <1>5, <1>6, <1>7, <1>8, <1>9, <1>10, <1>11, <1>12,
     <1>13, <1>14, <1>15, <1>16, <1>17 DEF Next, HartStep

(* The MTI line tells the truth, but for the two known exceptions.         *)
THEOREM LineTellsTruth == Spec => []LineHonest
<1>1. Init => TimeInv /\ LineInv
  BY TimeAssumption DEF Init, TimeInv, LineInv, Armed, HartPcs, WorkerPcs, Mtime
<1>2. LineInv => LineHonest
  BY DEF LineInv, LineHonest, Armed
<1> QED
  BY <1>1, <1>2, TimeInvStep, LineInvStep, PTL DEF Spec

=============================================================================
