------------------------------- MODULE Kernel -------------------------------
(***************************************************************************)
(* The FreeRTOS V6.0.5 scheduler, queues and semaphores as bricklib        *)
(* configures and uses them (FreeRTOSConfig.h: no preemption by the tick,  *)
(* two priorities; every task bricklib creates has priority 1, the idle    *)
(* task 0).  All kernel data is one record, k; the operators below are     *)
(* functions from one kernel state to the next, composed by the actions.   *)
(*                                                                         *)
(* An action is one critical section, or one stretch of code that only     *)
(* touches what interrupts leave alone.  Interrupts (Tick, GiveFromISR)    *)
(* happen between any two actions.  A yield requested inside a critical    *)
(* section takes effect at its end.                                        *)
(*                                                                         *)
(* Mutexes are given by the task that took them, signals only by           *)
(* interrupts: the two ways bricklib exports semaphores to its plugins.    *)
(***************************************************************************)
EXTENDS Integers, Sequences, FiniteSets, FiniteSetsExt, SequencesExt

CONSTANTS
  Task,          \* tasks of priority 1
  Programs,      \* which calls each task makes besides taskYIELD
  Idle,          \* the idle task
  Mutex, Signal, \* semaphores, by their use
  NoTask,
  TickMod,       \* number of values of xTickCount (2^32)
  OverflowMod,   \* number of values of xNumOfOverflows
  Timeout,       \* block times the tasks use
  MaxMissed,     \* bound: ticks that arrive while the scheduler is suspended
  MaxAge         \* bound: ticks between the start of a wait and its end

ASSUME KernelAssumption ==
  /\ IsFiniteSet(Task) /\ Task # {} /\ Idle \notin Task /\ NoTask \notin Task
  /\ Programs \subseteq [Task -> SUBSET {"tick", "delay", "mutex", "signal"}]
  /\ Mutex \cap Signal = {}
  /\ TickMod \in Nat \ {0, 1, 2} /\ OverflowMod \in Nat \ {0, 1}
  /\ Timeout \subseteq 0 .. (TickMod - 1)
  /\ MaxMissed \in Nat /\ MaxAge \in Nat

Sem == Mutex \cup Signal
MaxDelay == TickMod - 1                                   \* portMAX_DELAY

VARIABLES
  k,         \* the kernel: lists, clock, scheduler flags, semaphores
  pc,        \* where each task is
  call,      \* the locals of the kernel call each task is in
  calls,     \* the program of each task, chosen at the start
  lastWake,  \* brick_tick_task's last_wake_time
  owner,     \* history: who took each mutex and has not given it back
  age        \* history: ticks since the task's wait began

kvars == <<k, pc, call, calls, lastWake, owner, age>>

NoCall == [sem |-> NoTask, ticks |-> 0, asked |-> 0, timeOut |-> <<>>, outcome |-> "none"]
-----------------------------------------------------------------------------
(* Lists.  A ready list is the sequence of its tasks from pxIndex->pxNext  *)
(* on, so the task that runs next is its head and vListInsertEnd, which    *)
(* inserts behind pxIndex and moves pxIndex to the new item, appends.      *)

Members(q) == {q[i] : i \in 1 .. Len(q)}

(* vListRemove of every task in T.                                         *)
Without(q, T) ==
  LET kept[n \in 0 .. Len(q)] ==
        IF n = 0 THEN <<>>
        ELSE IF q[n] \in T THEN kept[n - 1] ELSE Append(kept[n - 1], q[n])
  IN  kept[Len(q)]

(* The items at the head of q whose values are not beyond the limit.       *)
UpTo(q, value, limit) ==
  CHOOSE n \in 0 .. Len(q) : /\ \A i \in 1 .. n : value[q[i]] <= limit
                             /\ n < Len(q) => value[q[n + 1]] > limit

vListInsert(q, t, value) == InsertAt(q, UpTo(q, value, value[t]) + 1, t)

RemoveGenericItems(s, T) ==
  [s EXCEPT !.ready = Without(@, T), !.delayed = Without(@, T),
            !.overflow = Without(@, T), !.blocked = @ \ T]

RemoveEventItems(s, T) ==
  [s EXCEPT !.pending = Without(@, T),
            !.waiting = [m \in Sem |-> Without(@[m], T)]]

(* prvAddTaskToReadyQueue of the tasks in q, one after the other.  Their   *)
(* wake-up times are dead from here on.                                    *)
AddToReadyQueue(s, q) ==
  [s EXCEPT !.ready = @ \o q,
            !.wake = [t \in Task |-> IF t \in Members(q) THEN 0 ELSE @[t]]]

MakeReady(s, q) == AddToReadyQueue(RemoveGenericItems(s, Members(q)), q)

(* Mutant: the ready list is not rotated.                                  *)
NoRotation(s) ==
  IF s.suspended THEN [s EXCEPT !.missedYield = TRUE]
  ELSE [s EXCEPT !.current = IF s.ready = <<>> THEN Idle ELSE Head(s.ready)]

(* vTaskSwitchContext: deferred while the scheduler is suspended.          *)
vTaskSwitchContext(s) ==
  IF s.suspended THEN [s EXCEPT !.missedYield = TRUE]
  ELSE IF s.ready = <<>> THEN [s EXCEPT !.current = Idle]
  ELSE [s EXCEPT !.current = Head(s.ready), !.ready = Append(Tail(@), Head(s.ready))]

(* Mutant: a wake-up time beyond the wrap is put into the current list.    *)
NoOverflowList(s, t, wake) ==
  LET r == [RemoveGenericItems(s, {t}) EXCEPT !.wake[t] = wake]
  IN  [r EXCEPT !.delayed = vListInsert(@, t, r.wake)]

(* The common end of vTaskDelay, vTaskDelayUntil, vTaskPlaceOnEventList.   *)
AddToDelayedList(s, t, wake) ==
  LET r == [RemoveGenericItems(s, {t}) EXCEPT !.wake[t] = wake]
  IN  IF wake < s.tick
      THEN [r EXCEPT !.overflow = vListInsert(@, t, r.wake)]
      ELSE [r EXCEPT !.delayed = vListInsert(@, t, r.wake)]

(* prvCheckDelayedTasks: from the head, as long as the head has expired.   *)
prvCheckDelayedTasks(s) ==
  LET n == UpTo(s.delayed, s.wake, s.tick)
      expired == SubSeq(s.delayed, 1, n)
      r == [s EXCEPT !.delayed = SubSeq(@, n + 1, Len(@))]
  IN  IF n = 0 THEN s
      ELSE AddToReadyQueue(RemoveEventItems(r, Members(expired)), expired)

(* Mutant: a tick that comes while the scheduler is suspended is lost.     *)
TickLost(s) == IF s.suspended THEN s
               ELSE prvCheckDelayedTasks([s EXCEPT !.tick = (@ + 1) % TickMod])

(* The two delayed lists change places when the clock wraps.               *)
NextTick(s) ==
  IF s.tick + 1 < TickMod THEN [s EXCEPT !.tick = @ + 1]
  ELSE [s EXCEPT !.tick = 0, !.overflows = (@ + 1) % OverflowMod,
                 !.delayed = s.overflow, !.overflow = s.delayed]

vTaskIncrementTick(s) ==
  IF s.suspended THEN [s EXCEPT !.missedTicks = @ + 1]
  ELSE prvCheckDelayedTasks(NextTick(s))

(* Mutant: tasks woken while the scheduler was suspended stay pending.     *)
KeepPending(s) == s

(* The while loops of xTaskResumeAll.                                      *)
MakePendingReady(s) ==
  IF s.pending = <<>> THEN s ELSE MakeReady([s EXCEPT !.pending = <<>>], s.pending)

CatchUpTicks(s) ==
  LET after[n \in 0 .. s.missedTicks] ==
        IF n = 0 THEN s
        ELSE [vTaskIncrementTick(after[n - 1]) EXCEPT !.missedTicks = @ - 1]
  IN  after[s.missedTicks]

YieldsOnResume(s) == s.pending # <<>> \/ s.missedYield    \* xAlreadyYielded

xTaskResumeAll(s) ==
  LET r == CatchUpTicks(MakePendingReady([s EXCEPT !.suspended = FALSE]))
  IN  IF YieldsOnResume(s) THEN vTaskSwitchContext([r EXCEPT !.missedYield = FALSE]) ELSE r

(* Wake the first waiter: to the ready list, or to the pending list while  *)
(* the scheduler is suspended.                                             *)
xTaskRemoveFromEventList(s, m) ==
  LET t == Head(s.waiting[m])
      r == [s EXCEPT !.waiting[m] = Tail(@)]
  IN  IF s.suspended THEN [r EXCEPT !.pending = Append(@, t)]
      ELSE MakeReady(r, <<t>>)

(* xRxLock is left out: no task ever waits for a semaphore to be taken.    *)
prvLockQueue(s, m) == [s EXCEPT !.txLock[m] = IF @ = -1 THEN 0 ELSE @]

(* Mutant: the gives counted while the queue was locked wake nobody.       *)
ForgetGives(s, m) == [s EXCEPT !.txLock[m] = -1]

(* One waiter for every give that found the queue locked; the scheduler is *)
(* suspended, so xTaskRemoveFromEventList makes them pending.              *)
prvUnlockQueue(s, m) ==
  LET n == Min({s.txLock[m], Len(s.waiting[m])})
  IN  [s EXCEPT !.txLock[m] = -1,
                !.waiting[m] = SubSeq(@, n + 1, Len(@)),
                !.pending = @ \o SubSeq(s.waiting[m], 1, n),
                !.missedYield = @ \/ n > 0]
-----------------------------------------------------------------------------
(* Calls made by the running task t.                                       *)

Running(t, at) == k.current = t /\ pc[t] = at
Goto(t, at) == pc' = [pc EXCEPT ![t] = at]
Return(t) == /\ Goto(t, "app")
             /\ call' = [call EXCEPT ![t] = NoCall]
             /\ age' = [age EXCEPT ![t] = 0]

(* What k was, so that ages can count the ticks a step lets happen.        *)
Ticks(s, r) == (r.tick - s.tick) % TickMod
Waits(t) == call[t].asked \notin {0, MaxDelay}
Aged(n) == [t \in Task |-> IF Waits(t) THEN age[t] + n ELSE age[t]]

Yield(t) ==
  /\ Running(t, "app")
  /\ k' = vTaskSwitchContext(k)
  /\ UNCHANGED <<calls, pc, call, lastWake, owner, age>>

prvIdleTask ==
  /\ k.current = Idle
  /\ k' = vTaskSwitchContext(k)
  /\ UNCHANGED <<calls, pc, call, lastWake, owner, age>>

(* vTaskSuspendAll and the list work of vTaskDelay.                        *)
vTaskDelay(t, n) ==
  /\ Running(t, "app") /\ "delay" \in calls[t] /\ n \in 1 .. (MaxDelay - 1)
  /\ k' = AddToDelayedList([k EXCEPT !.suspended = TRUE], t, (k.tick + n) % TickMod)
  /\ call' = [call EXCEPT ![t] = [NoCall EXCEPT !.asked = n]]
  /\ Goto(t, "delay_resume")
  /\ UNCHANGED <<calls, lastWake, owner, age>>

(* The end of the tick task's loop: catch up when more than two ticks late.*)
brick_tick_task(t) ==
  /\ Running(t, "app") /\ "tick" \in calls[t]
  /\ lastWake' = [lastWake EXCEPT ![t] =
       IF k.tick > (@ + 2) % TickMod THEN (k.tick - 1) % TickMod ELSE @]
  /\ Goto(t, "delay_until")
  /\ UNCHANGED <<calls, k, call, owner, age>>

vTaskDelayUntil(t) ==
  LET prev == lastWake[t]
      wake == (prev + 1) % TickMod
      shouldDelay == IF k.tick < prev THEN wake < prev /\ wake > k.tick
                                      ELSE wake < prev \/ wake > k.tick
      s == [k EXCEPT !.suspended = TRUE]
  IN  /\ Running(t, "delay_until")
      /\ lastWake' = [lastWake EXCEPT ![t] = wake]
      /\ k' = IF shouldDelay THEN AddToDelayedList(s, t, wake) ELSE s
      /\ call' = IF shouldDelay
                 THEN [call EXCEPT ![t] = [NoCall EXCEPT !.asked = (wake - k.tick) % TickMod]]
                 ELSE call
      /\ Goto(t, "delay_resume")
      /\ UNCHANGED <<calls, owner, age>>

(* xTaskResumeAll, and the yield when it has not already yielded: in       *)
(* between, interrupts are on and the task runs although it is delayed.    *)
DelayResume(t) ==
  /\ Running(t, "delay_resume")
  /\ k' = xTaskResumeAll(k)
  /\ Goto(t, IF YieldsOnResume(k) THEN "delay_return" ELSE "delay_yield")
  /\ age' = Aged(Ticks(k, k'))
  /\ UNCHANGED <<calls, call, lastWake, owner>>

DelayYield(t) ==
  /\ Running(t, "delay_yield")
  /\ k' = vTaskSwitchContext(k)
  /\ Goto(t, "delay_return")
  /\ UNCHANGED <<calls, call, lastWake, owner, age>>

DelayReturn(t) ==
  /\ Running(t, "delay_return")
  /\ Return(t)
  /\ UNCHANGED <<calls, k, lastWake, owner>>

(* xSemaphoreTake = xQueueGenericReceive.                                  *)
xSemaphoreTake(t, kind, m, n) ==
  /\ Running(t, "app") /\ kind \in calls[t] /\ owner[m] # t
  /\ call' = [call EXCEPT ![t] = [NoCall EXCEPT !.sem = m, !.ticks = n, !.asked = n]]
  /\ Goto(t, "take")
  /\ UNCHANGED <<calls, k, lastWake, owner, age>>

(* The first critical section: take it, give up, or start to wait.         *)
ReceiveOrWait(t) ==
  LET c == call[t]
  IN  /\ Running(t, "take")
      /\ \/ /\ k.messages[c.sem] > 0
            /\ k' = [k EXCEPT !.messages[c.sem] = @ - 1]
            /\ owner' = IF c.sem \in Mutex THEN [owner EXCEPT ![c.sem] = t] ELSE owner
            /\ Return(t)
         \/ /\ k.messages[c.sem] = 0 /\ c.ticks = 0
            /\ Return(t)
            /\ UNCHANGED <<k, owner>>
         \/ /\ k.messages[c.sem] = 0 /\ c.ticks # 0
            /\ call' = IF c.timeOut = <<>>                  \* vTaskSetTimeOutState
                       THEN [call EXCEPT ![t].timeOut = <<k.overflows, k.tick>>] ELSE call
            /\ age' = IF c.timeOut = <<>> THEN [age EXCEPT ![t] = 0] ELSE age
            /\ Goto(t, "take_suspend")
            /\ UNCHANGED <<k, owner>>
      /\ UNCHANGED <<calls, lastWake>>

TakeSuspendAll(t) ==
  /\ Running(t, "take_suspend")
  /\ k' = [k EXCEPT !.suspended = TRUE]
  /\ Goto(t, "take_lock")
  /\ UNCHANGED <<calls, call, lastWake, owner, age>>

(* Mutant: any wrap of the clock counts as a whole round.                  *)
AnyWrap(c) == k.overflows # c.timeOut[1]

(* The clock has gone all the way round since the wait began.              *)
Wrapped(c) == k.overflows # c.timeOut[1] /\ k.tick >= c.timeOut[2]

(* prvLockQueue, then xTaskCheckForTimeOut: the clock stands still here.   *)
xTaskCheckForTimeOut(t) ==
  LET c == call[t]
      elapsed == (k.tick - c.timeOut[2]) % TickMod
      wrapped == Wrapped(c)
  IN  /\ Running(t, "take_lock")
      /\ k' = prvLockQueue(k, c.sem)
      /\ \/ /\ c.ticks # MaxDelay /\ (wrapped \/ elapsed >= c.ticks)
            /\ call' = [call EXCEPT ![t].outcome = "timeout"]
            /\ Goto(t, "take_unlock")
         \/ /\ c.ticks # MaxDelay /\ ~wrapped /\ elapsed < c.ticks
            /\ call' = [call EXCEPT ![t].ticks = @ - elapsed,
                                    ![t].timeOut = <<k.overflows, k.tick>>]
            /\ Goto(t, "take_empty")
         \/ /\ c.ticks = MaxDelay
            /\ Goto(t, "take_empty")
            /\ UNCHANGED call
      /\ UNCHANGED <<calls, lastWake, owner, age>>

prvIsQueueEmpty(t) ==
  LET empty == k.messages[call[t].sem] = 0
  IN  /\ Running(t, "take_empty")
      /\ call' = [call EXCEPT ![t].outcome = IF empty THEN "block" ELSE "retry"]
      /\ Goto(t, IF empty THEN "take_place" ELSE "take_unlock")
      /\ UNCHANGED <<calls, k, lastWake, owner, age>>

(* Outside of any critical section: the lock keeps interrupts away from    *)
(* the event list, the suspended scheduler from the others.                *)
vTaskPlaceOnEventList(t) ==
  LET c == call[t]
      s == [k EXCEPT !.waiting[c.sem] = Append(@, t)]
  IN  /\ Running(t, "take_place")
      /\ k' = IF c.ticks = MaxDelay
              THEN [RemoveGenericItems(s, {t}) EXCEPT !.blocked = @ \cup {t}]
              ELSE AddToDelayedList(s, t, (k.tick + c.ticks) % TickMod)
      /\ Goto(t, "take_unlock")
      /\ UNCHANGED <<calls, call, lastWake, owner, age>>

TakeUnlockQueue(t) ==
  /\ Running(t, "take_unlock")
  /\ k' = prvUnlockQueue(k, call[t].sem)
  /\ Goto(t, "take_resume")
  /\ UNCHANGED <<calls, call, lastWake, owner, age>>

TakeResume(t) ==
  /\ Running(t, "take_resume")
  /\ k' = xTaskResumeAll(k)
  /\ \/ /\ call[t].outcome = "timeout"
        /\ Goto(t, "take_failed")
     \/ /\ call[t].outcome = "block" /\ ~YieldsOnResume(k)
        /\ Goto(t, "take_yield")
     \/ /\ call[t].outcome = "retry" \/ (call[t].outcome = "block" /\ YieldsOnResume(k))
        /\ Goto(t, "take")
  /\ age' = Aged(Ticks(k, k'))
  /\ UNCHANGED <<calls, call, lastWake, owner>>

TakeYield(t) ==
  /\ Running(t, "take_yield")
  /\ k' = vTaskSwitchContext(k)
  /\ Goto(t, "take")
  /\ UNCHANGED <<calls, call, lastWake, owner, age>>

TakeFailed(t) ==
  /\ Running(t, "take_failed")
  /\ Return(t)
  /\ UNCHANGED <<calls, k, lastWake, owner>>

(* xSemaphoreGive = xQueueGenericSend with block time 0.                   *)
xSemaphoreGive(t, m) ==
  /\ Running(t, "app") /\ owner[m] = t
  /\ k.messages[m] < 1
  /\ k' = LET s == [k EXCEPT !.messages[m] = @ + 1]
          IN  IF s.waiting[m] = <<>> THEN s
              ELSE vTaskSwitchContext(xTaskRemoveFromEventList(s, m))
  /\ owner' = [owner EXCEPT ![m] = NoTask]
  /\ UNCHANGED <<calls, pc, call, lastWake, age>>
-----------------------------------------------------------------------------
(* Interrupts.                                                             *)

xPortSysTickHandler ==
  /\ k.suspended => k.missedTicks < MaxMissed
  /\ \A t \in Task : age[t] + k.missedTicks < MaxAge
  /\ k' = vTaskIncrementTick(k)
  /\ age' = Aged(Ticks(k, k'))
  /\ UNCHANGED <<calls, pc, call, lastWake, owner>>

(* mutex_give_isr followed by yield_from_isr with the flag it returned.    *)
xSemaphoreGiveFromISR(m) ==
  /\ k.messages[m] < 1
  /\ k' = LET s == [k EXCEPT !.messages[m] = @ + 1]
          IN  IF s.txLock[m] # -1 THEN [s EXCEPT !.txLock[m] = @ + 1]
              ELSE IF s.waiting[m] = <<>> THEN s
              ELSE vTaskSwitchContext(xTaskRemoveFromEventList(s, m))
  /\ UNCHANGED <<calls, pc, call, lastWake, owner, age>>
-----------------------------------------------------------------------------
(* xTaskCreate before the scheduler runs: the last task created is current.*)
CreatedTasks(order) ==
  [current |-> order[Len(order)], ready |-> order, delayed |-> <<>>, overflow |-> <<>>,
   blocked |-> {}, pending |-> <<>>, waiting |-> [m \in Sem |-> <<>>],
   wake |-> [t \in Task |-> 0], tick |-> 0, overflows |-> 0,
   suspended |-> FALSE, missedTicks |-> 0, missedYield |-> FALSE,
   messages |-> [m \in Sem |-> IF m \in Mutex THEN 1 ELSE 0],
   txLock |-> [m \in Sem |-> -1]]

KernelInit ==
  /\ \E order \in SetToSeqs(Task) : k = CreatedTasks(order)
  /\ pc = [t \in Task |-> "app"]
  /\ call = [t \in Task |-> NoCall]
  /\ calls \in Programs
  /\ lastWake = [t \in Task |-> 0]
  /\ owner = [m \in Sem |-> NoTask]
  /\ age = [t \in Task |-> 0]

TaskStep(t) ==
  \/ Yield(t) \/ (\E n \in Timeout : vTaskDelay(t, n))
  \/ brick_tick_task(t) \/ vTaskDelayUntil(t)
  \/ DelayResume(t) \/ DelayYield(t) \/ DelayReturn(t)
  \/ (\E m \in Mutex : xSemaphoreTake(t, "mutex", m, MaxDelay))    \* MUTEX_BLOCKING
  \/ (\E m \in Signal, n \in Timeout : xSemaphoreTake(t, "signal", m, n))
  \/ ReceiveOrWait(t) \/ TakeSuspendAll(t) \/ xTaskCheckForTimeOut(t)
  \/ prvIsQueueEmpty(t) \/ vTaskPlaceOnEventList(t) \/ TakeUnlockQueue(t)
  \/ TakeResume(t) \/ TakeYield(t) \/ TakeFailed(t)
  \/ (\E m \in Mutex : xSemaphoreGive(t, m))

Cpu == prvIdleTask \/ \E t \in Task : TaskStep(t)
Interrupt == xPortSysTickHandler \/ \E m \in Signal : xSemaphoreGiveFromISR(m)

KernelNext == Cpu \/ Interrupt

(* The processor executes the current task, the timer ticks, and the loop  *)
(* of a task yields or delays after finitely many other calls.         *)
KernelFairness ==
  /\ WF_kvars(Cpu) /\ WF_kvars(xPortSysTickHandler)
  /\ SF_kvars(\E t \in Task : Yield(t) \/ brick_tick_task(t))

KernelSpec == KernelInit /\ [][KernelNext]_kvars /\ KernelFairness
-----------------------------------------------------------------------------
(* Properties.                                                             *)

Sorted(q) == \A i, j \in 1 .. Len(q) : i < j => q[i] # q[j] /\ k.wake[q[i]] <= k.wake[q[j]]
Lists == <<Members(k.ready), Members(k.delayed), Members(k.overflow), k.blocked>>

(* Types, and the shape of the kernel lists: every task is in exactly one  *)
(* of the ready, delayed, overflow and suspended lists; its event item is  *)
(* in at most one event list or the pending list; the delayed lists are    *)
(* sorted; nothing stays pending once the scheduler runs.                  *)
KernelTypeOK ==
  /\ \A t \in Task : \E i \in 1 .. 4 : \A j \in 1 .. 4 : t \in Lists[j] <=> j = i
  /\ IsInjective(k.ready) /\ Sorted(k.delayed) /\ Sorted(k.overflow)
  /\ \A m \in Sem : /\ Members(k.waiting[m]) \cap Lists[1] = {}
                    /\ Members(k.waiting[m]) \cap Members(k.pending) = {}
                    /\ \A n \in Sem \ {m} :
                         Members(k.waiting[m]) \cap Members(k.waiting[n]) = {}
  /\ \A m \in Sem : k.txLock[m] \in -1 .. 1 /\ k.messages[m] \in 0 .. 1
  /\ ~k.suspended => k.pending = <<>> /\ k.missedTicks = 0 /\ ~k.missedYield
                      /\ \A m \in Sem : k.txLock[m] = -1
  /\ k.current \in Task \cup {Idle} /\ k.tick \in 0 .. TickMod - 1

(* Across the wrap of the clock, across retries with a shortened block     *)
(* time, and across missed ticks, every waiting task will be woken exactly *)
(* when the ticks it asked for have passed: the swap of the two delayed    *)
(* lists and the 32 bit sums never put a task a whole wrap too early/late. *)
WaitEndsOnTime ==
  \A t \in Lists[2] \cup Lists[3] :
    k.wake[t] + (IF t \in Lists[3] THEN TickMod ELSE 0) - k.tick = call[t].asked - age[t]

(* No block time ends early: a take that fails for lack of time and a      *)
(* delay that returns have waited at least the ticks asked for.            *)
NoWaitEndsEarly ==
  [][\A t \in Task : TakeFailed(t) \/ DelayReturn(t) => age[t] >= call[t].asked]_kvars

(* No wake-up is lost: when a semaphore is available and somebody still    *)
(* waits for it, somebody who will ask again before blocking is awake, or  *)
(* the give was counted in the lock of the queue.                          *)
WillRetry(t, m) ==
  /\ call[t].sem = m /\ call[t].outcome # "timeout"
  /\ t \notin Members(k.waiting[m])
NoWakeUpLost ==
  \A m \in Sem : k.messages[m] > 0 /\ k.waiting[m] # <<>> =>
    k.txLock[m] > 0 \/ \E t \in Task : WillRetry(t, m)

(* Every tick interrupt advances the clock once, at once or when the       *)
(* scheduler is resumed, and nothing else does.                            *)
Clock == k.overflows * TickMod + k.tick + k.missedTicks
NoTickLost ==
  [][(Clock' - Clock) % (OverflowMod * TickMod) = IF xPortSysTickHandler THEN 1 ELSE 0]_kvars

(* The round robin reaches every ready task, whatever interrupts wake.     *)
ReadyRuns == \A t \in Task : (t \in Lists[1]) ~> (k.current = t)
=============================================================================
