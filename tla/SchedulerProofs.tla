-------------------------- MODULE SchedulerProofs --------------------------
(***************************************************************************)
(* The safety properties of the scheduler, for any set of processes and    *)
(* any capacity of the ready queue.                                        *)
(***************************************************************************)
EXTENDS Scheduler, SequenceTheorems, TLAPS

IInv == TypeOK /\ IndexInQueue /\ OneRunning

(* scheduler_init establishes the invariant. *)
LEMMA InitEstablishes == scheduler_init => IInv
  BY CapacityAssumption
  DEF scheduler_init, IInv, TypeOK, IndexInQueue, OneRunning, States

(* Shifting the entries after a removed one leaves a queue one shorter.     *)
LEMMA ShiftedQueue ==
  ASSUME TypeOK, NEW i \in 1 .. Len(ready_queue)
  PROVE  /\ Shifted(i) \in Seq(Procs)
         /\ Len(Shifted(i)) = Len(ready_queue) - 1
<1> DEFINE n == Len(ready_queue)
<1>1. n \in Nat /\ n >= 1 /\ n - 1 \in Nat /\ i \in Int
  BY DEF TypeOK
<1>2. \A j \in 1 .. n : ready_queue[j] \in Procs
  BY DEF TypeOK
<1>3. \A j \in 1 .. n - 1 : j \in 1 .. n /\ j + 1 \in 1 .. n
  BY <1>1
<1> HIDE DEF n
<1>4. Shifted(i) \in [1 .. n - 1 -> Procs]
  BY <1>2, <1>3 DEF Shifted, n
<1>5. Shifted(i) \in Seq(Procs) /\ Len(Shifted(i)) = n - 1
  BY <1>1, <1>4
<1> QED BY <1>5 DEF n

(* Adding a process appends it within the capacity of the queue.            *)
LEMMA AddPreserves ==
  ASSUME IInv, NEW p \in Procs, scheduler_add(p)
  PROVE  IInv'
<1>1. /\ ready_queue \in Seq(Procs) /\ Len(ready_queue) < MAX_PROCESSES
      /\ ready_queue' = Append(ready_queue, p)
      /\ UNCHANGED <<current_index, state, current_process>>
  BY DEF IInv, TypeOK, scheduler_add
<1>2. ready_queue' \in Seq(Procs) /\ Len(ready_queue') = Len(ready_queue) + 1
  BY <1>1
<1>3. TypeOK' /\ OneRunning'
  BY <1>1, <1>2, CapacityAssumption DEF IInv, TypeOK, OneRunning
<1>4. IndexInQueue'
  <2>1. CASE ready_queue = <<>>
    BY <1>1, <1>2, <2>1 DEF IInv, IndexInQueue, TypeOK
  <2>2. CASE ready_queue # <<>>
    BY <1>1, <1>2, <2>2 DEF IInv, IndexInQueue, TypeOK
  <2> QED BY <2>1, <2>2
<1> QED BY <1>3, <1>4 DEF IInv

(* Removing a process keeps the index inside the shorter queue.             *)
LEMMA RemovePreserves ==
  ASSUME IInv, NEW p \in Procs, scheduler_remove(p)
  PROVE  IInv'
<1>1. PICK i \in 1 .. Len(ready_queue) :
        /\ ready_queue' = Shifted(i)
        /\ current_index' = IF /\ current_index >= Len(ready_queue) - 1
                               /\ Len(ready_queue) - 1 > 0
                            THEN 0 ELSE current_index
        /\ UNCHANGED <<state, current_process>>
  BY DEF scheduler_remove
<1>2. /\ ready_queue' \in Seq(Procs) /\ Len(ready_queue') = Len(ready_queue) - 1
      /\ Len(ready_queue) \in Nat /\ Len(ready_queue) >= 1 /\ current_index \in Nat
  BY <1>1, ShiftedQueue DEF IInv, TypeOK
<1>3. current_index < Len(ready_queue)
  BY <1>2 DEF IInv, IndexInQueue
<1>4. current_index' \in Nat /\ current_index' <= Len(ready_queue')
  BY <1>1, <1>2, <1>3
<1>5. TypeOK' /\ OneRunning'
  BY <1>1, <1>2, <1>4, CapacityAssumption DEF IInv, TypeOK, OneRunning
<1>6. IndexInQueue'
  <2>1. CASE Len(ready_queue) = 1
    BY <1>1, <1>2, <1>3, <2>1 DEF IndexInQueue
  <2>2. CASE Len(ready_queue) > 1
    BY <1>1, <1>2, <1>3, <2>2 DEF IndexInQueue
  <2> QED BY <1>2, <2>1, <2>2
<1> QED BY <1>5, <1>6 DEF IInv

(* A turn of the scheduler moves the index around the queue and runs at     *)
(* most one process.                                                        *)
LEMMA SchedulePreserves ==
  ASSUME IInv, scheduler_schedule
  PROVE  IInv'
<1> DEFINE n == Len(ready_queue)
           index == (current_index + 1) % n
           next == ready_queue[index + 1]
<1>1. /\ n \in Nat /\ n > 0 /\ current_index \in Nat /\ ready_queue' = ready_queue
      /\ current_index' = index
  BY DEF scheduler_schedule, IInv, TypeOK
<1>2. index \in 0 .. n - 1
  BY <1>1
<1>3. next \in Procs
  <2>1. index + 1 \in 1 .. n
    BY <1>1, <1>2
  <2> QED BY <2>1 DEF IInv, TypeOK
<1>4. IF state[next] = "READY" THEN SwitchTo(next)
      ELSE UNCHANGED <<state, current_process>>
  BY DEF scheduler_schedule
<1> HIDE DEF next, index
<1>5. state' \in [Procs -> States] /\ current_process' \in Procs \cup {NoProcess}
  BY <1>3, <1>4 DEF SwitchTo, IInv, TypeOK, States
<1>6. OneRunning'
  BY <1>3, <1>4 DEF SwitchTo, IInv, TypeOK, OneRunning
<1>7. TypeOK' /\ IndexInQueue'
  BY <1>1, <1>2, <1>5 DEF IInv, TypeOK, IndexInQueue
<1> QED BY <1>6, <1>7 DEF IInv

(* Blocking, waking, exiting and creating processes leave the queue alone.  *)
LEMMA ProcessStepsPreserve ==
  ASSUME IInv, ProcessSteps
  PROVE  IInv'
<1>1. UNCHANGED <<ready_queue, current_index>>
  BY DEF ProcessSteps, block, exit, wake, create
<1>2. state' \in [Procs -> States] /\ current_process' \in Procs \cup {NoProcess}
  BY DEF ProcessSteps, block, exit, wake, create, IInv, TypeOK, States
<1>3. OneRunning'
  BY NullAssumption DEF ProcessSteps, block, exit, wake, create, IInv, TypeOK, OneRunning
<1> QED BY <1>1, <1>2, <1>3 DEF IInv, TypeOK, IndexInQueue

(* The index stays in the queue and one process runs at a time, in every    *)
(* reachable state.                                                         *)
THEOREM Invariance == Spec => []IInv
<1>1. IInv /\ [Next]_vars => IInv'
  <2> SUFFICES ASSUME IInv, [Next]_vars PROVE IInv'
    OBVIOUS
  <2>1. ASSUME NEW p \in Procs, scheduler_add(p) PROVE IInv'
    BY <2>1, AddPreserves
  <2>2. ASSUME NEW p \in Procs, scheduler_remove(p) PROVE IInv'
    BY <2>2, RemovePreserves
  <2>3. CASE scheduler_schedule
    BY <2>3, SchedulePreserves
  <2>4. CASE ProcessSteps
    BY <2>4, ProcessStepsPreserve
  <2>5. CASE UNCHANGED vars
    BY <2>5 DEF vars, IInv, TypeOK, IndexInQueue, OneRunning
  <2> QED BY <2>1, <2>2, <2>3, <2>4, <2>5 DEF Next
<1> QED BY <1>1, InitEstablishes, PTL DEF Spec

(* current_index always names an entry of the ready queue.                  *)
THEOREM IndexSafe == Spec => []IndexInQueue
<1>1. IInv => IndexInQueue
  BY DEF IInv
<1> QED BY <1>1, Invariance, PTL
=============================================================================
