----------------------------- MODULE Scheduler -----------------------------
(***************************************************************************)
(* The round-robin scheduler: src/kernel/proc/scheduler.c, with the part   *)
(* of process_switch (src/kernel/proc/process.c) that it drives.           *)
(*                                                                         *)
(* ready_queue holds pointers to process structures, taken from Procs; the *)
(* C index current_index is 0-based, the sequence is 1-based.  Process     *)
(* states change underneath the scheduler through the process table; those *)
(* changes are the three actions "block", "exit" and "wake".  Callers add  *)
(* a process at most once.                                                 *)
(***************************************************************************)
EXTENDS Integers, Sequences

CONSTANTS Procs,          \* process structures
          MAX_PROCESSES,  \* capacity of ready_queue (64 in the code)
          NoProcess

ASSUME CapacityAssumption == MAX_PROCESSES \in Nat \ {0}
ASSUME NullAssumption == NoProcess \notin Procs

States == {"READY", "RUNNING", "BLOCKED", "ZOMBIE"}

VARIABLES ready_queue, current_index, state, current_process

vars == <<ready_queue, current_index, state, current_process>>

TypeOK ==
  /\ ready_queue \in Seq(Procs)
  /\ Len(ready_queue) <= MAX_PROCESSES
  /\ current_index \in Nat
  /\ state \in [Procs -> States]
  /\ current_process \in Procs \cup {NoProcess}

scheduler_init ==
  /\ ready_queue = <<>>
  /\ current_index = 0
  /\ state = [p \in Procs |-> "READY"]
  /\ current_process = NoProcess

Queued(p) == \E i \in 1 .. Len(ready_queue) : ready_queue[i] = p

-----------------------------------------------------------------------------
(* A full queue drops the process silently; that call changes nothing.      *)
scheduler_add(p) ==
  /\ ~Queued(p)
  /\ Len(ready_queue) < MAX_PROCESSES
  /\ ready_queue' = Append(ready_queue, p)
  /\ UNCHANGED <<current_index, state, current_process>>

(* The queue without its i-th entry, the later ones shifted down.           *)
Shifted(i) ==
  [j \in 1 .. Len(ready_queue) - 1 |->
     IF j < i THEN ready_queue[j] ELSE ready_queue[j + 1]]

(* Remove the first occurrence; the index restarts when it fell off the     *)
(* end of a queue that is not empty.                                        *)
scheduler_remove_keeping_index(p) ==
  \E i \in 1 .. Len(ready_queue) :
    /\ ready_queue[i] = p
    /\ \A j \in 1 .. i - 1 : ready_queue[j] # p
    /\ ready_queue' = Shifted(i)
    /\ UNCHANGED <<current_index, state, current_process>>

scheduler_remove(p) ==
  \E i \in 1 .. Len(ready_queue) :
    /\ ready_queue[i] = p
    /\ \A j \in 1 .. i - 1 : ready_queue[j] # p
    /\ ready_queue' = Shifted(i)
    /\ current_index' = IF /\ current_index >= Len(ready_queue) - 1
                           /\ Len(ready_queue) - 1 > 0
                        THEN 0 ELSE current_index
    /\ UNCHANGED <<state, current_process>>

(* process_switch to a READY process.                                       *)
SwitchTo(next) ==
  /\ state' = [p \in Procs |->
                 IF p = next THEN "RUNNING"
                 ELSE IF p = current_process /\ state[p] = "RUNNING" THEN "READY"
                 ELSE state[p]]
  /\ current_process' = next

(* scheduler_schedule (scheduler_yield is the same call): advance the index *)
(* and switch to that entry if it is READY; otherwise nobody is switched to.*)
scheduler_schedule_stuck ==
  LET index == (current_index + 1) % Len(ready_queue)
      next == ready_queue[index + 1]
  IN /\ Len(ready_queue) > 0
     /\ state[next] = "READY"
     /\ current_index' = index
     /\ SwitchTo(next)
     /\ UNCHANGED ready_queue

scheduler_schedule ==
  LET index == (current_index + 1) % Len(ready_queue)
      next == ready_queue[index + 1]
  IN /\ Len(ready_queue) > 0
     /\ current_index' = index
     /\ IF state[next] = "READY"
        THEN SwitchTo(next)
        ELSE UNCHANGED <<state, current_process>>
     /\ UNCHANGED ready_queue

-----------------------------------------------------------------------------
(* What the process table does meanwhile: the current process blocks in     *)
(* sys_wait or exits, a blocked one is woken by a child's exit, and the     *)
(* structure of an exited process is freed and used for a new one.          *)
block ==
  /\ current_process # NoProcess
  /\ state' = [state EXCEPT ![current_process] = "BLOCKED"]
  /\ UNCHANGED <<ready_queue, current_index, current_process>>

exit ==
  /\ current_process # NoProcess
  /\ state' = [state EXCEPT ![current_process] = "ZOMBIE"]
  /\ current_process' = NoProcess
  /\ UNCHANGED <<ready_queue, current_index>>

wake(p) ==
  /\ state[p] = "BLOCKED"
  /\ state' = [state EXCEPT ![p] = "READY"]
  /\ UNCHANGED <<ready_queue, current_index, current_process>>

create(p) ==
  /\ state[p] = "ZOMBIE"
  /\ ~Queued(p)
  /\ state' = [state EXCEPT ![p] = "READY"]
  /\ UNCHANGED <<ready_queue, current_index, current_process>>

ProcessSteps ==
  \/ block
  \/ exit
  \/ \E p \in Procs : wake(p) \/ create(p)

Next ==
  \/ \E p \in Procs : scheduler_add(p)
  \/ \E p \in Procs : scheduler_remove(p)
  \/ scheduler_schedule
  \/ ProcessSteps

Spec == scheduler_init /\ [][Next]_vars

(* The scheduler is called again and again, as scheduler.h:17 says it is    *)
(* from the timer interrupt.                                                *)
FairSpec == Spec /\ WF_vars(scheduler_schedule)

NextNoRemoval ==
  \/ \E p \in Procs : scheduler_add(p)
  \/ scheduler_schedule
  \/ ProcessSteps

-----------------------------------------------------------------------------
(* After any sequence of additions, removals and turns, current_index names *)
(* an entry of the queue, or is 0 when the queue is empty: the position the *)
(* next turn counts from is never one that has been shifted away.           *)
IndexInQueue ==
  /\ ready_queue = <<>> => current_index = 0
  /\ ready_queue # <<>> => current_index < Len(ready_queue)

(* Only the process the scheduler switched to last is RUNNING.              *)
OneRunning == \A p \in Procs : state[p] = "RUNNING" => p = current_process

(* scheduler.c:47, "Schedule next process (round-robin)": once processes    *)
(* are no longer taken off the queue, one that is READY in it gets its turn *)
(* (or stops being READY for another reason), whoever else is added,        *)
(* blocked, woken or gone meanwhile.                                        *)
RoundRobinServesAll ==
  <>[][NextNoRemoval]_vars =>
    \A p \in Procs :
      (Queued(p) /\ state[p] = "READY") ~> (~Queued(p) \/ state[p] # "READY")
=============================================================================
