-------------------------- MODULE LifetimePinCount --------------------------
(***************************************************************************)
(* LifetimePinCount (src/src/runtime_internal.hpp): submissions pin the    *)
(* module and the queue they use, and destruction waits for the pins to    *)
(* go.  The count is atomic; the mutex and the condition variable are only *)
(* for the waiter.  A pin is taken under the registry lock while the owner *)
(* is not marked destroying; it is released without any lock.              *)
(***************************************************************************)
EXTENDS Integers, FiniteSets

CONSTANTS Users,       \* threads that submit
          Destroyer,   \* the thread that destroys the owner of the count
          NoThread,
          ChecksFirst  \* destruction asks empty() before it waits (queues)

ASSUME PinAssumption ==
  /\ IsFiniteSet(Users) /\ Destroyer \notin Users
  /\ NoThread \notin Users \cup {Destroyer} /\ ChecksFirst \in BOOLEAN

VARIABLES count, mutex, destroying, alive,
          user,  \* where each submitting thread is
          wait   \* where the destroying thread is

vars == <<count, mutex, destroying, alive, user, wait>>

Init ==
  /\ count = 0
  /\ mutex = NoThread
  /\ destroying = FALSE
  /\ alive = TRUE
  /\ user = [u \in Users |-> "idle"]
  /\ wait = "idle"

----------------------------------------------------------------------------
(* Submitting threads                                                      *)

(* Mutation: a marked owner can still be pinned. *)
RetainMarked(u) ==
  /\ user[u] = "idle" /\ alive
  /\ count' = count + 1
  /\ user' = [user EXCEPT ![u] = "pinned"]
  /\ UNCHANGED <<mutex, destroying, alive, wait>>

retain(u) ==
  /\ user[u] = "idle" /\ alive /\ ~destroying
  /\ count' = count + 1
  /\ user' = [user EXCEPT ![u] = "pinned"]
  /\ UNCHANGED <<mutex, destroying, alive, wait>>

(* fetch_sub; the thread that takes the count to zero notifies. *)
release(u) ==
  /\ user[u] = "pinned"
  /\ count' = count - 1
  /\ user' = [user EXCEPT ![u] = IF count = 1 THEN "notify_lock" ELSE "idle"]
  /\ UNCHANGED <<mutex, destroying, alive, wait>>

NotifyLock(u) ==
  /\ user[u] = "notify_lock" /\ mutex = NoThread
  /\ mutex' = u
  /\ user' = [user EXCEPT ![u] = "notify"]
  /\ UNCHANGED <<count, destroying, alive, wait>>

notify_all(u) ==
  /\ user[u] = "notify"
  /\ wait' = IF wait = "sleeping" THEN "woken" ELSE wait
  /\ mutex' = NoThread
  /\ user' = [user EXCEPT ![u] = "idle"]
  /\ UNCHANGED <<count, destroying, alive>>

----------------------------------------------------------------------------
(* The destroying thread                                                   *)

empty == count = 0

(* Mutation: new pins are still accepted. *)
DestroyUnmarked ==
  /\ wait = "idle"
  /\ wait' = IF ChecksFirst /\ empty THEN "teardown" ELSE "lock"
  /\ UNCHANGED <<count, mutex, destroying, alive, user>>

(* lr_queue_destroy and lr_module_destroy mark the owner, under the         *)
(* registry lock, before they look at the pins.                             *)
Destroy ==
  /\ wait = "idle"
  /\ destroying' = TRUE
  /\ wait' = IF ChecksFirst /\ empty THEN "teardown" ELSE "lock"
  /\ UNCHANGED <<count, mutex, alive, user>>

(* wait_until_empty: lock, test, sleep, test again when woken *)
WaitLock ==
  /\ wait \in {"lock", "woken"} /\ mutex = NoThread
  /\ mutex' = Destroyer
  /\ wait' = "test"
  /\ UNCHANGED <<count, destroying, alive, user>>

WaitTest ==
  /\ wait = "test"
  /\ IF empty
     THEN wait' = "teardown" /\ mutex' = NoThread
     ELSE wait' = "enter" /\ mutex' = mutex
  /\ UNCHANGED <<count, destroying, alive, user>>

WaitSleep ==
  /\ wait = "enter"
  /\ wait' = "sleeping"
  /\ mutex' = NoThread
  /\ UNCHANGED <<count, destroying, alive, user>>

(* The tail marker, the drain and everything else up to delete *)
Delete ==
  /\ wait = "teardown"
  /\ alive' = FALSE
  /\ wait' = "done"
  /\ UNCHANGED <<count, mutex, destroying, user>>

UserStep(u) == release(u) \/ NotifyLock(u) \/ notify_all(u)
DestroyerStep == WaitLock \/ WaitTest \/ WaitSleep \/ Delete

(* The owner is gone and nobody is inside. *)
Finished == wait = "done" /\ (\A u \in Users : user[u] = "idle") /\ UNCHANGED vars

Next ==
  \/ \E u \in Users : retain(u) \/ UserStep(u)
  \/ Destroy \/ DestroyerStep
  \/ Finished

Spec == Init /\ [][Next]_vars

(* Submissions finish and the scheduler runs the destroying thread; nobody  *)
(* has to submit or destroy.                                                *)
FairSpec ==
  /\ Spec
  /\ \A u \in Users : WF_vars(UserStep(u))
  /\ WF_vars(DestroyerStep)

----------------------------------------------------------------------------
(* Type invariant *)
TypeOK ==
  /\ count \in Nat
  /\ mutex \in Users \cup {Destroyer, NoThread}
  /\ destroying \in BOOLEAN /\ alive \in BOOLEAN
  /\ user \in [Users -> {"idle", "pinned", "notify_lock", "notify"}]
  /\ wait \in {"idle", "lock", "test", "enter", "sleeping", "woken", "teardown", "done"}

Pinned == {u \in Users : user[u] = "pinned"}

(* The module or queue is alive as long as a submission has it pinned. *)
PinsProtect == Pinned # {} => alive

(* No lost wake-up: whenever the destroying thread sleeps, or has decided   *)
(* to, some submission still holds a pin or is about to notify.             *)
SleeperWillBeWoken ==
  wait \in {"enter", "sleeping"} =>
    Pinned # {} \/ \E u \in Users : user[u] \in {"notify_lock", "notify"}

(* "Queue and module pins keep those resources alive after this lock ends"  *)
(* (launch.cpp:1025): also while a submission is inside release(), which    *)
(* locks the owner's mutex after the count has reached zero.                *)
ReleaseOnLiveOwner ==
  \A u \in Users : user[u] \in {"notify_lock", "notify"} => alive

(* Once the owner is marked, its destruction comes to an end. *)
DestructionEnds == destroying ~> ~alive

----------------------------------------------------------------------------
(* The inductive invariant: the count is the number of pins, the mutex is   *)
(* held exactly by the threads inside it, and once the destroying thread    *)
(* has seen an empty count on a marked owner there are no pins any more.    *)
CountsPins == count = Cardinality(Pinned)
MutexHeld ==
  /\ \A u \in Users : user[u] = "notify" <=> mutex = u
  /\ wait \in {"test", "enter"} <=> mutex = Destroyer
NoPinsLeft ==
  /\ wait # "idle" => destroying
  /\ wait \in {"teardown", "done"} => count = 0
  /\ ~alive => wait = "done"
PinInv == TypeOK /\ CountsPins /\ MutexHeld /\ NoPinsLeft /\ SleeperWillBeWoken
=============================================================================
