----------------------- MODULE LifetimePinCountProofs -----------------------
(***************************************************************************)
(* For any finite set of submitting threads: a pinned owner is alive, and  *)
(* the destroying thread never sleeps without a thread that will wake it.  *)
(***************************************************************************)
EXTENDS LifetimePinCount, FiniteSetTheorems, TLAPS

(* Taking a pin adds one thread to the pinned ones, giving it back removes  *)
(* one, and any other change of a thread's place leaves them alone.         *)
LEMMA PinnedFinite ==
  IsFiniteSet(Pinned) /\ Cardinality(Pinned) \in Nat /\ (Cardinality(Pinned) = 0 <=> Pinned = {})
BY SMTT(30), PinAssumption, FS_Subset, FS_CardinalityType, FS_EmptySet DEF Pinned

LEMMA PinTaken ==
  ASSUME TypeOK, NEW u \in Users, user[u] = "idle",
         user' = [user EXCEPT ![u] = "pinned"]
  PROVE  Cardinality(Pinned') = Cardinality(Pinned) + 1
<1>1. Pinned' = Pinned \cup {u} /\ u \notin Pinned
  BY DEF Pinned, TypeOK
<1> QED BY <1>1, PinnedFinite, FS_AddElement

LEMMA PinGiven ==
  ASSUME TypeOK, NEW u \in Users, user[u] = "pinned", NEW x \in {"idle", "notify_lock"},
         user' = [user EXCEPT ![u] = x]
  PROVE  /\ Cardinality(Pinned') = Cardinality(Pinned) - 1
         /\ Cardinality(Pinned) = 1 => Pinned' = {}
<1>1. Pinned' = Pinned \ {u} /\ u \in Pinned
  BY DEF Pinned, TypeOK
<1>2. Cardinality(Pinned') = Cardinality(Pinned) - 1 /\ IsFiniteSet(Pinned')
  BY <1>1, PinnedFinite, FS_RemoveElement
<1>3. Cardinality(Pinned) = 1 => Cardinality(Pinned') = 0
  BY <1>2
<1> QED BY <1>2, <1>3, FS_EmptySet

(* The inductive invariant holds initially. *)
LEMMA PinInit == Init => PinInv
<1> SUFFICES ASSUME Init PROVE PinInv
  OBVIOUS
<1>1. Pinned = {}
  BY DEF Init, Pinned
<1>2. TypeOK
  BY Zenon DEF Init, TypeOK
<1>3. CountsPins
  BY <1>1, FS_EmptySet DEF Init, CountsPins
<1> QED
  BY <1>2, <1>3, PinAssumption DEF PinInv, Init, MutexHeld, NoPinsLeft, SleeperWillBeWoken

(* Every step of a submitting thread preserves it. *)
LEMMA UserPreserves ==
  ASSUME PinInv, NEW u \in Users, retain(u) \/ UserStep(u)
  PROVE  PinInv'
<1> USE DEF PinInv
<1>1. CASE retain(u)
  <2>1. TypeOK' BY <1>1 DEF retain, TypeOK
  <2>2. CountsPins' BY Zenon, <1>1, PinTaken DEF retain, CountsPins
  <2>3. MutexHeld' BY <1>1 DEF retain, MutexHeld, TypeOK
  <2>4. NoPinsLeft' BY <1>1 DEF retain, NoPinsLeft
  <2>5. u \in Pinned' BY <1>1 DEF retain, Pinned, TypeOK
  <2>6. SleeperWillBeWoken' BY <2>5 DEF SleeperWillBeWoken
  <2> QED BY <2>1, <2>2, <2>3, <2>4, <2>6
<1>2. CASE release(u)
  <2> DEFINE x == IF count = 1 THEN "notify_lock" ELSE "idle"
  <2>0. user' = [user EXCEPT ![u] = x] /\ x \in {"idle", "notify_lock"} /\ user[u] = "pinned"
    BY <1>2 DEF release
  <2>1. u \in Pinned /\ Pinned # {} /\ count \in Nat \ {0}
    BY <1>2, PinnedFinite DEF release, Pinned, CountsPins, TypeOK
  <2>2. TypeOK' BY <1>2, <2>1 DEF release, TypeOK
  <2> HIDE DEF x
  <2>3. Cardinality(Pinned') = Cardinality(Pinned) - 1
    BY Zenon, <2>0, PinGiven
  <2>4. CountsPins' BY <1>2, <2>3 DEF release, CountsPins
  <2>5. MutexHeld' BY <1>2 DEF release, MutexHeld, TypeOK
  <2>6. NoPinsLeft' BY <1>2, <2>1 DEF release, NoPinsLeft
  <2>7. SleeperWillBeWoken'
    <3>1. CASE count = 1
      <4>1. user'[u] = "notify_lock" BY <1>2, <3>1 DEF release, TypeOK
      <4> QED BY <4>1 DEF SleeperWillBeWoken
    <3>2. CASE count # 1
      <4>1. Cardinality(Pinned') # 0 BY <2>1, <2>3, <3>2 DEF CountsPins
      <4>2. Pinned' # {} BY <4>1, FS_EmptySet
      <4> QED BY <4>2 DEF SleeperWillBeWoken
    <3> QED BY <3>1, <3>2
  <2> QED BY <2>2, <2>4, <2>5, <2>6, <2>7
<1>3. CASE NotifyLock(u)
  <2>1. TypeOK' BY <1>3 DEF NotifyLock, TypeOK
  <2>2. Pinned' = Pinned BY <1>3 DEF NotifyLock, Pinned, TypeOK
  <2>3. CountsPins' BY <1>3, <2>2 DEF NotifyLock, CountsPins
  <2>4. MutexHeld' BY <1>3, PinAssumption DEF NotifyLock, MutexHeld, TypeOK
  <2>5. NoPinsLeft' BY <1>3 DEF NotifyLock, NoPinsLeft
  <2>6. user'[u] = "notify" BY <1>3 DEF NotifyLock, TypeOK
  <2>7. SleeperWillBeWoken' BY <2>6 DEF SleeperWillBeWoken
  <2> QED BY <2>1, <2>3, <2>4, <2>5, <2>7
<1>4. CASE notify_all(u)
  <2>1. TypeOK' BY <1>4 DEF notify_all, TypeOK
  <2>2. Pinned' = Pinned BY <1>4 DEF notify_all, Pinned, TypeOK
  <2>3. CountsPins' BY <1>4, <2>2 DEF notify_all, CountsPins
  <2>4. mutex = u /\ mutex # Destroyer BY <1>4, PinAssumption DEF notify_all, MutexHeld
  <2>5. MutexHeld' BY <1>4, <2>4, PinAssumption DEF notify_all, MutexHeld, TypeOK
  <2>6. NoPinsLeft' BY <1>4 DEF notify_all, NoPinsLeft
  <2>7. SleeperWillBeWoken'
    BY <1>4, <2>4 DEF notify_all, SleeperWillBeWoken, MutexHeld
  <2> QED BY <2>1, <2>3, <2>5, <2>6, <2>7
<1> QED BY <1>1, <1>2, <1>3, <1>4 DEF UserStep

(* Every step of the destroying thread preserves it. *)
LEMMA DestroyerPreserves ==
  ASSUME PinInv, Destroy \/ DestroyerStep
  PROVE  PinInv'
<1> USE DEF PinInv
<1>1. count' = count /\ user' = user
  BY DEF Destroy, DestroyerStep, WaitLock, WaitTest, WaitSleep, Delete
<1>2. CountsPins'
  BY <1>1 DEF CountsPins, Pinned
<1>3. count = 0 <=> Pinned = {}
  BY PinnedFinite DEF CountsPins
<1>4. TypeOK'
  BY Zenon, <1>1 DEF TypeOK, Destroy, DestroyerStep, WaitLock, WaitTest, WaitSleep, Delete
<1>5. MutexHeld'
  BY <1>1, PinAssumption
  DEF MutexHeld, Destroy, DestroyerStep, WaitLock, WaitTest, WaitSleep, Delete
<1>6. NoPinsLeft'
  BY <1>1 DEF NoPinsLeft, empty, Destroy, DestroyerStep, WaitLock, WaitTest, WaitSleep, Delete
<1>7. SleeperWillBeWoken'
  BY <1>1, <1>3 DEF SleeperWillBeWoken, Pinned, empty, Destroy, DestroyerStep,
                    WaitLock, WaitTest, WaitSleep, Delete
<1> QED BY <1>2, <1>4, <1>5, <1>6, <1>7

LEMMA PinStep == PinInv /\ [Next]_vars => PinInv'
<1>1. ASSUME PinInv, UNCHANGED vars PROVE PinInv'
  BY <1>1 DEF PinInv, vars, TypeOK, CountsPins, MutexHeld, NoPinsLeft,
              SleeperWillBeWoken, Pinned
<1> QED BY <1>1, UserPreserves, DestroyerPreserves DEF Next, Finished

(* The inductive invariant holds in every reachable state. *)
THEOREM PinInvariance == Spec => []PinInv
BY PinInit, PinStep, PTL DEF Spec

(* The module or queue is alive as long as a submission has it pinned, for  *)
(* any number of submitting threads.                                        *)
THEOREM PinsKeepOwnerAlive == Spec => []PinsProtect
<1>1. PinInv => PinsProtect
  BY PinnedFinite DEF PinInv, CountsPins, NoPinsLeft, PinsProtect, TypeOK
<1> QED BY <1>1, PinInvariance, PTL

(* No wake-up of wait_until_empty is lost, for any number of threads. *)
THEOREM NoLostWakeUp == Spec => []SleeperWillBeWoken
<1>1. PinInv => SleeperWillBeWoken
  BY DEF PinInv
<1> QED BY <1>1, PinInvariance, PTL
=============================================================================
