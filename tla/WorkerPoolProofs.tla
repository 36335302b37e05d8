--------------------------- MODULE WorkerPoolProofs ---------------------------
(***************************************************************************)
(* Proofs about WorkerPool, for every set of requests, pool size and       *)
(* number of crashes.  The invariants of the runs are not inductive on     *)
(* their own: that nobody doubles a slot needs to know that the channel    *)
(* and the holders partition the slots; that a worker stays clean until    *)
(* its holder uses it needs mutual exclusion; that the origin is settled   *)
(* needs to know who is inside ensureOrigin.  IndInv puts these together.  *)
(***************************************************************************)
EXTENDS WorkerPool, FiniteSetTheorems, TLAPS

\* No pool, no call in flight.
IdleWithoutPool ==
    ~pooled => /\ avail = << >>
               /\ \A r \in Requests : pc[r] \in {"idle"} \cup Terminal

HolderHasSlot == \A r \in Requests : pc[r] \in Holding \cup {"released"} => slot[r] \in Slots

\* The owner of originMu is the one call inside ensureOrigin.
OriginLocked == \A r \in Requests : pc[r] \in InEnsureOrigin <=> originMu = r

\* Whoever is past ensureOrigin set the flag; nobody clones once it is set.
OriginSettled ==
    /\ \A r \in Requests : pc[r] \in PastOrigin => cloned
    /\ \A r \in Requests : pc[r] = "cloning" => ~cloned
    /\ cloned => origin # "absent"

IndInv ==
    /\ TypeOK
    /\ IdleWithoutPool
    /\ HolderHasSlot
    /\ MutualExclusion
    /\ SlotConservation
    /\ OriginLocked
    /\ OriginSettled
    /\ HandedOverClean

LEMMA InitIndInv == Init => IndInv
<1> SUFFICES ASSUME Init PROVE IndInv
  OBVIOUS
<1> USE PoolAssumption DEF PoolAssumption
<1>1. TypeOK
  <2>1. pc \in [Requests -> PC] /\ slot \in [Requests -> Slots \cup {NoSlot}]
    BY DEF Init, PC, NoSlot
  <2>2. ctx \in [Requests -> {"live", "cancelled", "expired"}] /\ result \in [Requests -> Errors \cup {"none"}]
    BY DEF Init
  <2>3. created \in [Slots -> BOOLEAN] /\ pooled \in BOOLEAN /\ cloned \in BOOLEAN
    BY DEF Init
  <2>4. avail \in Seq(Slots) /\ crashes \in 0..MaxCrashes
    BY DEF Init
  <2>5. originMu \in Requests \cup {NoReq} /\ origin \in OriginStates
    BY DEF Init, OriginStates
  <2>6. disk \in [Slots -> WorkerStates]
    BY DEF Init, WorkerStates
  <2> QED BY <2>1, <2>2, <2>3, <2>4, <2>5, <2>6 DEF TypeOK
<1>2. IdleWithoutPool /\ HolderHasSlot /\ MutualExclusion /\ SlotConservation
  BY DEF Init, IdleWithoutPool, HolderHasSlot, MutualExclusion, SlotConservation, Holds, Holding, Terminal
<1>3. OriginLocked /\ OriginSettled /\ HandedOverClean
  BY DEF Init, OriginLocked, OriginSettled, HandedOverClean, InEnsureOrigin, PastOrigin, Holding
<1> QED BY <1>1, <1>2, <1>3 DEF IndInv

\* What the select takes off the channel: one slot, which was nowhere else.
LEMMA TakeFromAvail ==
  ASSUME avail \in Seq(Slots), avail # << >>,
         \A i, j \in 1..Len(avail) : avail[i] = avail[j] => i = j,
         avail' = Tail(avail)
  PROVE  /\ avail' \in Seq(Slots)
         /\ Head(avail) \in Slots
         /\ \A i, j \in 1..Len(avail') : avail'[i] = avail'[j] => i = j
         /\ \A s \in Slots : InAvail(s)' <=> (InAvail(s) /\ s # Head(avail))
         /\ InAvail(Head(avail))
<1>1. /\ Len(avail) \in Nat \ {0} /\ Len(avail') = Len(avail) - 1
      /\ Head(avail) = avail[1] /\ avail' \in Seq(Slots)
      /\ \A i \in 1..Len(avail') : avail'[i] = avail[i + 1]
      /\ \A i \in 1..Len(avail) : avail[i] \in Slots
  OBVIOUS
<1>2. Head(avail) \in Slots /\ InAvail(Head(avail))
  BY <1>1 DEF InAvail
<1>3. ASSUME NEW i \in 1..Len(avail'), NEW j \in 1..Len(avail'), avail'[i] = avail'[j]
      PROVE  i = j
  BY <1>1, <1>3
<1>4. ASSUME NEW s \in Slots PROVE InAvail(s)' <=> (InAvail(s) /\ s # Head(avail))
  <2>1. ASSUME InAvail(s)' PROVE InAvail(s) /\ s # Head(avail)
    <3>1. PICK i \in 1..Len(avail') : avail'[i] = s
      BY <2>1 DEF InAvail
    <3>2. i + 1 \in 1..Len(avail) /\ i + 1 # 1 /\ 1 \in 1..Len(avail) /\ avail[i + 1] = s
      BY <1>1, <3>1
    <3> QED BY <1>1, <3>2 DEF InAvail
  <2>2. ASSUME InAvail(s), s # Head(avail) PROVE InAvail(s)'
    <3>1. PICK i \in 1..Len(avail) : avail[i] = s
      BY <2>2 DEF InAvail
    <3>2. i # 1
      BY <1>1, <2>2, <3>1
    <3>3. i - 1 \in 1..Len(avail') /\ avail'[i - 1] = s
      BY <1>1, <3>1, <3>2
    <3> QED BY <3>3 DEF InAvail
  <2> QED BY <2>1, <2>2
<1> QED BY <1>1, <1>2, <1>3, <1>4

\* What a send puts on the channel: one slot more, which was not on it.
LEMMA SendToAvail ==
  ASSUME avail \in Seq(Slots), NEW t \in Slots, ~InAvail(t),
         \A i, j \in 1..Len(avail) : avail[i] = avail[j] => i = j,
         avail' = Append(avail, t)
  PROVE  /\ avail' \in Seq(Slots)
         /\ \A i, j \in 1..Len(avail') : avail'[i] = avail'[j] => i = j
         /\ \A s \in Slots : InAvail(s)' <=> (InAvail(s) \/ s = t)
<1>1. /\ Len(avail) \in Nat /\ Len(avail') = Len(avail) + 1
      /\ avail' \in Seq(Slots) /\ avail'[Len(avail')] = t
      /\ \A i \in 1..Len(avail) : avail'[i] = avail[i]
  OBVIOUS
<1>2. ASSUME NEW i \in 1..Len(avail'), NEW j \in 1..Len(avail'), avail'[i] = avail'[j]
      PROVE  i = j
  <2>1. \A k \in 1..Len(avail) : avail[k] # t
    BY DEF InAvail
  <2>2. \A k \in 1..Len(avail') : k \in 1..Len(avail) \/ k = Len(avail')
    BY <1>1
  <2> QED BY <1>1, <1>2, <2>1, <2>2
<1>3. ASSUME NEW s \in Slots PROVE InAvail(s)' <=> (InAvail(s) \/ s = t)
  <2>1. \A k \in 1..Len(avail') : k \in 1..Len(avail) \/ k = Len(avail')
    BY <1>1
  <2>2. Len(avail') \in 1..Len(avail') /\ \A k \in 1..Len(avail) : k \in 1..Len(avail')
    BY <1>1
  <2> QED BY <1>1, <2>1, <2>2 DEF InAvail
<1> QED BY <1>1, <1>2, <1>3


\* One call's step preserves the inductive invariant: one case per action.
LEMMA StepIndInv == ASSUME NEW r \in Requests, IndInv, Step(r) \/ ContextDone(r) PROVE IndInv'
<1> USE PoolAssumption DEF PoolAssumption, PC, Holding, InEnsureOrigin, PastOrigin, Terminal
<1> USE DEF IndInv, TypeOK, Goto, Fail, poolVars, diskVars, callVars
<1>1. CASE LeaseUnconfigured(r)
  <2>1. TypeOK'
    BY <1>1 DEF LeaseUnconfigured, Errors, OriginStates, WorkerStates, HolderHasSlot
  <2>2. IdleWithoutPool' /\ HolderHasSlot' /\ OriginLocked' /\ OriginSettled'
    BY <1>1 DEF LeaseUnconfigured, IdleWithoutPool, HolderHasSlot, OriginLocked, OriginSettled
  <2>3. MutualExclusion' /\ SlotConservation' /\ HandedOverClean'
    BY <1>1 DEF LeaseUnconfigured, HolderHasSlot, MutualExclusion, SlotConservation, HandedOverClean, Holds, InAvail
  <2> QED BY <2>1, <2>2, <2>3
<1>2. CASE LockOrigin(r)
  <2>1. TypeOK'
    BY <1>2 DEF LockOrigin, Errors, OriginStates, WorkerStates, HolderHasSlot
  <2>2. IdleWithoutPool' /\ HolderHasSlot' /\ OriginLocked' /\ OriginSettled'
    BY <1>2 DEF LockOrigin, IdleWithoutPool, HolderHasSlot, OriginLocked, OriginSettled
  <2>3. MutualExclusion' /\ SlotConservation' /\ HandedOverClean'
    BY <1>2 DEF LockOrigin, HolderHasSlot, MutualExclusion, SlotConservation, HandedOverClean, Holds, InAvail
  <2> QED BY <2>1, <2>2, <2>3
<1>3. CASE OriginPresent(r)
  <2>1. TypeOK'
    BY <1>3 DEF OriginPresent, Errors, OriginStates, WorkerStates, HolderHasSlot
  <2>2. IdleWithoutPool' /\ HolderHasSlot' /\ OriginLocked' /\ OriginSettled'
    BY <1>3 DEF OriginPresent, IdleWithoutPool, HolderHasSlot, OriginLocked, OriginSettled
  <2>3. MutualExclusion' /\ SlotConservation' /\ HandedOverClean'
    BY <1>3 DEF OriginPresent, HolderHasSlot, MutualExclusion, SlotConservation, HandedOverClean, Holds, InAvail
  <2> QED BY <2>1, <2>2, <2>3
<1>4. CASE CloneOrigin(r)
  <2>1. TypeOK'
    BY <1>4 DEF CloneOrigin, Errors, OriginStates, WorkerStates, HolderHasSlot
  <2>2. IdleWithoutPool' /\ HolderHasSlot' /\ OriginLocked' /\ OriginSettled'
    BY <1>4 DEF CloneOrigin, IdleWithoutPool, HolderHasSlot, OriginLocked, OriginSettled
  <2>3. MutualExclusion' /\ SlotConservation' /\ HandedOverClean'
    BY <1>4 DEF CloneOrigin, HolderHasSlot, MutualExclusion, SlotConservation, HandedOverClean, Holds, InAvail
  <2> QED BY <2>1, <2>2, <2>3
<1>5. CASE CloneOriginDone(r)
  <2>1. TypeOK'
    BY <1>5 DEF CloneOriginDone, Errors, OriginStates, WorkerStates, HolderHasSlot
  <2>2. IdleWithoutPool' /\ HolderHasSlot' /\ OriginLocked' /\ OriginSettled'
    BY <1>5 DEF CloneOriginDone, IdleWithoutPool, HolderHasSlot, OriginLocked, OriginSettled
  <2>3. MutualExclusion' /\ SlotConservation'
    BY <1>5 DEF CloneOriginDone, MutualExclusion, SlotConservation, Holds, InAvail
  <2>4. HandedOverClean'
    BY <1>5 DEF CloneOriginDone, HandedOverClean
  <2> QED BY <2>1, <2>2, <2>3, <2>4
<1>6. CASE CloneOriginFailed(r)
  <2>1. TypeOK'
    BY <1>6 DEF CloneOriginFailed, Errors, OriginStates, WorkerStates, HolderHasSlot
  <2>2. IdleWithoutPool' /\ HolderHasSlot' /\ OriginLocked' /\ OriginSettled'
    BY <1>6 DEF CloneOriginFailed, IdleWithoutPool, HolderHasSlot, OriginLocked, OriginSettled
  <2>3. MutualExclusion' /\ SlotConservation' /\ HandedOverClean'
    BY <1>6 DEF CloneOriginFailed, HolderHasSlot, MutualExclusion, SlotConservation, HandedOverClean, Holds, InAvail
  <2> QED BY <2>1, <2>2, <2>3
<1>7. CASE WaitCancelled(r)
  <2>1. TypeOK'
    BY <1>7 DEF WaitCancelled, Errors, OriginStates, WorkerStates, HolderHasSlot
  <2>2. IdleWithoutPool' /\ HolderHasSlot' /\ OriginLocked' /\ OriginSettled'
    BY <1>7 DEF WaitCancelled, IdleWithoutPool, HolderHasSlot, OriginLocked, OriginSettled
  <2>3. MutualExclusion' /\ SlotConservation' /\ HandedOverClean'
    BY <1>7 DEF WaitCancelled, HolderHasSlot, MutualExclusion, SlotConservation, HandedOverClean, Holds, InAvail
  <2> QED BY <2>1, <2>2, <2>3
<1>8. CASE RestoreOk(r)
  <2>1. TypeOK'
    BY <1>8 DEF RestoreOk, Errors, OriginStates, WorkerStates, HolderHasSlot
  <2>2. IdleWithoutPool' /\ HolderHasSlot' /\ OriginLocked' /\ OriginSettled'
    BY <1>8 DEF RestoreOk, IdleWithoutPool, HolderHasSlot, OriginLocked, OriginSettled
  <2>3. MutualExclusion' /\ SlotConservation'
    <3>1. \A q \in Requests, s \in Slots : Holds(q, s)' <=> Holds(q, s)
      BY <1>8 DEF RestoreOk, Holds
    <3>2. avail' = avail /\ pooled' = pooled
      BY <1>8 DEF RestoreOk
    <3> QED BY <3>1, <3>2 DEF MutualExclusion, SlotConservation, InAvail
  <2>4. slot[r] \in Slots /\ disk'[slot[r]] \in {"clean", "partial"}
    BY <1>8 DEF RestoreOk, HolderHasSlot, WorkerStates
  <2>5. \A q \in Requests : pc[q] = "leased" => slot[q] # slot[r]
    BY <1>8, <2>4 DEF RestoreOk, MutualExclusion, Holds
  <2>6. HandedOverClean'
    BY <1>8, <2>4, <2>5 DEF RestoreOk, HandedOverClean, HolderHasSlot
  <2> QED BY <2>1, <2>2, <2>3, <2>6
<1>9. CASE RestoreFailed(r)
  <2>1. TypeOK'
    BY <1>9 DEF RestoreFailed, Errors, OriginStates, WorkerStates, HolderHasSlot
  <2>2. IdleWithoutPool' /\ HolderHasSlot' /\ OriginLocked' /\ OriginSettled'
    BY <1>9 DEF RestoreFailed, IdleWithoutPool, HolderHasSlot, OriginLocked, OriginSettled
  <2>3. MutualExclusion' /\ SlotConservation' /\ HandedOverClean'
    BY <1>9 DEF RestoreFailed, HolderHasSlot, MutualExclusion, SlotConservation, HandedOverClean, Holds, InAvail
  <2> QED BY <2>1, <2>2, <2>3
<1>10. CASE RemoveWorker(r)
  <2>1. TypeOK'
    BY <1>10 DEF RemoveWorker, Errors, OriginStates, WorkerStates, HolderHasSlot
  <2>2. IdleWithoutPool' /\ HolderHasSlot' /\ OriginLocked' /\ OriginSettled'
    BY <1>10 DEF RemoveWorker, IdleWithoutPool, HolderHasSlot, OriginLocked, OriginSettled
  <2>3. MutualExclusion' /\ SlotConservation' /\ HandedOverClean'
    BY <1>10 DEF RemoveWorker, HolderHasSlot, MutualExclusion, SlotConservation, HandedOverClean, Holds, InAvail
  <2> QED BY <2>1, <2>2, <2>3
<1>11. CASE CreateWorkerDone(r)
  <2>1. TypeOK'
    BY <1>11 DEF CreateWorkerDone, Errors, OriginStates, WorkerStates, HolderHasSlot
  <2>2. IdleWithoutPool' /\ HolderHasSlot' /\ OriginLocked' /\ OriginSettled'
    BY <1>11 DEF CreateWorkerDone, IdleWithoutPool, HolderHasSlot, OriginLocked, OriginSettled
  <2>3. MutualExclusion' /\ SlotConservation' /\ HandedOverClean'
    BY <1>11 DEF CreateWorkerDone, HolderHasSlot, MutualExclusion, SlotConservation, HandedOverClean, Holds, InAvail
  <2> QED BY <2>1, <2>2, <2>3
<1>12. CASE Use(r)
  <2>1. TypeOK'
    BY <1>12 DEF Use, Errors, OriginStates, WorkerStates, HolderHasSlot
  <2>2. IdleWithoutPool' /\ HolderHasSlot' /\ OriginLocked' /\ OriginSettled'
    BY <1>12 DEF Use, IdleWithoutPool, HolderHasSlot, OriginLocked, OriginSettled
  <2>3. MutualExclusion' /\ SlotConservation' /\ HandedOverClean'
    BY <1>12 DEF Use, HolderHasSlot, MutualExclusion, SlotConservation, HandedOverClean, Holds, InAvail
  <2> QED BY <2>1, <2>2, <2>3
<1>13. CASE ContextDone(r)
  <2>1. TypeOK'
    BY <1>13 DEF ContextDone, InFlight, Errors, OriginStates, WorkerStates, HolderHasSlot
  <2>2. IdleWithoutPool' /\ HolderHasSlot' /\ OriginLocked' /\ OriginSettled'
    BY <1>13 DEF ContextDone, InFlight, IdleWithoutPool, HolderHasSlot, OriginLocked, OriginSettled
  <2>3. MutualExclusion' /\ SlotConservation' /\ HandedOverClean'
    BY <1>13 DEF ContextDone, InFlight, HolderHasSlot, MutualExclusion, SlotConservation, HandedOverClean, Holds, InAvail
  <2> QED BY <2>1, <2>2, <2>3
<1>14. CASE PoolFor(r)
  <2>1. TypeOK'
    BY <1>14 DEF PoolFor, Slots
  <2>2. IdleWithoutPool' /\ HolderHasSlot' /\ OriginLocked' /\ OriginSettled' /\ HandedOverClean'
    BY <1>14 DEF PoolFor, IdleWithoutPool, HolderHasSlot, OriginLocked, OriginSettled, HandedOverClean
  <2>3. \A q \in Requests, s \in Slots : Holds(q, s)' <=> Holds(q, s)
    BY <1>14 DEF PoolFor, Holds
  <2>4. MutualExclusion'
    BY <2>3 DEF MutualExclusion
  <2>5. CASE pooled
    <3>1. SlotConservation'
      BY <1>14, <2>3, <2>5 DEF PoolFor, SlotConservation, InAvail
    <3> QED BY <2>1, <2>2, <2>4, <3>1
  <2>6. CASE ~pooled
    <3>1. /\ Len(avail') = PoolSize
          /\ \A i \in 1..PoolSize : avail'[i] = i
      BY <1>14, <2>6 DEF PoolFor
    <3>2. \A s \in Slots : InAvail(s)'
      BY <3>1 DEF InAvail, Slots
    <3>3. \A q \in Requests, s \in Slots : ~Holds(q, s)
      BY <2>6 DEF IdleWithoutPool, Holds
    <3>4. SlotConservation'
      BY <2>3, <3>1, <3>2, <3>3 DEF SlotConservation
    <3> QED BY <2>1, <2>2, <2>4, <3>4
  <2> QED BY <2>5, <2>6
<1>15. CASE TakeSlot(r)
  <2>1. pooled
    BY <1>15 DEF TakeSlot, IdleWithoutPool
  <2>2. \A i, j \in 1..Len(avail) : avail[i] = avail[j] => i = j
    BY <2>1 DEF SlotConservation
  <2>3. /\ avail' \in Seq(Slots)
        /\ Head(avail) \in Slots
        /\ \A i, j \in 1..Len(avail') : avail'[i] = avail'[j] => i = j
        /\ \A s \in Slots : InAvail(s)' <=> (InAvail(s) /\ s # Head(avail))
        /\ InAvail(Head(avail))
    BY <1>15, <2>2, TakeFromAvail DEF TakeSlot
  <2>4. TypeOK'
    BY <1>15, <2>3 DEF TakeSlot
  <2>5. IdleWithoutPool' /\ HolderHasSlot' /\ OriginLocked' /\ OriginSettled' /\ HandedOverClean'
    BY <1>15, <2>1, <2>3 DEF TakeSlot, IdleWithoutPool, HolderHasSlot, OriginLocked, OriginSettled, HandedOverClean
  <2>6. \A q \in Requests, s \in Slots :
           Holds(q, s)' <=> (Holds(q, s) \/ (q = r /\ s = Head(avail)))
    BY <1>15, <2>3 DEF TakeSlot, Holds
  <2>7. \A q \in Requests : ~Holds(q, Head(avail))
    BY <2>1, <2>3 DEF SlotConservation
  <2>8. ~ \E s \in Slots : Holds(r, s)
    BY <1>15 DEF TakeSlot, Holds
  <2>9. MutualExclusion' /\ SlotConservation'
    BY <2>3, <2>6, <2>7, <2>1, <2>8 DEF MutualExclusion, SlotConservation
  <2> QED BY <2>4, <2>5, <2>9
<1>16. CASE CreateWorkerFailed(r)
  <2>1. CASE pc[r] \in {"create", "cloningWorker"}
    <3>1. pooled /\ slot[r] \in Slots /\ Holds(r, slot[r])
      BY <1>16, <2>1 DEF CreateWorkerFailed, IdleWithoutPool, HolderHasSlot, Holds
    <3>2. ~InAvail(slot[r]) /\ \A i, j \in 1..Len(avail) : avail[i] = avail[j] => i = j
      BY <3>1 DEF SlotConservation
    <3>3. avail' = Append(avail, slot[r])
      BY <1>16, <2>1 DEF CreateWorkerFailed, SendSlot
    <3>4. /\ avail' \in Seq(Slots)
          /\ \A i, j \in 1..Len(avail') : avail'[i] = avail'[j] => i = j
          /\ \A s \in Slots : InAvail(s)' <=> (InAvail(s) \/ s = slot[r])
      BY <3>1, <3>2, <3>3, SendToAvail
    <3>5. TypeOK'
      BY <1>16, <2>1, <3>1, <3>4 DEF CreateWorkerFailed, Errors, WorkerStates
    <3>6. IdleWithoutPool' /\ HolderHasSlot' /\ OriginLocked' /\ OriginSettled'
      BY <1>16, <2>1, <3>1 DEF CreateWorkerFailed, IdleWithoutPool, HolderHasSlot, OriginLocked, OriginSettled
    <3>7. \A q \in Requests, s \in Slots : Holds(q, s)' <=> (Holds(q, s) /\ q # r)
      BY <1>16, <2>1 DEF CreateWorkerFailed, Holds
    <3>8. \A q \in Requests : Holds(q, slot[r]) => q = r
      BY <3>1 DEF MutualExclusion
    <3>9. MutualExclusion' /\ SlotConservation'
      BY <3>1, <3>4, <3>7, <3>8 DEF MutualExclusion, SlotConservation, Holds
    <3>10. HandedOverClean'
      BY <1>16, <2>1, <3>1, <3>8 DEF CreateWorkerFailed, HandedOverClean, HolderHasSlot, Holds
    <3> QED BY <3>5, <3>6, <3>9, <3>10
  <2> QED BY <1>16, <2>1 DEF CreateWorkerFailed
<1>17. CASE Release(r)
  <2>1. CASE pc[r] \in {"leased", "using"}
    <3>1. pooled /\ slot[r] \in Slots /\ Holds(r, slot[r])
      BY <1>17, <2>1 DEF Release, IdleWithoutPool, HolderHasSlot, Holds
    <3>2. ~InAvail(slot[r]) /\ \A i, j \in 1..Len(avail) : avail[i] = avail[j] => i = j
      BY <3>1 DEF SlotConservation
    <3>3. avail' = Append(avail, slot[r])
      BY <1>17, <2>1 DEF Release, SendSlot
    <3>4. /\ avail' \in Seq(Slots)
          /\ \A i, j \in 1..Len(avail') : avail'[i] = avail'[j] => i = j
          /\ \A s \in Slots : InAvail(s)' <=> (InAvail(s) \/ s = slot[r])
      BY <3>1, <3>2, <3>3, SendToAvail
    <3>5. TypeOK'
      BY <1>17, <2>1, <3>1, <3>4 DEF Release, Errors, WorkerStates
    <3>6. IdleWithoutPool' /\ HolderHasSlot' /\ OriginLocked' /\ OriginSettled'
      BY <1>17, <2>1, <3>1 DEF Release, IdleWithoutPool, HolderHasSlot, OriginLocked, OriginSettled
    <3>7. \A q \in Requests, s \in Slots : Holds(q, s)' <=> (Holds(q, s) /\ q # r)
      BY <1>17, <2>1 DEF Release, Holds
    <3>8. \A q \in Requests : Holds(q, slot[r]) => q = r
      BY <3>1 DEF MutualExclusion
    <3>9. MutualExclusion' /\ SlotConservation'
      BY <3>1, <3>4, <3>7, <3>8 DEF MutualExclusion, SlotConservation, Holds
    <3>10. HandedOverClean'
      BY <1>17, <2>1, <3>1, <3>8 DEF Release, HandedOverClean, HolderHasSlot, Holds
    <3> QED BY <3>5, <3>6, <3>9, <3>10
  <2>2. CASE pc[r] = "released"
    <3>1. TypeOK' /\ IdleWithoutPool' /\ HolderHasSlot' /\ OriginLocked' /\ OriginSettled'
      BY <1>17, <2>2 DEF Release, IdleWithoutPool, HolderHasSlot, OriginLocked, OriginSettled
    <3>2. MutualExclusion' /\ SlotConservation'
      BY <1>17, <2>2 DEF Release, MutualExclusion, SlotConservation, Holds, InAvail
    <3>3. HandedOverClean'
      BY <1>17, <2>2 DEF Release, HandedOverClean
    <3> QED BY <3>1, <3>2, <3>3
  <2> QED BY <1>17, <2>1, <2>2 DEF Release
<1> QED BY <1>1, <1>2, <1>3, <1>4, <1>5, <1>6, <1>7, <1>8, <1>9, <1>10, <1>11, <1>12, <1>13, <1>14, <1>15, <1>16, <1>17 DEF Step, EnsureOrigin, AcquireWorker

\* A restart leaves nothing of the pool in memory and no call in flight.
LEMMA CrashIndInv == IndInv /\ Crash => IndInv'
<1> SUFFICES ASSUME IndInv, Crash PROVE IndInv'
  OBVIOUS
<1> USE PoolAssumption DEF PoolAssumption, PC, Holding, InEnsureOrigin, PastOrigin, Terminal, InFlight
<1>1. TypeOK'
  <2>1. pc' \in [Requests -> PC] /\ result' \in [Requests -> Errors \cup {"none"}]
    BY DEF IndInv, TypeOK, Crash, Errors
  <2>2. avail' \in Seq(Slots) /\ crashes' \in 0..MaxCrashes
    BY DEF IndInv, TypeOK, Crash
  <2>3. created' \in [Slots -> BOOLEAN]
    BY DEF Crash
  <2> QED BY <2>1, <2>2, <2>3 DEF IndInv, TypeOK, Crash, diskVars
<1>2. IdleWithoutPool' /\ HolderHasSlot' /\ OriginLocked' /\ OriginSettled'
  BY DEF IndInv, TypeOK, Crash, diskVars, IdleWithoutPool, HolderHasSlot, OriginLocked, OriginSettled
<1>3. MutualExclusion' /\ SlotConservation' /\ HandedOverClean'
  BY DEF IndInv, TypeOK, Crash, diskVars, MutualExclusion, SlotConservation, HandedOverClean, Holds
<1> QED BY <1>1, <1>2, <1>3 DEF IndInv

LEMMA StutterIndInv == IndInv /\ UNCHANGED vars => IndInv'
BY DEF IndInv, TypeOK, IdleWithoutPool, HolderHasSlot, MutualExclusion, SlotConservation,
       OriginLocked, OriginSettled, HandedOverClean, Holds, InAvail,
       vars, callVars, poolVars, diskVars

\* The inductive invariant holds in every reachable state.
THEOREM IndInvHolds == Spec => []IndInv
<1>1. IndInv /\ [Next]_vars => IndInv'
  BY StepIndInv, CrashIndInv, StutterIndInv DEF Next, Quiescent
<1> QED BY InitIndInv, <1>1, PTL DEF Spec

\* Type correctness.
THEOREM TypeCorrect == Spec => []TypeOK
BY IndInvHolds, PTL DEF IndInv

\* No worker is ever in the hands of two requests, in no interleaving of
\* leases, failures, cancellations, double releases and restarts.
THEOREM WorkersAreExclusive == Spec => []MutualExclusion
BY IndInvHolds, PTL DEF IndInv

\* The channel and the holders partition the slots of a pool.
THEOREM SlotsAreConserved == Spec => []SlotConservation
BY IndInvHolds, PTL DEF IndInv

\* Lease returns only workers without leftovers.
THEOREM WorkersAreClean == Spec => []HandedOverClean
BY IndInvHolds, PTL DEF IndInv

LEMMA IntervalSize ==
  ASSUME NEW n \in Nat PROVE IsFiniteSet(1..n) /\ Cardinality(1..n) = n
<1>1. 1 \in Int /\ n \in Int
  OBVIOUS
<1>2. IsFiniteSet(1..n) /\ Cardinality(1..n) = IF 1 > n THEN 0 ELSE n - 1 + 1
  BY ONLY <1>1, FS_Interval, Zenon
<1> QED BY <1>2

\* A slot that is held leaves room for it in the channel: otherwise the channel
\* would map PoolSize positions to the PoolSize - 1 other slots without a clash.
LEMMA RoomForHeldSlot == IndInv => SendNeverBlocks
<1> SUFFICES ASSUME IndInv, NEW r \in Requests, pc[r] \in Holding
             PROVE  Len(avail) < PoolSize
  BY DEF SendNeverBlocks
<1> USE PoolAssumption DEF PoolAssumption
<1> DEFINE others == Slots \ {slot[r]}
<1>1. pooled /\ slot[r] \in Slots /\ Holds(r, slot[r])
  BY DEF IndInv, TypeOK, IdleWithoutPool, HolderHasSlot, Holds, Holding, Terminal
<1>2. avail \in [1..Len(avail) -> others] /\ Len(avail) \in Nat
  BY <1>1 DEF IndInv, TypeOK, SlotConservation, InAvail
<1>3. \A i, j \in 1..Len(avail) : avail[i] = avail[j] => i = j
  BY <1>1 DEF IndInv, SlotConservation
<1>4. IsFiniteSet(others) /\ Cardinality(others) = PoolSize - 1
  <2>1. IsFiniteSet(Slots) /\ Cardinality(Slots) = PoolSize
    BY IntervalSize DEF Slots
  <2> QED BY <1>1, <2>1, FS_RemoveElement
<1>5. IsFiniteSet(1..Len(avail)) /\ Cardinality(1..Len(avail)) = Len(avail)
  BY <1>2, IntervalSize
<1>6. ~(PoolSize - 1 < Len(avail))
  BY <1>2, <1>3, <1>4, <1>5, FS_PigeonHole
<1> QED BY <1>2, <1>6

\* Returning a slot, by Release or on the error path of Lease, never blocks.
THEOREM SendsDoNotBlock == Spec => []SendNeverBlocks
BY IndInvHolds, RoomForHeldSlot, PTL

\* No worker is cloned from an origin that is being cloned or removed.
THEOREM OriginIsSettled == Spec => []WorkersCloneSettledOrigin
<1>1. IndInv => WorkersCloneSettledOrigin
  BY DEF IndInv, OriginSettled, WorkersCloneSettledOrigin
<1> QED BY IndInvHolds, <1>1, PTL

\* Once ensureOrigin has succeeded, the origin directory is left alone.
THEOREM OriginIsStable == Spec => OriginStable
<1>1. IndInv /\ [Next]_vars => [cloned /\ cloned' => origin' = origin]_vars
  <2> SUFFICES ASSUME IndInv, [Next]_vars, cloned, origin' # origin PROVE FALSE
    OBVIOUS
  <2>1. PICK r \in Requests : CloneOrigin(r) \/ CloneOriginDone(r) \/ CloneOriginFailed(r)
    BY DEF Next, Step, EnsureOrigin, AcquireWorker, Quiescent, vars, diskVars, Crash, ContextDone,
           LeaseUnconfigured, PoolFor, LockOrigin, OriginPresent, TakeSlot, WaitCancelled, RestoreOk,
           RestoreFailed, RemoveWorker, CreateWorkerDone, CreateWorkerFailed, Use, Release
  <2> QED BY <2>1 DEF CloneOrigin, CloneOriginDone, CloneOriginFailed, IndInv, OriginSettled
<1> QED BY IndInvHolds, <1>1, PTL DEF Spec, OriginStable

-----------------------------------------------------------------------------
(* Refinement of WorkerLease.                                               *)

\* The tenants of the abstract specification, as the mapping computes them.
Tenants(s) == {r \in Requests : LentTo(r, s)}

\* A step that neither lends, returns nor touches leftovers is a stutter.
LEMMA RefinementStutter ==
  ASSUME \A s \in Slots : Tenants(s)' = Tenants(s),
         \A s \in Slots : (disk[s] = "dirty")' <=> disk[s] = "dirty"
  PROVE  UNCHANGED WL!leaseVars
BY DEF WL!leaseVars, Tenants

\* A step by which Lease returns a worker is a grant of the abstract lease.
LEMMA RefinementGrant ==
  ASSUME IndInv, NEW r \in Requests, NEW w \in Slots, slot[r] = w, RestoreOk(r) \/ CreateWorkerDone(r)
  PROVE  WL!Grant(r, w)
<1> USE DEF Goto, Holding
<1>1. slot[r] \in Slots /\ Holds(r, slot[r]) /\ pc' = [pc EXCEPT ![r] = "leased"] /\ slot' = slot
      /\ pc[r] \notin {"leased", "using"}
  BY DEF IndInv, HolderHasSlot, Holds, RestoreOk, CreateWorkerDone
<1>6. \/ disk' = [disk EXCEPT ![slot[r]] = IF @ = "dirty" THEN "clean" ELSE @]
      \/ disk' = [disk EXCEPT ![slot[r]] = "clean"]
  BY DEF RestoreOk, CreateWorkerDone
<1>2. \A q \in Requests : Holds(q, slot[r]) => q = r
  BY <1>1 DEF IndInv, MutualExclusion
<1>3. Tenants(slot[r]) = {} /\ \A t \in Slots : r \notin Tenants(t)
  BY <1>1, <1>2 DEF Tenants, LentTo, Holds
<1>4. \A s \in Slots : Tenants(s)' = IF s = slot[r] THEN {r} ELSE Tenants(s)
  <2>1. \A q \in Requests, s \in Slots : LentTo(q, s)' <=> (LentTo(q, s) \/ (q = r /\ s = slot[r]))
    BY <1>1 DEF LentTo, IndInv, TypeOK
  <2> QED BY <1>3, <2>1 DEF Tenants
<1>5. \A s \in Slots : (disk[s] = "dirty")' <=> (s # slot[r] /\ disk[s] = "dirty")
  BY <1>1, <1>6 DEF IndInv, TypeOK
<1> QED BY <1>1, <1>3, <1>4, <1>5 DEF WL!Grant, Tenants

\* createWorker wipes a directory that nobody has been lent.
LEMMA RefinementScrub ==
  ASSUME IndInv, NEW r \in Requests, NEW w \in Slots, slot[r] = w,
         RemoveWorker(r) \/ (CreateWorkerFailed(r) /\ pc[r] = "cloningWorker")
  PROVE  WL!Scrub(w)
<1> USE DEF Goto, Fail, Holding
<1>1. PICK left \in {"absent", "partial"} : disk' = [disk EXCEPT ![slot[r]] = left]
  BY DEF RemoveWorker, CreateWorkerFailed
<1>2. slot[r] \in Slots /\ Holds(r, slot[r]) /\ slot' = slot
      /\ pc' \in [Requests -> PC] /\ pc'[r] \notin {"leased", "using"} /\ pc[r] \notin {"leased", "using"}
      /\ \A q \in Requests : q # r => pc'[q] = pc[q]
  BY StepIndInv DEF IndInv, TypeOK, HolderHasSlot, Holds, RemoveWorker, CreateWorkerFailed, Step, AcquireWorker
<1>3. \A q \in Requests : Holds(q, slot[r]) => q = r
  BY <1>2 DEF IndInv, MutualExclusion
<1>4. Tenants(slot[r]) = {} /\ \A s \in Slots : Tenants(s)' = Tenants(s)
  BY <1>2, <1>3 DEF Tenants, LentTo, Holds
<1>5. \A s \in Slots : (disk[s] = "dirty")' <=> (s # slot[r] /\ disk[s] = "dirty")
  BY <1>1, <1>2 DEF IndInv, TypeOK
<1> QED BY <1>2, <1>4, <1>5 DEF WL!Scrub, Tenants

\* What the tenant does in its worker, and giving it back.
LEMMA RefinementTenant ==
  ASSUME IndInv, NEW r \in Requests, NEW w \in Slots, slot[r] = w, Use(r) \/ (Release(r) /\ pc[r] # "released")
  PROVE  WL!Soil(r, w) \/ WL!Return(r, w)
<1> USE DEF Goto, Holding
<1>1. slot[r] \in Slots /\ Holds(r, slot[r]) /\ LentTo(r, slot[r]) /\ slot' = slot
  BY DEF IndInv, HolderHasSlot, Holds, LentTo, Use, Release
<1>2. \A q \in Requests : Holds(q, slot[r]) => q = r
  BY <1>1 DEF IndInv, MutualExclusion
<1>3. Tenants(slot[r]) = {r}
  BY <1>1, <1>2 DEF Tenants, LentTo, Holds
<1>4. CASE Use(r)
  <2>1. \A s \in Slots : Tenants(s)' = Tenants(s)
    BY <1>1, <1>4 DEF Use, Tenants, LentTo, IndInv, TypeOK
  <2>2. \A s \in Slots : (disk[s] = "dirty")' <=> (s = slot[r] \/ disk[s] = "dirty")
    BY <1>1, <1>4 DEF Use, IndInv, TypeOK
  <2> QED BY <1>1, <1>3, <2>1, <2>2 DEF WL!Soil, Tenants
<1>5. CASE Release(r) /\ pc[r] # "released"
  <2>1. \A q \in Requests, s \in Slots : LentTo(q, s)' <=> (LentTo(q, s) /\ q # r)
    BY <1>5 DEF Release, LentTo, IndInv, TypeOK
  <2>2. \A s \in Slots : Tenants(s)' = IF s = slot[r] THEN {} ELSE Tenants(s)
    BY <1>3, <2>1 DEF Tenants, LentTo
  <2>3. disk' = disk
    BY <1>5 DEF Release, diskVars
  <2> QED BY <1>1, <1>3, <2>2, <2>3 DEF WL!Return, Tenants
<1> QED BY <1>4, <1>5

\* The other steps neither lend, return nor touch leftovers.
LEMMA RefinementOther ==
  ASSUME IndInv, NEW r \in Requests,
         \/ LeaseUnconfigured(r) \/ PoolFor(r) \/ EnsureOrigin(r) \/ TakeSlot(r)
         \/ WaitCancelled(r) \/ RestoreFailed(r) \/ ContextDone(r)
         \/ CreateWorkerFailed(r) /\ pc[r] = "create"
         \/ Release(r) /\ pc[r] = "released"
  PROVE  UNCHANGED WL!leaseVars
<1> USE DEF Goto, Fail, diskVars
<1>1. disk' = disk /\ (slot' = slot \/ TakeSlot(r))
  BY DEF LeaseUnconfigured, PoolFor, EnsureOrigin, LockOrigin, OriginPresent, CloneOrigin,
         CloneOriginDone, CloneOriginFailed, TakeSlot, WaitCancelled, RestoreFailed,
         ContextDone, CreateWorkerFailed, Release
<1>2. /\ pc[r] \notin {"leased", "using"} /\ pc'[r] \notin {"leased", "using"}
      /\ \A q \in Requests : q # r => pc'[q] = pc[q]
      \/ pc' = pc
  BY DEF LeaseUnconfigured, PoolFor, EnsureOrigin, LockOrigin, OriginPresent, CloneOrigin,
         CloneOriginDone, CloneOriginFailed, TakeSlot, WaitCancelled, RestoreFailed,
         ContextDone, CreateWorkerFailed, Release, IndInv, TypeOK
<1>3. \A q \in Requests : q # r => slot'[q] = slot[q]
  BY <1>1 DEF TakeSlot, IndInv, TypeOK
<1>4. \A q \in Requests, s \in Slots : LentTo(q, s)' <=> LentTo(q, s)
  BY <1>1, <1>2, <1>3 DEF LentTo, TakeSlot
<1> QED BY <1>1, <1>4, RefinementStutter DEF Tenants

\* The pool of repo_manager.go implements the abstract lease.
THEOREM PoolImplementsLease == Spec => ImplementsWorkerLease
<1>1. Init => WL!LeaseInit
  BY DEF Init, WL!LeaseInit, LentTo
<1>2. IndInv /\ [Next]_vars => [WL!LeaseNext]_(WL!leaseVars)
  <2> SUFFICES ASSUME IndInv, [Next]_vars PROVE WL!LeaseNext \/ UNCHANGED WL!leaseVars
    OBVIOUS
  <2>1. CASE UNCHANGED vars
    BY <2>1, RefinementStutter DEF vars, callVars, diskVars, Tenants, LentTo
  <2>2. CASE Crash
    <3>1. \A q \in Requests, s \in Slots : ~LentTo(q, s)'
      BY <2>2 DEF Crash, InFlight, LentTo, Terminal
    <3> QED BY <2>2, <3>1 DEF Crash, diskVars, WL!LeaseNext, WL!Restart
  <2>3. ASSUME NEW r \in Requests, Step(r) \/ ContextDone(r)
        PROVE  WL!LeaseNext \/ UNCHANGED WL!leaseVars
    <3>1. slot[r] \in Slots \/ pc[r] \notin Holding \cup {"released"}
      BY DEF IndInv, HolderHasSlot
    <3>2. CASE RestoreOk(r) \/ CreateWorkerDone(r)
      <4>1. PICK w \in Slots : slot[r] = w
        BY <3>1, <3>2 DEF RestoreOk, CreateWorkerDone, Holding
      <4>2. WL!Grant(r, w)
        BY <3>2, <4>1, RefinementGrant
      <4> QED BY <4>1, <4>2 DEF WL!LeaseNext
    <3>3. CASE RemoveWorker(r) \/ (CreateWorkerFailed(r) /\ pc[r] = "cloningWorker")
      <4>1. PICK w \in Slots : slot[r] = w
        BY <3>1, <3>3 DEF RemoveWorker, Holding
      <4>2. WL!Scrub(w)
        BY <3>3, <4>1, RefinementScrub
      <4> QED BY <4>1, <4>2 DEF WL!LeaseNext
    <3>4. CASE Use(r) \/ (Release(r) /\ pc[r] # "released")
      <4>1. PICK w \in Slots : slot[r] = w
        BY <3>1, <3>4 DEF Use, Release, Holding
      <4>2. WL!Soil(r, w) \/ WL!Return(r, w)
        BY <3>4, <4>1, RefinementTenant
      <4> QED BY <4>1, <4>2 DEF WL!LeaseNext
    <3> QED BY <2>3, <3>2, <3>3, <3>4, RefinementOther
            DEF Step, AcquireWorker, CreateWorkerFailed
  <2> QED BY <2>1, <2>2, <2>3 DEF Next, Quiescent
<1> QED BY IndInvHolds, <1>1, <1>2, PTL DEF Spec, ImplementsWorkerLease, WL!LeaseSpec

=============================================================================
