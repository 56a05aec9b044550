------------------------ MODULE GenerationLock_proofs ------------------------
(***************************************************************************)
(* Proofs about the generation lock, for any number of requests and        *)
(* sessions. The inductive invariant is IInv of GenerationLock: types, the *)
(* stored token of every holder that has not lapsed, and no orphan.        *)
(***************************************************************************)
EXTENDS GenerationLock, TLAPS

(***************************************************************************)
(* The compare-and-delete script leaves the key as it was or removes it,   *)
(* and it removes it only for the token that is stored.                    *)
(***************************************************************************)
LEMMA ReleasedCases ==
  ASSUME NEW s \in Sessions, NEW r \in Requests
  PROVE  \/ lock[s] = r /\ Released(s, r) = Free
         \/ lock[s] # r /\ Released(s, r) = lock[s]
  BY DEF Released

(***************************************************************************)
(* The inductive invariant holds when every key is absent and nobody has   *)
(* asked for one.                                                          *)
(***************************************************************************)
LEMMA InitIInv == Init => IInv
  BY DEF Init, IInv, TypeOK, Stages, HolderIsStored, NoOrphanLock

(***************************************************************************)
(* Every step of a request or of the TTL clock preserves the types.        *)
(***************************************************************************)
LEMMA StepTypeOK == TypeOK /\ [Next]_vars => TypeOK'
<1> SUFFICES ASSUME TypeOK, [Next]_vars PROVE TypeOK'
  OBVIOUS
<1> USE DEF TypeOK, Stages
<1>1. ASSUME NEW r \in Requests, Acquire(r) PROVE TypeOK'
  BY <1>1 DEF Acquire
<1>2. ASSUME NEW r \in Requests, Refuse(r) PROVE TypeOK'
  BY <1>2 DEF Refuse
<1>3. ASSUME NEW r \in Requests, End(r) PROVE TypeOK'
  <2>1. session[r] \in Sessions
    OBVIOUS
  <2>2. Released(session[r], r) \in Requests \cup {Free}
    BY <2>1 DEF Released
  <2> QED BY <1>3, <2>2 DEF End
<1>4. ASSUME NEW r \in Requests, Lose(r) PROVE TypeOK'
  BY <1>4 DEF Lose
<1>5. ASSUME NEW s \in Sessions, Lapse(s) PROVE TypeOK'
  BY <1>5 DEF Lapse
<1>6. CASE UNCHANGED vars
  BY <1>6 DEF vars
<1> QED BY <1>1, <1>2, <1>3, <1>4, <1>5, <1>6 DEF Next

(***************************************************************************)
(* A holder that has not lapsed keeps its token in Redis: the only steps   *)
(* that change a key that is present are its own release and its expiry.   *)
(***************************************************************************)
LEMMA StepHolder == IInv /\ [Next]_vars => HolderIsStored'
<1> SUFFICES ASSUME IInv, [Next]_vars,
                    NEW q \in Requests, stage'[q] = "generating", q \notin lapsed'
             PROVE  lock'[session'[q]] = q
  BY DEF HolderIsStored
<1> USE DEF IInv, TypeOK, HolderIsStored
<1>0. session[q] \in Sessions
  OBVIOUS
<1>1. ASSUME NEW r \in Requests, Acquire(r) PROVE lock'[session'[q]] = q
  <2>1. CASE r = q
    BY <1>1, <2>1 DEF Acquire
  <2>2. CASE r # q
    <3>1. stage[q] = "generating" /\ q \notin lapsed
      BY <1>1, <2>2 DEF Acquire
    <3>2. lock[session[q]] = q
      BY <3>1
    <3>3. session[q] # session[r]
      BY <1>1, <3>2, FreeIsNoToken DEF Acquire
    <3> QED BY <1>1, <3>2, <3>3 DEF Acquire
  <2> QED BY <2>1, <2>2
<1>2. ASSUME NEW r \in Requests, Refuse(r) PROVE lock'[session'[q]] = q
  BY <1>2 DEF Refuse
<1>3. ASSUME NEW r \in Requests, End(r) PROVE lock'[session'[q]] = q
  <2>1. r # q /\ stage[q] = "generating" /\ q \notin lapsed
    BY <1>3 DEF End
  <2>2. lock[session[q]] = q
    BY <2>1
  <2>3. Released(session[q], r) = q
    BY <2>1, <2>2 DEF Released
  <2> QED BY <1>0, <1>3, <2>2, <2>3 DEF End
<1>4. ASSUME NEW r \in Requests, Lose(r) PROVE lock'[session'[q]] = q
  BY <1>4 DEF Lose
<1>5. ASSUME NEW s \in Sessions, Lapse(s) PROVE lock'[session'[q]] = q
  <2>1. lock[session[q]] = q
    BY <1>5 DEF Lapse
  <2>2. s # session[q]
    BY <1>5, <2>1 DEF Lapse
  <2> QED BY <1>5, <2>1, <2>2 DEF Lapse
<1>6. CASE UNCHANGED vars
  BY <1>6 DEF vars
<1> QED BY <1>1, <1>2, <1>3, <1>4, <1>5, <1>6 DEF Next

(***************************************************************************)
(* No step leaves a stored token behind a request that has ended.          *)
(***************************************************************************)
LEMMA StepOrphan == IInv /\ [Next]_vars => NoOrphanLock'
<1> SUFFICES ASSUME IInv, [Next]_vars, NEW t \in Sessions, lock'[t] # Free
             PROVE  /\ session'[lock'[t]] = t
                    /\ stage'[lock'[t]] \in {"generating", "lost"}
  BY DEF NoOrphanLock
<1> DEFINE Owned == /\ session'[lock'[t]] = t
                    /\ stage'[lock'[t]] \in {"generating", "lost"}
<1> USE DEF IInv, TypeOK, NoOrphanLock
<1>1. ASSUME NEW r \in Requests, Acquire(r) PROVE Owned
  <2>1. CASE t = session[r]
    BY <1>1, <2>1 DEF Acquire
  <2>2. CASE t # session[r]
    BY <1>1, <2>2 DEF Acquire
  <2> QED BY <2>1, <2>2
<1>2. ASSUME NEW r \in Requests, Refuse(r) PROVE Owned
  BY <1>2 DEF Refuse
<1>3. ASSUME NEW r \in Requests, End(r) PROVE Owned
  <2>1. lock'[t] = lock[t] /\ lock[t] # r
    <3>1. CASE t = session[r]
      BY <1>3, <3>1, ReleasedCases, FreeIsNoToken DEF End
    <3>2. CASE t # session[r]
      <4>1. lock'[t] = lock[t]
        BY <1>3, <3>2 DEF End
      <4>2. session[lock[t]] = t
        BY <4>1
      <4> QED BY <3>2, <4>1, <4>2
    <3> QED BY <3>1, <3>2
  <2> QED BY <1>3, <2>1 DEF End
<1>4. ASSUME NEW r \in Requests, Lose(r) PROVE Owned
  BY <1>4 DEF Lose
<1>5. ASSUME NEW s \in Sessions, Lapse(s) PROVE Owned
  BY <1>5 DEF Lapse
<1>6. CASE UNCHANGED vars
  BY <1>6 DEF vars
<1> QED BY <1>1, <1>2, <1>3, <1>4, <1>5, <1>6 DEF Next

(***************************************************************************)
(* The inductive invariant holds in every reachable state.                 *)
(***************************************************************************)
THEOREM Inductive == Spec => []IInv
<1>1. IInv /\ [Next]_vars => IInv'
  <2>1. IInv => TypeOK
    BY DEF IInv
  <2> QED BY <2>1, StepTypeOK, StepHolder, StepOrphan DEF IInv
<1> QED BY InitIInv, <1>1, PTL DEF Spec

(***************************************************************************)
(* The variables of the lock keep their types.                             *)
(***************************************************************************)
THEOREM TypeCorrect == Spec => []TypeOK
<1>1. IInv => TypeOK
  BY DEF IInv
<1> QED BY <1>1, Inductive, PTL

(***************************************************************************)
(* Whoever generates and has not outlived its lock has its token stored:   *)
(* a release that comes late compares, and frees nobody else's lock.       *)
(***************************************************************************)
THEOREM HolderIsStoredHolds == Spec => []HolderIsStored
<1>1. IInv => HolderIsStored
  BY DEF IInv
<1> QED BY <1>1, Inductive, PTL

(***************************************************************************)
(* At most one run per session among the requests whose lock has not       *)
(* lapsed: both would have to be the one token stored under its key.       *)
(***************************************************************************)
THEOREM SingleFlightHolds == Spec => []SingleFlight
<1>1. IInv => SingleFlight
  BY DEF IInv, HolderIsStored, SingleFlight
<1> QED BY <1>1, Inductive, PTL

(***************************************************************************)
(* A stored token always belongs to a request that generates or is lost:   *)
(* the end of a stream never leaves its session locked.                    *)
(***************************************************************************)
THEOREM NoOrphanLockHolds == Spec => []NoOrphanLock
<1>1. IInv => NoOrphanLock
  BY DEF IInv
<1> QED BY <1>1, Inductive, PTL
=============================================================================
