------------------------- MODULE ModelManagerProofs -------------------------
(***************************************************************************)
(* What the explicit swaps of the model manager guarantee for any number   *)
(* of callers and models, whatever fails.  TypeInv is the lock and the     *)
(* types; IInv adds what is in memory.                                     *)
(***************************************************************************)
EXTENDS ModelManager, TLAPS

\* Past the lock, only unload_active lacks a model, and it loads nothing.
WantsModel ==
    \A c \in Callers :
        pc[c] \in {"warming", "verifying", "sent", "generating"} => want[c] \in Models

TypeInv == TypeOK /\ SwapsSerialised /\ WantsModel

\* While a load is in flight nothing accounted is in memory and nothing is
\* active; until it is verified, still nothing is active.
LoadsIntoEmpty ==
    \A c \in Callers :
        /\ pc[c] = "warming" => accounted = {}
        /\ pc[c] \in {"warming", "verifying"} => active = NoModel

IInv == TypeInv /\ LoadedIsKnown /\ LoadsIntoEmpty
-----------------------------------------------------------------------------
LEMMA RemoveAtType ==
    ASSUME NEW S, NEW s \in Seq(S), NEW i \in DOMAIN s
    PROVE  RemoveAt(s, i) \in Seq(S)
  BY DEF RemoveAt

\* Releasing the lock keeps its two variables well typed.
LEMMA ReleaseType ==
    ASSUME TypeOK, Release
    PROVE  /\ holder' \in Callers \cup {NoCaller}
           /\ waiters' \in Seq(Callers)
<1>1. CASE waiters = <<>>
  BY <1>1 DEF Release, TypeOK
<1>2. CASE waiters # <<>>
  BY <1>2 DEF Release, TypeOK
<1> QED BY <1>1, <1>2

LEMMA InitTypeInv == Init => TypeInv
  BY ConstantsAssumption DEF Init, TypeInv, TypeOK, SwapsSerialised, WantsModel, Locations, Swapping

\* No step breaks the types or lets two callers into the swap.
LEMMA TypeInvStep ==
    ASSUME TypeInv, [Next]_vars
    PROVE  TypeInv'
<1> USE ConstantsAssumption DEF Goto, Locations, Swapping, TypeOK, SwapsSerialised, WantsModel, TypeInv
<1>1. ASSUME NEW c \in Callers, NEW m \in Models \cup {NoModel}, Call(c, m)
      PROVE  TypeInv'
  BY <1>1 DEF Call
<1>2. ASSUME NEW c \in Callers, CancelWaiting(c) PROVE TypeInv'
  <2>1. CASE holder = c /\ Leave(c)
    BY <1>2, <2>1, ReleaseType DEF CancelWaiting, Leave
  <2>2. CASE /\ \E i \in DOMAIN waiters : waiters' = RemoveAt(waiters, i)
             /\ holder' = holder /\ Goto(c, "idle")
    <3>1. waiters' \in Seq(Callers)
      BY <2>2, RemoveAtType
    <3> QED BY <1>2, <2>2, <3>1 DEF CancelWaiting
  <2> QED BY <1>2, <2>1, <2>2 DEF CancelWaiting
<1>3. ASSUME NEW c \in Callers, AlreadyActive(c) PROVE TypeInv'
  BY <1>3, ReleaseType DEF AlreadyActive, HasLock, Leave, Granted
<1>4. ASSUME NEW c \in Callers, StartUnload(c) PROVE TypeInv'
  BY <1>4 DEF StartUnload, HasLock
<1>5. ASSUME NEW c \in Callers, StartLoad(c) PROVE TypeInv'
  BY <1>5, ReleaseType DEF StartLoad, HasLock, Probe, Leave
<1>6. ASSUME NEW c \in Callers, Unloaded(c) PROVE TypeInv'
  BY <1>6, ReleaseType DEF Unloaded, Evicted, Probe, Leave
<1>7. ASSUME NEW c \in Callers, UnloadFails(c) PROVE TypeInv'
  BY <1>7, ReleaseType DEF UnloadFails, Evicted, Leave
<1>8. ASSUME NEW c \in Callers, Warmed(c) PROVE TypeInv'
  BY <1>8 DEF Warmed, Loads
<1>9. ASSUME NEW c \in Callers, WarmFails(c) PROVE TypeInv'
  BY <1>9, ReleaseType DEF WarmFails, Loads, Leave
<1>10. ASSUME NEW c \in Callers, Verified(c) PROVE TypeInv'
  BY <1>10, ReleaseType DEF Verified, Granted
<1>11. ASSUME NEW c \in Callers, VerifyFails(c) PROVE TypeInv'
  BY <1>11, ReleaseType DEF VerifyFails, Leave
<1>12. ASSUME NEW c \in Callers, Request(c) PROVE TypeInv'
  BY <1>12 DEF Request, Serve, Answered, RequestFails, resident
<1>13. ASSUME NEW m \in Models, Expire(m) PROVE TypeInv'
  BY <1>13 DEF Expire
<1>14. CASE UNCHANGED vars
  BY <1>14 DEF vars
<1> QED
  BY <1>1, <1>2, <1>3, <1>4, <1>5, <1>6, <1>7, <1>8, <1>9, <1>10, <1>11, <1>12, <1>13, <1>14
     DEF Next, Swap

LEMMA TypeInvHolds == Spec => []TypeInv
  BY InitTypeInv, TypeInvStep, PTL DEF Spec

\* TypeOK: every variable of the manager keeps its type, whatever fails.
THEOREM TypeCorrect == Spec => []TypeOK
<1>1. TypeInv => TypeOK
  BY DEF TypeInv
<1> QED BY <1>1, TypeInvHolds, PTL

\* SwapsSerialised: "two coroutines can never race a load", whatever fails and
\* however waiters are cancelled.
THEOREM SwapsExclusive == Spec => []SwapsSerialised
<1>1. TypeInv => SwapsSerialised
  BY DEF TypeInv
<1> QED BY <1>1, TypeInvHolds, PTL
-----------------------------------------------------------------------------
LEMMA InitIInv == Init => IInv
  BY InitTypeInv DEF Init, IInv, LoadedIsKnown, LoadsIntoEmpty, accounted

\* What the manager saw loaded stays known to it.
LEMMA IInvStep ==
    ASSUME IInv, [Next]_vars
    PROVE  IInv'
<1>0. TypeInv'
  BY TypeInvStep DEF IInv
<1> SUFFICES LoadedIsKnown' /\ LoadsIntoEmpty'
  BY <1>0 DEF IInv
<1> USE ConstantsAssumption
    DEF IInv, TypeInv, TypeOK, SwapsSerialised, WantsModel, LoadedIsKnown, LoadsIntoEmpty, accounted,
        Goto, Locations, Swapping
<1> DEFINE Goal == LoadedIsKnown' /\ LoadsIntoEmpty'
<1>1. ASSUME NEW c \in Callers, NEW m \in Models \cup {NoModel}, Call(c, m) PROVE Goal
  BY <1>1 DEF Call
<1>2. ASSUME NEW c \in Callers, CancelWaiting(c) PROVE Goal
  BY <1>2 DEF CancelWaiting, Leave
<1>3. ASSUME NEW c \in Callers, AlreadyActive(c) PROVE Goal
  BY <1>3 DEF AlreadyActive, HasLock, Leave, Granted
<1>4. ASSUME NEW c \in Callers, StartUnload(c) PROVE Goal
  BY <1>4 DEF StartUnload, HasLock
<1>5. ASSUME NEW c \in Callers, StartLoad(c) PROVE Goal
  <2>1. \A d \in Callers : pc[d] # "verifying"
    BY <1>5 DEF StartLoad, HasLock
  <2>2. accounted = {}
    BY <1>5, <2>1 DEF StartLoad
  <2> QED BY <1>5, <2>2 DEF StartLoad, HasLock, Probe, Leave
<1>6. ASSUME NEW c \in Callers, Unloaded(c) PROVE Goal
  <2>1. \A d \in Callers : pc[d] # "verifying"
    BY <1>6 DEF Unloaded
  <2>2. accounted' = {}
    BY <1>6, <2>1 DEF Unloaded, Evicted
  <2> QED BY <1>6, <2>2 DEF Unloaded, Probe, Leave
<1>7. ASSUME NEW c \in Callers, UnloadFails(c) PROVE Goal
  BY <1>7 DEF UnloadFails, Evicted, Leave
<1>8. ASSUME NEW c \in Callers, Warmed(c) PROVE Goal
  BY <1>8 DEF Warmed, Loads
<1>9. ASSUME NEW c \in Callers, WarmFails(c) PROVE Goal
  BY <1>9 DEF WarmFails, Loads, Leave
<1>10. ASSUME NEW c \in Callers, Verified(c) PROVE Goal
  BY <1>10 DEF Verified, Granted
<1>11. ASSUME NEW c \in Callers, VerifyFails(c) PROVE Goal
  BY <1>11 DEF VerifyFails, Leave
<1>12. ASSUME NEW c \in Callers, Request(c) PROVE Goal
  BY <1>12 DEF Request, Serve, Answered, RequestFails
<1>13. ASSUME NEW m \in Models, Expire(m) PROVE Goal
  BY <1>13 DEF Expire
<1>14. CASE UNCHANGED vars
  BY <1>14 DEF vars
<1> QED
  BY <1>1, <1>2, <1>3, <1>4, <1>5, <1>6, <1>7, <1>8, <1>9, <1>10, <1>11, <1>12, <1>13, <1>14
     DEF Next, Swap

LEMMA IInvHolds == Spec => []IInv
  BY InitIInv, IInvStep, PTL DEF Spec

\* LoadedIsKnown: every model in memory through a load that was seen to succeed
\* is the one the manager calls active or the one being verified.
THEOREM LoadedModelsKnown == Spec => []LoadedIsKnown
<1>1. IInv => LoadedIsKnown
  BY DEF IInv
<1> QED BY <1>1, IInvHolds, PTL

\* A step of the manager is a step of the one-model slot, or leaves it alone.
LEMMA SlotStep ==
    ASSUME IInv, [Next]_vars
    PROVE  [Slot!Next]_accounted
<1>1. \A m, n \in accounted : m = n
  BY ConstantsAssumption
     DEF IInv, TypeInv, LoadedIsKnown, LoadsIntoEmpty, SwapsSerialised, Swapping, TypeOK, accounted
<1> USE DEF Slot!Next, Slot!Load, Slot!Free
<1>2. ASSUME accounted' \subseteq accounted PROVE [Slot!Next]_accounted
  BY <1>1, <1>2
<1>3. ASSUME NEW c \in Callers, Warmed(c) PROVE [Slot!Next]_accounted
  <2>1. accounted = {} /\ want[c] \in Models
    BY <1>3 DEF Warmed, IInv, TypeInv, WantsModel, LoadsIntoEmpty
  <2>2. accounted' = {want[c]}
    BY <1>3, <2>1 DEF Warmed, Loads, accounted
  <2> QED BY <2>1, <2>2
<1>4. ASSUME NEW c \in Callers, Swap(c), ~Warmed(c) PROVE [Slot!Next]_accounted
  BY <1>2, <1>4
     DEF accounted, Swap, AlreadyActive, StartUnload, StartLoad, Unloaded, UnloadFails, Evicted,
         WarmFails, Loads, Verified, VerifyFails
<1>5. ASSUME NEW c \in Callers, Request(c) PROVE [Slot!Next]_accounted
  BY <1>2, <1>5 DEF accounted, Request, Serve, Answered, RequestFails
<1>6. ASSUME ~ \E c \in Callers : Swap(c) \/ Request(c) PROVE [Slot!Next]_accounted
  BY <1>2, <1>6 DEF accounted, Next, vars, Call, CancelWaiting, Expire
<1> QED BY <1>3, <1>4, <1>5, <1>6

\* SlotSpec: the explicit swaps implement the one-model slot: a load never
\* finds in memory a model whose own load was seen to succeed.
THEOREM ImplementsSlot == Spec => SlotSpec
<1>1. Init => Slot!Init
  BY DEF Init, Slot!Init, accounted
<1> QED BY <1>1, SlotStep, IInvHolds, PTL DEF Spec, SlotSpec, Slot!Spec
=============================================================================
