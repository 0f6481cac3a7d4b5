------------------------ MODULE ConcurrencyLockProofs ------------------------
(***************************************************************************)
(* Proofs about ConcurrencyLock, for any number of requests and locks and  *)
(* whatever of ttl, disconnect, dbError and restart may happen.  The       *)
(* inductive invariant is the typing together with KeptUnlessUndercut;     *)
(* mutual exclusion follows from it, since a document has one owner.       *)
(***************************************************************************)
EXTENDS ConcurrencyLock, TLAPS

IInv == TypeOK /\ KeptUnlessUndercut

\* One action per step of the middleware keeps the types.
LEMMA TypeInv ==
  ASSUME TypeOK, [Next]_vars PROVE TypeOK'
<1> USE NoNameAssumption DEF TypeOK, Phase, Goto, Leave, RemoveLock, KeepLock
<1>1. ASSUME NEW r \in Request, Step(r) PROVE TypeOK'
  <2>1. CASE Check(r)
    BY <2>1 DEF Check
  <2>2. CASE Insert(r)
    BY <2>2 DEF Insert
  <2>3. CASE CatchRelease(r)
    BY <2>3 DEF CatchRelease
  <2>4. CASE Answer(r)
    BY <2>4 DEF Answer
  <2>5. CASE Finish(r)
    BY <2>5 DEF Finish
  <2>6. CASE Drop(r)
    BY <2>6 DEF Drop
  <2> QED  BY <1>1, <2>1, <2>2, <2>3, <2>4, <2>5, <2>6 DEF Step
<1>2. ASSUME NEW r \in Request, Disconnect(r) PROVE TypeOK'
  BY <1>2 DEF Disconnect
<1>3. ASSUME NEW r \in Request, DbError(r) PROVE TypeOK'
  <2>1. CASE phase[r] = "checking" /\ Goto(r, "releasing")
             /\ UNCHANGED <<lockDoc, undercut>>
    BY <2>1
  <2>2. CASE /\ phase[r] = "inserting"
             /\ lockDoc' \in {lockDoc, [lockDoc EXCEPT ![name[r]] =
                                 IF Duplicate(name[r]) THEN @ ELSE r]}
             /\ Goto(r, "releasing")
             /\ UNCHANGED undercut
    <3>1. lockDoc' \in [LockName -> Request \cup {Nobody}]
      BY <2>2
    <3> QED  BY <2>2, <3>1
  <2>3. CASE KeepLock(name[r], Busy(name[r]) \ {r}) /\ Leave(r)
    BY <2>3
  <2> QED  BY <1>3, <2>1, <2>2, <2>3 DEF DbError
<1>4. ASSUME NEW r \in Request, NEW n \in LockName, Arrive(r, n) PROVE TypeOK'
  BY <1>4 DEF Arrive
<1>5. ASSUME NEW n \in LockName, Expire(n) PROVE TypeOK'
  BY <1>5 DEF Expire
<1>6. CASE Restart
  BY <1>6 DEF Restart
<1>7. CASE UNCHANGED vars
  BY <1>7 DEF vars
<1> QED  BY <1>1, <1>2, <1>3, <1>4, <1>5, <1>6, <1>7 DEF Next

\* What a step that goes on with its request leaves of the busy sets: r joins
\* those of its lock, or nothing changes.
LEMMA GotoBusy ==
  ASSUME TypeOK, NEW r \in Request, NEW p \in Phase, phase[r] # "idle", Goto(r, p)
  PROVE  \A n \in LockName :
           /\ Busy(n)' \subseteq Busy(n) \cup
                (IF p \in {"handling", "served"} /\ name[r] = n THEN {r} ELSE {})
           /\ p \in {"handling", "served"} => r \in Busy(name[r])'
BY DEF Goto, TypeOK, Busy

\* A request that ends leaves the busy set of its lock, the others stay.
LEMMA LeaveBusy ==
  ASSUME TypeOK, NEW r \in Request, Leave(r)
  PROVE  \A n \in LockName : Busy(n)' = Busy(n) \ {r}
BY NoNameAssumption DEF Leave, TypeOK, Busy

\* A lock that a request works under stays that request's, or is undercut.
LEMMA KeptInv ==
  ASSUME IInv, [Next]_vars PROVE KeptUnlessUndercut'
<1> USE DEF IInv
<1>1. ASSUME NEW r \in Request, Step(r) PROVE KeptUnlessUndercut'
  <2>1. CASE Check(r)
    <3>1. phase[r] # "idle" /\ lockDoc' = lockDoc /\ undercut' = undercut
      BY <2>1 DEF Check
    <3>2. \A n \in LockName : Busy(n)' \subseteq Busy(n)
      BY <2>1, GotoBusy DEF Check, Phase
    <3> QED  BY <3>1, <3>2 DEF KeptUnlessUndercut
  <2>2. CASE Insert(r)
    <3>1. phase[r] = "inserting" /\ undercut' = undercut /\ name[r] \in LockName
      BY <2>2 DEF Insert, TypeOK
    <3>2. CASE /\ ~Duplicate(name[r])
               /\ lockDoc' = [lockDoc EXCEPT ![name[r]] = r]
               /\ Goto(r, "handling")
      <4>1. \A n \in LockName :
              Busy(n)' \subseteq Busy(n) \cup (IF name[r] = n THEN {r} ELSE {})
        BY <3>1, <3>2, GotoBusy DEF Phase
      <4>2. ~undercut[name[r]] => Busy(name[r]) = {}
        BY <3>1, <3>2, NobodyAssumption DEF KeptUnlessUndercut, Duplicate, Busy
      <4> QED  BY <3>1, <3>2, <4>1, <4>2 DEF KeptUnlessUndercut, TypeOK
    <3>3. CASE Goto(r, "releasing") /\ UNCHANGED lockDoc
      <4>1. \A n \in LockName : Busy(n)' \subseteq Busy(n)
        BY <3>1, <3>3, GotoBusy DEF Phase
      <4> QED  BY <3>1, <3>3, <4>1 DEF KeptUnlessUndercut
    <3> QED  BY <2>2, <3>2, <3>3 DEF Insert
  <2>3. CASE CatchRelease(r)
    <3>1. /\ phase[r] = "releasing" /\ name[r] \in LockName
          /\ RemoveLock(name[r], Busy(name[r]))
      BY <2>3 DEF CatchRelease, TypeOK
    <3>2. \A n \in LockName : Busy(n)' \subseteq Busy(n)
      BY <2>3, GotoBusy DEF CatchRelease, Phase
    <3> QED  BY <3>1, <3>2 DEF KeptUnlessUndercut, RemoveLock, TypeOK
  <2>4. CASE Answer(r)
    <3>1. phase[r] = "handling" /\ lockDoc' = lockDoc /\ undercut' = undercut
      BY <2>4 DEF Answer
    <3>2. \A n \in LockName : Busy(n)' \subseteq Busy(n)
      BY <2>4, GotoBusy DEF Answer, Phase, Busy
    <3> QED  BY <3>1, <3>2 DEF KeptUnlessUndercut
  <2>5. CASE Finish(r)
    <3>1. name[r] \in LockName /\ RemoveLock(name[r], Busy(name[r]) \ {r})
      BY <2>5 DEF Finish, TypeOK
    <3>2. \A n \in LockName : Busy(n)' = Busy(n) \ {r}
      BY <2>5, LeaveBusy DEF Finish
    <3> QED  BY <3>1, <3>2 DEF KeptUnlessUndercut, RemoveLock, TypeOK
  <2>6. CASE Drop(r)
    <3>1. name[r] \in LockName /\ KeepLock(name[r], Busy(name[r]) \ {r})
      BY <2>6 DEF Drop, TypeOK
    <3>2. \A n \in LockName : Busy(n)' = Busy(n) \ {r}
      BY <2>6, LeaveBusy DEF Drop
    <3> QED  BY <3>1, <3>2 DEF KeptUnlessUndercut, KeepLock, TypeOK
  <2> QED  BY <1>1, <2>1, <2>2, <2>3, <2>4, <2>5, <2>6 DEF Step
<1>2. ASSUME NEW r \in Request, Disconnect(r) PROVE KeptUnlessUndercut'
  <2>1. lockDoc' = lockDoc /\ undercut' = undercut
        /\ \A n \in LockName : Busy(n)' = Busy(n)
    BY <1>2 DEF Disconnect, Busy
  <2> QED  BY <2>1 DEF KeptUnlessUndercut
<1>3. ASSUME NEW r \in Request, DbError(r) PROVE KeptUnlessUndercut'
  <2>1. CASE phase[r] = "checking" /\ Goto(r, "releasing")
             /\ UNCHANGED <<lockDoc, undercut>>
    <3>1. \A n \in LockName : Busy(n)' \subseteq Busy(n)
      BY <2>1, GotoBusy DEF Phase
    <3> QED  BY <2>1, <3>1 DEF KeptUnlessUndercut
  <2>2. CASE /\ phase[r] = "inserting"
             /\ lockDoc' \in {lockDoc, [lockDoc EXCEPT ![name[r]] =
                                 IF Duplicate(name[r]) THEN @ ELSE r]}
             /\ Goto(r, "releasing")
             /\ UNCHANGED undercut
    <3>1. \A n \in LockName : Busy(n)' \subseteq Busy(n)
      BY <2>2, GotoBusy DEF Phase
    <3>2. name[r] \in LockName
      BY <2>2 DEF TypeOK
    <3>3. ~Duplicate(name[r]) /\ ~undercut[name[r]] => Busy(name[r]) = {}
      BY <3>2, NobodyAssumption DEF KeptUnlessUndercut, Duplicate, Busy
    <3> QED  BY <2>2, <3>1, <3>2, <3>3 DEF KeptUnlessUndercut, TypeOK
  <2>3. CASE phase[r] # "idle" /\ KeepLock(name[r], Busy(name[r]) \ {r}) /\ Leave(r)
    <3>1. \A n \in LockName : Busy(n)' = Busy(n) \ {r}
      BY <2>3, LeaveBusy
    <3>2. name[r] \in LockName
      BY <2>3 DEF TypeOK
    <3> QED  BY <2>3, <3>1, <3>2 DEF KeptUnlessUndercut, KeepLock, TypeOK
  <2> QED  BY <1>3, <2>1, <2>2, <2>3 DEF DbError
<1>4. ASSUME NEW r \in Request, NEW n \in LockName, Arrive(r, n)
      PROVE  KeptUnlessUndercut'
  <2>1. lockDoc' = lockDoc /\ undercut' = undercut
        /\ \A m \in LockName : Busy(m)' \subseteq Busy(m)
    BY <1>4 DEF Arrive, Busy, TypeOK
  <2> QED  BY <2>1 DEF KeptUnlessUndercut
<1>5. ASSUME NEW n \in LockName, Expire(n) PROVE KeptUnlessUndercut'
  <2>1. RemoveLock(n, Busy(n)) /\ \A m \in LockName : Busy(m)' = Busy(m)
    BY <1>5 DEF Expire, Busy
  <2> QED  BY <2>1 DEF KeptUnlessUndercut, RemoveLock, TypeOK
<1>6. CASE Restart
  <2>1. \A n \in LockName : Busy(n)' = {}
    BY <1>6 DEF Restart, Busy
  <2> QED  BY <2>1 DEF KeptUnlessUndercut
<1>7. CASE UNCHANGED vars
  <2>1. lockDoc' = lockDoc /\ undercut' = undercut
        /\ \A n \in LockName : Busy(n)' = Busy(n)
    BY <1>7 DEF vars, Busy
  <2> QED  BY <2>1 DEF KeptUnlessUndercut
<1> QED  BY <1>1, <1>2, <1>3, <1>4, <1>5, <1>6, <1>7 DEF Next

\* The strengthened invariant holds throughout.
THEOREM SpecIInv == Spec => []IInv
<1>1. Init => IInv
  BY NoNameAssumption, NobodyAssumption
     DEF Init, IInv, TypeOK, KeptUnlessUndercut, Phase, Busy
<1>2. IInv /\ [Next]_vars => IInv'
  BY TypeInv, KeptInv DEF IInv
<1> QED  BY <1>1, <1>2, PTL DEF Spec

\* The middleware's state keeps its types, and a slot has a lock name exactly
\* while it has a request.
THEOREM SpecTypeOK == Spec => []TypeOK
BY SpecIInv, PTL DEF IInv

\* A request's lock stays in the collection until it is done, or was removed by
\* another request's refusal or the TTL.
THEOREM SpecKept == Spec => []KeptUnlessUndercut
BY SpecIInv, PTL DEF IInv

\* Two requests work under one lock only after it was removed from under one of
\* them: for any number of requests, whatever fails, disconnects or restarts.
THEOREM SpecExclusive == Spec => []ExclusiveUnlessUndercut
<1>1. IInv => ExclusiveUnlessUndercut
  BY DEF IInv, KeptUnlessUndercut, ExclusiveUnlessUndercut
<1> QED  BY <1>1, SpecIInv, PTL
=============================================================================
