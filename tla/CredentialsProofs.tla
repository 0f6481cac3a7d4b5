-------------------------- MODULE CredentialsProofs --------------------------
(***************************************************************************)
(* What holds of Credentials for every set of users, every size of the     *)
(* bitmaps and every number of credentials.                                *)
(*                                                                         *)
(* SpecTypeOK, SpecListedAreOwn and SpecRevocationIsExact hold whatever    *)
(* else happens beside the locked routes.  SpecRevocationHolds and         *)
(* SpecImplementsRegistry say what the credential lock achieves as long as *)
(* nothing publishes or issues without it, SpecListIsCurrent what it       *)
(* achieves for the users' lists as long as nothing writes them without it.*)
(* SpecPurgeRevokes is about the revocations of a DELETE, which take no    *)
(* lock and fork the identity document.                                    *)
(***************************************************************************)
EXTENDS Credentials, FiniteSetTheorems, WellFoundedInduction, TLAPS

\* The steps of a revocation.
Revoking == {"getDoc", "publish", "markRevoked", "getOwner", "removeVC"}

\* The stored credentials of a user.
Own(u) == {i \in Stored : stored[i].subject = u}

\* What a task relies on between two of its steps.
Fits(t) ==
  /\ step[t] \in {"getUser", "addVC"} => index[t] \in Own(subject[t])
  /\ step[t] \in {"addVC", "put"} => seenList[t] \subseteq Own(subject[t])
  /\ step[t] \in Revoking => index[t] \in Stored
  /\ step[t] = "removeVC" => seenList[t] \subseteq Own(stored[index[t]].subject)

\* A list holds its user's credentials only.
Lists == \A u \in User : list[u] \subseteq Own(u)

Tasks == \A t \in Task : Fits(t)

-----------------------------------------------------------------------------
(* Numbers: bitmaps and positions.                                         *)

\* The bitmap of a credential is a number, its position fits into a bitmap.
LEMMA PlaceType ==
  ASSUME NEW i \in Nat
  PROVE  i \div Size \in Nat /\ i % Size \in 0 .. Size - 1
BY SizeAssumption

\* The next credential of this instance has a bitmap of this instance.
LEMMA BitmapType ==
  ASSUME NEW i \in 0 .. MaxIndex + 1
  PROVE  i \div Size \in BitmapIds
<1>1. i \div Size \in Nat
  BY PlaceType, SizeAssumption
<1>2. i \div Size <= MaxIndex \div Size + 1
  BY SizeAssumption
<1>3. MaxIndex \div Size \in Nat
  BY PlaceType, SizeAssumption
<1> QED
  BY <1>1, <1>2, <1>3 DEF BitmapIds

\* Two credentials never share a position.
LEMMA PlaceInjective ==
  ASSUME NEW i \in Nat, NEW j \in Nat, Place(i) = Place(j)
  PROVE  i = j
<1>1. i \div Size = j \div Size /\ i % Size = j % Size
  BY DEF Place
<1> QED
  BY <1>1, SizeAssumption

\* A set of indexes has a greatest one (Max of FiniteSetsExt is a CHOOSE).
LEMMA MaxIsMember ==
  ASSUME NEW S \in SUBSET Index, S # {}
  PROVE  Max(S) \in S
<1> DEFINE T == {MaxIndex - x : x \in S}
<1>1. T \subseteq Nat /\ T # {}
  BY SizeAssumption DEF Index
<1>2. \E x \in T : \A y \in T : ~(<<y, x>> \in OpToRel(<, Nat))
  BY <1>1, NatLessThanWellFounded, WFMin
<1>3. \A x, y \in T : <<y, x>> \in OpToRel(<, Nat) <=> y < x
  BY <1>1 DEF OpToRel
<1>4. PICK x \in T : \A y \in T : ~(y < x)
  BY <1>2, <1>3
<1>5. PICK m \in S : x = MaxIndex - m
  BY <1>4
<1>6. \A y \in S : m >= y
  BY <1>4, <1>5, SizeAssumption DEF Index
<1> QED
  BY <1>6 DEF Max

\* getNextCredentialIndex gives at most one more than the last index.
LEMMA NextIndexType == NextIndex \in 0 .. MaxIndex + 1
<1>1. CASE Stored = {}
  BY <1>1, SizeAssumption DEF NextIndex
<1>2. CASE Stored # {}
  <2>1. Max(Stored) \in Index
    BY <1>2, MaxIsMember DEF Stored
  <2> QED
    BY <1>2, <2>1, SizeAssumption DEF NextIndex, Index
<1> QED
  BY <1>1, <1>2

\* The tasks of the model are different from each other.
LEMMA TaskType ==
  /\ Route \in Task /\ Tool \in Task /\ Setup \in Task /\ Client \in Task
  /\ Route # Tool /\ Route # Setup /\ Route # Client
  /\ Tool # Setup /\ Tool # Client /\ Setup # Client
  /\ Index \subseteq Task /\ Route \notin Index /\ Index \subseteq Nat
BY SizeAssumption DEF Task, Index, Route, Tool, Setup, Client

-----------------------------------------------------------------------------
(* Types.                                                                  *)

\* A credential is a record, so it is not NoVc.
LEMMA VcType ==
  /\ NoVc \notin Vc
  /\ \A v \in Vc : v.subject \in User /\ v.isRevoked \in BOOLEAN
                   /\ v.status \in BitmapIds \X (0 .. Size - 1)
<1>1. MaxIndex \div Size \in Nat
  BY PlaceType, SizeAssumption
<1>2. BitmapIds \subseteq Nat /\ 0 .. Size - 1 \subseteq Nat
  BY <1>1, SizeAssumption DEF BitmapIds
<1>3. Vc \subseteq [subject : User, isRevoked : BOOLEAN, status : Nat \X Nat]
  BY <1>2 DEF Vc
<1> QED
  BY <1>3, NoVcAssumption DEF Vc

\* What the new document of IssueStore is.
LEMMA NewCredentialType ==
  ASSUME TypeOK, NEW t \in Task
  PROVE  NewCredential(t) \in Vc
<1>1. index[t] \in Nat /\ bitmap[t] \in BitmapIds /\ subject[t] \in User
  BY TaskType DEF TypeOK
<1>2. index[t] % Size \in 0 .. Size - 1
  BY <1>1, PlaceType
<1> QED
  BY <1>1, <1>2 DEF NewCredential, Vc

\* Finish gives every local variable of the task its first value.
LEMMA FinishType ==
  ASSUME TypeOK, NEW t \in Task, Finish(t)
  PROVE  /\ step' \in [Task -> Step]
         /\ index' \in [Task -> Index] /\ subject' \in [Task -> User]
         /\ bitmap' \in [Task -> BitmapIds]
         /\ seen' \in [Task -> Doc] /\ current' \in [Task -> BOOLEAN]
         /\ seenList' \in [Task -> SUBSET Index]
<1>1. 0 \in Index /\ 0 \in BitmapIds
  BY SizeAssumption, PlaceType DEF Index, BitmapIds
<1>2. AnyUser \in User
  BY UserAssumption DEF AnyUser
<1>3. NoDoc \in Doc
  BY DEF NoDoc, Doc
<1> QED
  BY <1>1, <1>2, <1>3 DEF TypeOK, Finish, Step

\* A document that is read or published is a document.
LEMMA PublishType ==
  ASSUME TypeOK, NEW t \in Task, NEW s \in SUBSET BitmapIds,
         NEW r \in SUBSET (BitmapIds \X (0 .. Size - 1)), Publish(t, s, r)
  PROVE  /\ [services |-> services, revoked |-> revoked]' \in Doc
         /\ current' \in [Task -> BOOLEAN]
BY DEF TypeOK, Publish, Doc

\* The document a task read has these parts.
LEMMA SeenType ==
  ASSUME TypeOK, NEW t \in Task
  PROVE  /\ seen[t].services \in SUBSET BitmapIds
         /\ seen[t].revoked \in SUBSET (BitmapIds \X (0 .. Size - 1))
BY DEF TypeOK, Doc

\* The first state has the types.
LEMMA TypeInit == Init => TypeOK
<1> SUFFICES ASSUME Init PROVE TypeOK
  OBVIOUS
<1>1. 0 \in Index /\ 0 \in BitmapIds
  BY SizeAssumption, PlaceType DEF Index, BitmapIds
<1>2. AnyUser \in User
  BY UserAssumption DEF AnyUser
<1>3. NoDoc \in Doc /\ [services |-> services, revoked |-> revoked] \in Doc
  BY <1>1 DEF NoDoc, Doc, Init
<1> QED
  BY <1>1, <1>2, <1>3, ServerAssumption DEF TypeOK, Init, Step

\* Every step of a task keeps the types.
LEMMA TaskStepType ==
  ASSUME TypeOK, Tasks, NEW t \in Task, TaskStep(t)
  PROVE  TypeOK'
<1>1. CASE IssueIndex(t)
  BY <1>1 DEF IssueIndex, TypeOK, Goto, Step, tangle, userDocs, history
<1>2. CASE IssueStore(t)
  <2>1. NewCredential(t) \in Vc
    BY NewCredentialType
  <2>2. CASE Finish(t) /\ UNCHANGED stored
    BY <1>2, <2>2, FinishType DEF IssueStore, TypeOK, userDocs, history
  <2>3. CASE ~(Finish(t) /\ UNCHANGED stored)
    BY <1>2, <2>1, <2>3 DEF IssueStore, TypeOK, Goto, Step, userDocs, history, locals
  <2> QED
    BY <2>2, <2>3
<1>3. CASE IssueGetUser(t)
  <2>1. CASE Finish(t)
    BY <1>3, <2>1, FinishType DEF IssueGetUser, TypeOK, userDocs, history
  <2>2. CASE ~Finish(t)
    BY <1>3, <2>2 DEF IssueGetUser, TypeOK, Goto, Step, userDocs, history
  <2> QED
    BY <2>1, <2>2
<1>4. CASE IssueAddVC(t)
  <2>1. list' \in [User -> SUBSET Index] /\ users' \in [User -> {"none", "user", "ghost"}]
    BY <1>4 DEF IssueAddVC, TypeOK
  <2> QED
    BY <1>4, <2>1, FinishType DEF IssueAddVC, TypeOK, history
<1>5. CASE RevokeGetDoc(t)
  BY <1>5 DEF RevokeGetDoc, ReadDocument, TypeOK, Goto, Step, userDocs, history
<1>6. CASE RevokePublish(t)
  <2>1. CASE Place(index[t])[1] \notin seen[t].services
    BY <1>6, <2>1, FinishType DEF RevokePublish, TypeOK, userDocs, history
  <2>2. CASE Place(index[t])[1] \in seen[t].services
    <3>1. /\ Place(index[t])[1] \in seen[t].services
          /\ Publish(t, seen[t].services, seen[t].revoked \cup {Place(index[t])})
          /\ Goto(t, "markRevoked")
          /\ UNCHANGED locals
          /\ UNCHANGED <<stored, saved, userDocs, roots, due, check, history>>
      BY <1>6, <2>2 DEF RevokePublish
    <3>2. Place(index[t]) \in BitmapIds \X (0 .. Size - 1)
      <4>1. index[t] \in Nat
        BY TaskType DEF TypeOK
      <4> QED
        BY <3>1, <4>1, SeenType, PlaceType DEF Place
    <3>3. /\ [services |-> services, revoked |-> revoked]' \in Doc
          /\ current' \in [Task -> BOOLEAN]
      BY <3>1, <3>2, SeenType, PublishType
    <3> QED
      BY <3>1, <3>3 DEF TypeOK, Goto, Step, userDocs, history, locals
  <2> QED
    BY <2>1, <2>2
<1>7. CASE RevokeMark(t)
  <2>1. index[t] \in Stored
    BY <1>7 DEF RevokeMark, Tasks, Fits, At, Revoking
  <2>2. stored[index[t]] \in Vc
    BY <2>1 DEF Stored, TypeOK
  <2>3. [stored[index[t]] EXCEPT !.isRevoked = TRUE] \in Vc
    BY <2>2 DEF Vc
  <2>4. stored' \in [Index -> Vc \cup {NoVc}]
    BY <1>7, <2>3 DEF RevokeMark, TypeOK
  <2> QED
    BY <1>7, <2>4 DEF RevokeMark, TypeOK, Goto, Step, tangle, userDocs, history, locals
<1>8. CASE RevokeGetUser(t)
  <2>1. CASE Finish(t)
    BY <1>8, <2>1, FinishType DEF RevokeGetUser, TypeOK, userDocs, history
  <2>2. CASE ~Finish(t)
    <3>1. index[t] \in Stored
      BY <1>8 DEF RevokeGetUser, Tasks, Fits, At, Revoking
    <3>2. stored[index[t]].subject \in User
      BY <3>1, VcType DEF Stored, TypeOK
    <3> QED
      BY <1>8, <2>2, <3>2 DEF RevokeGetUser, TypeOK, Goto, Step, userDocs, history
  <2> QED
    BY <2>1, <2>2
<1>9. CASE RevokeRemoveVC(t)
  <2>1. list' \in [User -> SUBSET Index] /\ answered' \subseteq Index
    BY <1>9 DEF RevokeRemoveVC, TypeOK
  <2> QED
    BY <1>9, <2>1, FinishType DEF RevokeRemoveVC, TypeOK
<1> QED
  BY <1>1, <1>2, <1>3, <1>4, <1>5, <1>6, <1>7, <1>8, <1>9 DEF TaskStep

\* So does every other step.
LEMMA OtherStepType ==
  ASSUME TypeOK, Next, ~(\E t \in Task : TaskStep(t))
  PROVE  TypeOK'
<1>1. ASSUME NEW t \in Task, Fail(t) PROVE TypeOK'
  BY <1>1, FinishType DEF Fail, TypeOK, userDocs, history
<1>2. ASSUME NEW t \in Task, NEW u \in User, IssueStart(t, u) PROVE TypeOK'
  <2>1. NextIndex \div Size \in BitmapIds
    BY NextIndexType, BitmapType
  <2> QED
    BY <1>2, <2>1 DEF IssueStart, TypeOK, Goto, Step, tangle, userDocs, history
<1>3. ASSUME NEW i \in Index, RevokeStart(i) PROVE TypeOK'
  BY <1>3, TaskType DEF RevokeStart, TypeOK, Goto, Step, tangle, userDocs
<1>4. ASSUME NEW i \in Index, CheckDocument(i) PROVE TypeOK'
  <2>1. IsValid(i) \in BOOLEAN /\ (i \in answered) \in BOOLEAN
    BY DEF IsValid
  <2>2. check' \in [at : {"idle", "roots", "true", "false", "error"}, of : Index,
                    valid : BOOLEAN, known : BOOLEAN]
    BY <1>4, <2>1 DEF CheckDocument
  <2> QED
    BY <1>4, <2>2 DEF CheckDocument, TypeOK, tangle, userDocs, locals, history
<1>5. ASSUME NEW u \in User, AddUser(u) PROVE TypeOK'
  BY <1>5 DEF AddUser, TypeOK, tangle, locals, history
<1>6. ASSUME NEW u \in User, PutRead(u) PROVE TypeOK'
  BY <1>6, TaskType DEF PutRead, TypeOK, Goto, Step, tangle, userDocs, history
<1>7. ASSUME NEW u \in User, DeleteUser(u) PROVE TypeOK'
  <2>1. due[u] \in SUBSET Index
    BY <1>7 DEF DeleteUser, TypeOK
  <2> QED
    BY <1>7, <2>1 DEF DeleteUser, TypeOK, tangle, locals
<1>8. ASSUME NEW u \in User, NEW todo \in SUBSET Stored, DeleteStart(u, todo) PROVE TypeOK'
  <2>1. todo \in SUBSET Index
    BY DEF Stored
  <2>2. step' \in [Task -> Step] /\ index' \in [Task -> Index]
    BY <1>8, <2>1 DEF DeleteStart, TypeOK, Step
  <2> QED
    BY <1>8, <2>1, <2>2 DEF DeleteStart, TypeOK, tangle, userDocs
<1>9. CASE PutWrite
  <2>1. list' \in [User -> SUBSET Index]
    BY <1>9, TaskType DEF PutWrite, TypeOK
  <2> QED
    BY <1>9, <2>1, TaskType, FinishType DEF PutWrite, TypeOK, history
<1>10. CASE SetupStart
  <2>1. NextIndex \div Size \in BitmapIds
    BY NextIndexType, BitmapType
  <2> QED
    BY <1>10, <2>1, TaskType
    DEF SetupStart, ReadDocument, TypeOK, Goto, Step, userDocs, history
<1>11. CASE SetupPublish
  <2>1. bitmap[Setup] \in BitmapIds
    BY TaskType DEF TypeOK
  <2>2. /\ [services |-> services, revoked |-> revoked]' \in Doc
        /\ current' \in [Task -> BOOLEAN]
    BY <1>11, <2>1, TaskType, SeenType, PublishType DEF SetupPublish
  <2> QED
    BY <1>11, <2>2, TaskType DEF SetupPublish, TypeOK, Goto, Step, userDocs, history, locals
<1>12. CASE SetupSave
  <2>1. bitmap[Setup] \in BitmapIds
    BY TaskType DEF TypeOK
  <2> QED
    BY <1>12, <2>1, TaskType, FinishType DEF SetupSave, TypeOK, userDocs, history
<1>13. CASE CheckRoots
  BY <1>13 DEF CheckRoots, TypeOK, tangle, userDocs, locals, history
<1>14. ASSUME NEW r \in Root, AddRoot(r) \/ RemoveRoot(r) PROVE TypeOK'
  BY <1>14 DEF AddRoot, RemoveRoot, TypeOK, tangle, userDocs, locals, history
<1> QED
  BY <1>1, <1>2, <1>3, <1>4, <1>5, <1>6, <1>7, <1>8, <1>9, <1>10, <1>11, <1>12, <1>13,
     <1>14 DEF Next

-----------------------------------------------------------------------------
(* The lists of the users.                                                 *)

\* A step keeps every stored credential, and its subject.
Kept == \A i \in Stored : i \in Stored' /\ stored'[i].subject = stored[i].subject

\* A step leaves a task as it is.
Same(t) ==
  /\ step'[t] = step[t] /\ index'[t] = index[t]
  /\ subject'[t] = subject[t] /\ seenList'[t] = seenList[t]

\* No step takes a credential away or gives it to another user.
LEMMA NextKept ==
  ASSUME TypeOK, Tasks, Next
  PROVE  Kept
<1>1. CASE UNCHANGED stored
  BY <1>1 DEF Kept, Stored
<1>2. ASSUME NEW t \in Task, IssueStore(t) PROVE Kept
  <2>1. NewCredential(t) \in Vc
    BY NewCredentialType
  <2> QED
    BY <1>2, <2>1, VcType DEF IssueStore, Kept, Stored, TypeOK
<1>3. ASSUME NEW t \in Task, RevokeMark(t) PROVE Kept
  <2>1. index[t] \in Stored
    BY <1>3 DEF RevokeMark, Tasks, Fits, At, Revoking
  <2>2. stored[index[t]] \in Vc
    BY <2>1 DEF Stored, TypeOK
  <2>3. DEFINE v == [stored[index[t]] EXCEPT !.isRevoked = TRUE]
  <2>4. v \in Vc /\ v.subject = stored[index[t]].subject
    BY <2>2 DEF Vc
  <2>5. stored' = [stored EXCEPT ![index[t]] = v]
    BY <1>3 DEF RevokeMark
  <2> HIDE DEF v
  <2> QED
    BY <2>1, <2>4, <2>5, VcType DEF Kept, Stored, TypeOK
<1>4. (\E t \in Task : IssueStore(t) \/ RevokeMark(t)) \/ UNCHANGED stored
  BY DEF Next, TaskStep, Fail, IssueStart, IssueIndex, IssueGetUser, IssueAddVC,
         RevokeStart, RevokeGetDoc, RevokePublish, RevokeGetUser, RevokeRemoveVC,
         AddUser, PutRead, PutWrite, DeleteStart, DeleteUser, SetupStart, SetupPublish,
         SetupSave, AddRoot, RemoveRoot, CheckDocument, CheckRoots
<1> QED
  BY <1>1, <1>2, <1>3, <1>4

\* What a user owned it still owns.
LEMMA OwnKept ==
  ASSUME Kept, NEW u \in User
  PROVE  Own(u) \subseteq Own(u)'
BY DEF Kept, Own

\* A task that is left alone can go on.
LEMMA FitsKept ==
  ASSUME TypeOK, Kept, NEW t \in Task, Fits(t), Same(t)
  PROVE  Fits(t)'
<1>1. subject[t] \in User /\ Own(subject[t]) \subseteq Own(subject[t])'
  BY OwnKept DEF TypeOK, Kept, Own, Same
<1>2. ASSUME step[t] \in Revoking
      PROVE  /\ index[t] \in Stored'
             /\ stored'[index[t]].subject = stored[index[t]].subject
  BY <1>2 DEF Fits, Kept
<1>3. ASSUME step[t] = "removeVC"
      PROVE  seenList'[t] \subseteq Own(stored[index[t]].subject)'
  <2>1. index[t] \in Stored /\ stored'[index[t]].subject = stored[index[t]].subject
    BY <1>2, <1>3 DEF Fits, Kept, Revoking
  <2>2. PICK w : w = stored[index[t]].subject
    OBVIOUS
  <2>3. seenList[t] \subseteq Own(w) /\ Own(w) \subseteq Own(w)'
    BY <1>3, <2>2 DEF Fits, Own, Kept
  <2>4. stored'[index'[t]].subject = w /\ seenList'[t] = seenList[t]
    BY <2>1, <2>2 DEF Same
  <2> QED
    BY <2>3, <2>4 DEF Own
<1>4. step'[t] = "removeVC" => seenList'[t] \subseteq Own(stored[index[t]].subject)'
  BY <1>3 DEF Same
<1>5. step'[t] \in Revoking => index'[t] \in Stored'
  BY <1>2 DEF Same
<1>6. step'[t] \in {"getUser", "addVC"} => index'[t] \in Own(subject[t])'
  BY <1>1 DEF Same, Fits
<1>7. step'[t] \in {"addVC", "put"} => seenList'[t] \subseteq Own(subject[t])'
  BY <1>1 DEF Same, Fits
<1> QED
  BY <1>4, <1>5, <1>6, <1>7 DEF Fits

\* A task that ended relies on nothing, and leaves the others alone.
LEMMA FinishFits ==
  ASSUME TypeOK, NEW t \in Task, Finish(t)
  PROVE  Fits(t)' /\ \A s \in Task \ {t} : Same(s)
<1>1. step'[t] = "idle" /\ \A s \in Task \ {t} : Same(s)
  BY DEF Finish, TypeOK, Same
<1> QED
  BY <1>1 DEF Fits, Revoking

\* A task that takes a step leaves the others alone.
LEMMA OthersSame ==
  ASSUME TypeOK, NEW t \in Task,
         \/ TaskStep(t)
         \/ Fail(t)
         \/ \E u \in User : IssueStart(t, u)
  PROVE  \A s \in Task \ {t} : Same(s)
<1>1. CASE Finish(t)
  BY <1>1, FinishFits
<1>2. CASE ~Finish(t)
  BY <1>2 DEF TaskStep, Fail, IssueStart, IssueIndex, IssueStore, IssueGetUser, IssueAddVC,
         RevokeGetDoc, RevokePublish, RevokeMark, RevokeGetUser, RevokeRemoveVC, Goto,
         Same, TypeOK, locals
<1> QED
  BY <1>1, <1>2

\* Lists that nobody writes stay right.
LEMMA ListsKept ==
  ASSUME Lists, Kept, UNCHANGED list
  PROVE  Lists'
BY OwnKept DEF Lists

\* Every step of a task leaves it with what its next step relies on.
LEMMA TaskStepFits ==
  ASSUME TypeOK, Tasks, Lists, Kept, NEW t \in Task, TaskStep(t)
  PROVE  Fits(t)' /\ Lists'
<1>0. Fits(t)
  BY DEF Tasks
<1>1. CASE IssueIndex(t)
  <2>1. step'[t] = "store"
    BY <1>1 DEF IssueIndex, Goto, TypeOK
  <2> QED
    BY <1>1, <2>1, ListsKept DEF IssueIndex, Fits, Revoking, userDocs
<1>2. CASE IssueStore(t)
  <2>1. CASE Finish(t)
    BY <1>2, <2>1, FinishFits, ListsKept DEF IssueStore, userDocs
  <2>2. CASE ~Finish(t)
    <3>1. NewCredential(t) \in Vc /\ NewCredential(t).subject = subject[t]
      BY NewCredentialType DEF NewCredential
    <3>2. /\ step'[t] = "getUser" /\ index'[t] = index[t] /\ subject'[t] = subject[t]
          /\ stored'[index[t]] = NewCredential(t) /\ index[t] \in Index
      BY <1>2, <2>2 DEF IssueStore, Goto, TypeOK, locals
    <3>3. index'[t] \in Own(subject[t])'
      BY <3>1, <3>2, VcType DEF Own, Stored
    <3> QED
      BY <1>2, <3>2, <3>3, ListsKept DEF IssueStore, Fits, Revoking, userDocs
  <2> QED
    BY <2>1, <2>2
<1>3. CASE IssueGetUser(t)
  <2>1. CASE Finish(t)
    BY <1>3, <2>1, FinishFits, ListsKept DEF IssueGetUser, userDocs
  <2>2. CASE ~Finish(t)
    <3>1. /\ step'[t] = "addVC" /\ index'[t] = index[t] /\ subject'[t] = subject[t]
          /\ seenList'[t] = list[subject[t]] /\ subject[t] \in User
      BY <1>3, <2>2 DEF IssueGetUser, Goto, TypeOK
    <3>2. index[t] \in Own(subject[t]) /\ list[subject[t]] \subseteq Own(subject[t])
      BY <1>0, <1>3, <3>1 DEF IssueGetUser, At, Fits, Lists
    <3>3. Own(subject[t]) \subseteq Own(subject[t])'
      BY <3>1 DEF Own, Kept
    <3> QED
      BY <1>3, <3>1, <3>2, <3>3, ListsKept DEF IssueGetUser, Fits, Revoking, userDocs
  <2> QED
    BY <2>1, <2>2
<1>4. CASE IssueAddVC(t)
  <2>1. PICK u \in User : u = subject[t]
    BY DEF TypeOK
  <2>2. seenList[t] \cup {index[t]} \subseteq Own(u)
    BY <1>0, <1>4, <2>1 DEF IssueAddVC, At, Fits
  <2>3. list' = [list EXCEPT ![u] = seenList[t] \cup {index[t]}]
    BY <1>4, <2>1 DEF IssueAddVC
  <2>4. Lists'
    BY <2>2, <2>3, OwnKept DEF Lists, TypeOK
  <2> QED
    BY <1>4, <2>4, FinishFits DEF IssueAddVC
<1>5. CASE RevokeGetDoc(t)
  <2>1. step'[t] = "publish" /\ index'[t] = index[t]
    BY <1>5 DEF RevokeGetDoc, Goto, TypeOK
  <2>2. index[t] \in Stored
    BY <1>0, <1>5 DEF RevokeGetDoc, At, Fits, Revoking
  <2> QED
    BY <1>5, <2>1, <2>2, ListsKept DEF RevokeGetDoc, Fits, Revoking, Kept, userDocs
<1>6. CASE RevokePublish(t)
  <2>1. CASE Finish(t)
    BY <1>6, <2>1, FinishFits, ListsKept DEF RevokePublish, userDocs
  <2>2. CASE ~Finish(t)
    <3>1. step'[t] = "markRevoked" /\ index'[t] = index[t]
      BY <1>6, <2>2 DEF RevokePublish, Goto, TypeOK, locals
    <3>2. index[t] \in Stored
      BY <1>0, <1>6 DEF RevokePublish, At, Fits, Revoking
    <3> QED
      BY <1>6, <3>1, <3>2, ListsKept DEF RevokePublish, Fits, Revoking, Kept, userDocs
  <2> QED
    BY <2>1, <2>2
<1>7. CASE RevokeMark(t)
  <2>1. step'[t] = "getOwner" /\ index'[t] = index[t]
    BY <1>7 DEF RevokeMark, Goto, TypeOK, locals
  <2>2. index[t] \in Stored
    BY <1>0, <1>7 DEF RevokeMark, At, Fits, Revoking
  <2> QED
    BY <1>7, <2>1, <2>2, ListsKept DEF RevokeMark, Fits, Revoking, Kept, userDocs
<1>8. CASE RevokeGetUser(t)
  <2>1. CASE Finish(t)
    BY <1>8, <2>1, FinishFits, ListsKept DEF RevokeGetUser, userDocs
  <2>2. CASE ~Finish(t)
    <3>1. index[t] \in Stored
      BY <1>0, <1>8 DEF RevokeGetUser, At, Fits, Revoking
    <3>2. PICK u \in User : u = stored[index[t]].subject
      BY <3>1, VcType DEF Stored, TypeOK
    <3>3. /\ step'[t] = "removeVC" /\ index'[t] = index[t] /\ seenList'[t] = list[u]
          /\ stored' = stored
      BY <1>8, <2>2, <3>2 DEF RevokeGetUser, Goto, TypeOK
    <3>4. list[u] \subseteq Own(u) /\ Own(u)' = Own(u)
      BY <3>3 DEF Lists, Own, Stored
    <3>5. seenList'[t] \subseteq Own(stored[index[t]].subject)'
      BY <3>2, <3>3, <3>4 DEF Own
    <3> QED
      BY <1>8, <3>1, <3>3, <3>5, ListsKept DEF RevokeGetUser, Fits, Revoking, Kept, userDocs
  <2> QED
    BY <2>1, <2>2
<1>9. CASE RevokeRemoveVC(t)
  <2>1. index[t] \in Stored
    BY <1>0, <1>9 DEF RevokeRemoveVC, At, Fits, Revoking
  <2>2. PICK u \in User : u = stored[index[t]].subject
    BY <2>1, VcType DEF Stored, TypeOK
  <2>3. seenList[t] \subseteq Own(u)
    BY <1>0, <1>9, <2>2 DEF RevokeRemoveVC, At, Fits
  <2>4. list' = [list EXCEPT ![u] = seenList[t] \ {index[t]}] \/ UNCHANGED list
    BY <1>9, <2>2 DEF RevokeRemoveVC
  <2>5. Lists'
    BY <2>3, <2>4, OwnKept, ListsKept DEF Lists, TypeOK
  <2> QED
    BY <1>9, <2>5, FinishFits DEF RevokeRemoveVC
<1> QED
  BY <1>1, <1>2, <1>3, <1>4, <1>5, <1>6, <1>7, <1>8, <1>9 DEF TaskStep

\* The other steps keep the lists right, and every task able to go on.
LEMMA OtherStepFits ==
  ASSUME TypeOK, Tasks, Lists, Kept, Next, ~(\E t \in Task : TaskStep(t))
  PROVE  Tasks' /\ Lists'
<1> DEFINE Left(t) == \A s \in Task \ {t} : Same(s)
<1>0. ASSUME NEW t \in Task, Left(t), Fits(t)' PROVE Tasks'
  BY <1>0, FitsKept DEF Tasks
<1>a. ASSUME \A t \in Task : Same(t) PROVE Tasks'
  BY <1>a, FitsKept DEF Tasks
<1>b. ASSUME NEW t \in Task, step'[t] \notin {"getUser", "addVC", "put"} \cup Revoking
      PROVE  Fits(t)'
  BY <1>b DEF Fits, Revoking
<1>1. ASSUME NEW t \in Task, Fail(t) PROVE Tasks' /\ Lists'
  BY <1>0, <1>1, FinishFits, ListsKept DEF Fail, userDocs
<1>2. ASSUME NEW t \in Task, NEW u \in User, IssueStart(t, u) PROVE Tasks' /\ Lists'
  <2>1. Left(t)
    BY <1>2, OthersSame
  <2>2. step'[t] = "index"
    BY <1>2 DEF IssueStart, Goto, TypeOK
  <2>3. Fits(t)'
    BY <2>2, <1>b DEF Revoking
  <2> QED
    BY <1>0, <1>2, <2>1, <2>3, ListsKept DEF IssueStart, userDocs
<1>3. ASSUME NEW i \in Index, RevokeStart(i) PROVE Tasks' /\ Lists'
  <2>1. Left(Route) /\ step'[Route] = "getDoc" /\ index'[Route] = i /\ i \in Stored
    BY <1>3, TaskType DEF RevokeStart, Goto, TypeOK, Same
  <2>2. Fits(Route)'
    BY <2>1 DEF Fits, Revoking, Kept
  <2> QED
    BY <1>0, <1>3, <2>1, <2>2, TaskType, ListsKept DEF RevokeStart, userDocs
<1>4. ASSUME NEW i \in Index, CheckDocument(i) PROVE Tasks' /\ Lists'
  BY <1>4, <1>a, ListsKept DEF CheckDocument, Same, locals, userDocs
<1>5. ASSUME NEW u \in User, AddUser(u) PROVE Tasks' /\ Lists'
  BY <1>5, <1>a, ListsKept DEF AddUser, Same, locals
<1>6. ASSUME NEW u \in User, PutRead(u) PROVE Tasks' /\ Lists'
  <2>1. /\ Left(Client) /\ step'[Client] = "put" /\ subject'[Client] = u
        /\ seenList'[Client] = list[u]
    BY <1>6, TaskType DEF PutRead, Goto, TypeOK, Same
  <2>2. list[u] \subseteq Own(u) /\ Own(u) \subseteq Own(u)'
    BY OwnKept DEF Lists
  <2>3. Fits(Client)'
    BY <2>1, <2>2 DEF Fits, Revoking, Own
  <2> QED
    BY <1>0, <1>6, <2>1, <2>3, TaskType, ListsKept DEF PutRead, userDocs
<1>7. ASSUME NEW u \in User, DeleteUser(u) PROVE Tasks' /\ Lists'
  <2>1. Tasks'
    BY <1>7, <1>a DEF DeleteUser, Same, locals
  <2>2. list' = [list EXCEPT ![u] = {}]
    BY <1>7 DEF DeleteUser
  <2>3. Lists'
    BY <2>2, OwnKept DEF Lists, TypeOK
  <2> QED
    BY <2>1, <2>3
<1>8. ASSUME NEW u \in User, NEW todo \in SUBSET Stored, DeleteStart(u, todo)
      PROVE  Tasks' /\ Lists'
  <2>1. ASSUME NEW t \in Task PROVE Fits(t)'
    <3>1. CASE t \in todo
      <4>1. step'[t] = "getDoc" /\ index'[t] = t /\ t \in Stored'
        BY <1>8, <3>1 DEF DeleteStart, Kept
      <4> QED
        BY <4>1 DEF Fits, Revoking
    <3>2. CASE t \notin todo
      <4>1. Same(t)
        BY <1>8, <3>2 DEF DeleteStart, Same
      <4> QED
        BY <4>1, FitsKept DEF Tasks
    <3> QED
      BY <3>1, <3>2
  <2> QED
    BY <1>8, <2>1, ListsKept DEF DeleteStart, userDocs, Tasks
<1>9. CASE PutWrite
  <2>1. Tasks'
    BY <1>0, <1>9, FinishFits, TaskType DEF PutWrite
  <2>2. PICK u \in User : u = subject[Client]
    BY TaskType DEF TypeOK
  <2>3. seenList[Client] \subseteq Own(u)
    BY <1>9, <2>2, TaskType DEF PutWrite, At, Fits, Tasks
  <2>4. list' = [list EXCEPT ![u] = seenList[Client]] \/ UNCHANGED list
    BY <1>9, <2>2 DEF PutWrite
  <2>5. Lists'
    BY <2>3, <2>4, OwnKept, ListsKept DEF Lists, TypeOK
  <2> QED
    BY <2>1, <2>5
<1>10. CASE SetupStart
  <2>1. Left(Setup) /\ step'[Setup] = "insertService"
    BY <1>10, TaskType DEF SetupStart, ReadDocument, Goto, TypeOK, Same
  <2> QED
    BY <1>0, <1>b, <1>10, <2>1, TaskType, ListsKept DEF SetupStart, Revoking, userDocs
<1>11. CASE SetupPublish
  <2>1. Left(Setup) /\ step'[Setup] = "saveBitmap"
    BY <1>11, TaskType DEF SetupPublish, Goto, TypeOK, Same, locals
  <2> QED
    BY <1>0, <1>b, <1>11, <2>1, TaskType, ListsKept DEF SetupPublish, Revoking, userDocs
<1>12. CASE SetupSave
  BY <1>0, <1>12, FinishFits, TaskType, ListsKept DEF SetupSave, userDocs
<1>13. CASE CheckRoots
  BY <1>13, <1>a, ListsKept DEF CheckRoots, Same, locals, userDocs
<1>14. ASSUME NEW r \in Root, AddRoot(r) \/ RemoveRoot(r) PROVE Tasks' /\ Lists'
  BY <1>14, <1>a, ListsKept DEF AddRoot, RemoveRoot, Same, locals, userDocs
<1> QED
  BY <1>1, <1>2, <1>3, <1>4, <1>5, <1>6, <1>7, <1>8, <1>9, <1>10, <1>11, <1>12, <1>13,
     <1>14 DEF Next

\* The inductive invariant of SpecTypeOK and SpecListedAreOwn.
Going == TypeOK /\ Tasks /\ Lists

\* It holds in the first state.
LEMMA GoingInit == Init => Going
<1> SUFFICES ASSUME Init PROVE Going
  OBVIOUS
<1>1. Tasks /\ Lists
  BY DEF Init, Tasks, Fits, Lists, Revoking
<1> QED
  BY <1>1, TypeInit DEF Going

\* A step that changes nothing keeps the invariant.
LEMMA GoingStutter == Going /\ UNCHANGED vars => Going'
BY DEF Going, TypeOK, Tasks, Fits, Lists, Own, Stored, vars, tangle, userDocs, locals, history

\* Every step keeps the types, the lists, and each task able to go on.
LEMMA GoingStep == Going /\ [Next]_vars => Going'
<1> SUFFICES ASSUME Going, Next PROVE Going'
  BY GoingStutter
<1>1. Kept
  BY NextKept DEF Going
<1>2. CASE \E t \in Task : TaskStep(t)
  <2>1. PICK t \in Task : TaskStep(t)
    BY <1>2
  <2>2. TypeOK' /\ Fits(t)' /\ Lists'
    BY <1>1, <2>1, TaskStepType, TaskStepFits DEF Going
  <2>3. \A s \in Task \ {t} : Fits(s)'
    BY <1>1, <2>1, OthersSame, FitsKept DEF Going, Tasks
  <2> QED
    BY <2>2, <2>3 DEF Going, Tasks
<1>3. CASE ~(\E t \in Task : TaskStep(t))
  BY <1>1, <1>3, OtherStepType, OtherStepFits DEF Going
<1> QED
  BY <1>2, <1>3

\* So it holds always.
LEMMA SpecGoing == Spec => []Going
BY GoingInit, GoingStep, PTL DEF Spec

\* Every variable has its type, whatever is interleaved.
THEOREM SpecTypeOK == Spec => []TypeOK
<1>1. Going => TypeOK
  BY DEF Going
<1> QED
  BY <1>1, SpecGoing, PTL

\* A user's list never holds a credential of another user, nor one that was
\* not stored, although addUserVC, removeUserVC, updateUser and deleteUser
\* write what they read before, with or without a lock.
THEOREM SpecListedAreOwn == Spec => []ListedAreOwn
<1>1. Going => ListedAreOwn
  BY DEF Going, Lists, Own, ListedAreOwn
<1> QED
  BY <1>1, SpecGoing, PTL

-----------------------------------------------------------------------------
(* Every position that is set was asked for.                               *)

\* The positions of the credentials whose revocation was asked for.
Places == {Place(i) : i \in asked}

\* So are the positions in the documents that tasks read, and the credentials
\* that tasks revoke.
Wanted ==
  /\ revoked \subseteq Places
  /\ \A t \in Task : seen[t].revoked \subseteq Places
  /\ \A t \in Task : step[t] \in Revoking => index[t] \in asked

\* Where the revoked positions of a step come from.
Source ==
  \/ revoked' = revoked
  \/ \E t \in Task : revoked' = seen[t].revoked
  \/ \E t \in Task : /\ step[t] = "publish"
                     /\ revoked' = seen[t].revoked \cup {Place(index[t])}

\* The same of the document that a task holds.
SeenSource(t) ==
  \/ seen'[t] = seen[t]
  \/ seen'[t] = NoDoc
  \/ seen'[t].revoked = revoked

\* Requests are not forgotten.
LEMMA AskedKept ==
  ASSUME Next
  PROVE  asked \subseteq asked'
BY DEF Next, TaskStep, Fail, IssueStart, IssueIndex, IssueStore, IssueGetUser, IssueAddVC,
       RevokeStart, RevokeGetDoc, RevokePublish, RevokeMark, RevokeGetUser, RevokeRemoveVC,
       AddUser, PutRead, PutWrite, DeleteStart, DeleteUser, SetupStart, SetupPublish,
       SetupSave, AddRoot, RemoveRoot, CheckDocument, CheckRoots, history

\* Only two steps publish a document.
LEMMA NextSource ==
  ASSUME Next
  PROVE  Source
<1>1. ASSUME NEW t \in Task, RevokePublish(t) PROVE Source
  BY <1>1 DEF RevokePublish, Publish, Source, At
<1>2. CASE SetupPublish
  BY <1>2, TaskType DEF SetupPublish, Publish, Source
<1>3. UNCHANGED revoked \/ SetupPublish \/ \E t \in Task : RevokePublish(t)
  BY DEF Next, TaskStep, Fail, IssueStart, IssueIndex, IssueStore, IssueGetUser, IssueAddVC,
         RevokeStart, RevokeGetDoc, RevokeMark, RevokeGetUser, RevokeRemoveVC,
         AddUser, PutRead, PutWrite, DeleteStart, DeleteUser, SetupStart,
         SetupSave, AddRoot, RemoveRoot, CheckDocument, CheckRoots, tangle
<1> QED
  BY <1>1, <1>2, <1>3 DEF Source

\* A task reads the latest document, or none.
LEMMA NextSeen ==
  ASSUME TypeOK, Next, NEW s \in Task
  PROVE  SeenSource(s)
<1>1. ASSUME NEW t \in Task, Finish(t) PROVE SeenSource(s)
  BY <1>1 DEF Finish, TypeOK, SeenSource
<1>2. ASSUME NEW t \in Task, ReadDocument(t) PROVE SeenSource(s)
  BY <1>2 DEF ReadDocument, TypeOK, SeenSource
<1>3. \/ UNCHANGED seen
      \/ \E t \in Task : Finish(t) \/ ReadDocument(t)
  BY TaskType DEF Next, TaskStep, Fail, IssueStart, IssueIndex, IssueStore, IssueGetUser,
         IssueAddVC, RevokeStart, RevokeGetDoc, RevokePublish, RevokeMark, RevokeGetUser,
         RevokeRemoveVC, AddUser, PutRead, PutWrite, DeleteStart, DeleteUser, SetupStart,
         SetupPublish, SetupSave, AddRoot, RemoveRoot, CheckDocument, CheckRoots, locals
<1> QED
  BY <1>1, <1>2, <1>3 DEF SeenSource

\* A task that revokes goes on with its credential, or was just asked to.
LEMMA NextRevoking ==
  ASSUME TypeOK, Next, NEW s \in Task, step'[s] \in Revoking
  PROVE  \/ step[s] \in Revoking /\ index'[s] = index[s]
         \/ index'[s] \in asked'
<1>1. ASSUME NEW t \in Task, Finish(t) PROVE step[s] \in Revoking /\ index'[s] = index[s]
  BY <1>1 DEF Finish, TypeOK, Revoking
<1>2. CASE \A t \in Task : ~Finish(t)
  <2>1. ASSUME NEW t \in Task, TaskStep(t)
        PROVE  step[s] \in Revoking /\ index'[s] = index[s]
    BY <1>2, <2>1 DEF TaskStep, IssueIndex, IssueStore, IssueGetUser, IssueAddVC,
         RevokeGetDoc, RevokePublish, RevokeMark, RevokeGetUser, RevokeRemoveVC,
         Goto, At, TypeOK, Revoking, locals
  <2>2. ASSUME NEW i \in Index, RevokeStart(i)
        PROVE  (step[s] \in Revoking /\ index'[s] = index[s]) \/ index'[s] \in asked'
    BY <2>2, TaskType DEF RevokeStart, Goto, TypeOK
  <2>3. ASSUME NEW u \in User, NEW todo \in SUBSET Stored, DeleteStart(u, todo)
        PROVE  (step[s] \in Revoking /\ index'[s] = index[s]) \/ index'[s] \in asked'
    BY <2>3 DEF DeleteStart, TypeOK
  <2>4. \/ \E t \in Task : TaskStep(t)
        \/ \E i \in Index : RevokeStart(i)
        \/ \E u \in User : \E todo \in SUBSET Stored : DeleteStart(u, todo)
        \/ step[s] \in Revoking /\ index'[s] = index[s]
    BY <1>2, TaskType DEF Next, Fail, IssueStart, AddUser, PutRead, PutWrite, DeleteUser,
         SetupStart, SetupPublish, SetupSave, AddRoot, RemoveRoot, CheckDocument,
         CheckRoots, Goto, TypeOK, Revoking, locals
  <2> QED
    BY <2>1, <2>2, <2>3, <2>4
<1> QED
  BY <1>1, <1>2

\* Every step sets only positions that were asked for, in the latest document
\* and in the ones that tasks hold.
LEMMA WantedStep ==
  ASSUME Going, Wanted, Next
  PROVE  Wanted'
<1>0. TypeOK /\ asked \subseteq asked' /\ Places \subseteq Places'
  BY AskedKept DEF Going, Places
<1>1. revoked' \subseteq Places'
  <2>1. ASSUME NEW t \in Task, step[t] = "publish"
        PROVE  seen[t].revoked \cup {Place(index[t])} \subseteq Places
    BY <2>1 DEF Wanted, Places, Revoking
  <2> QED
    BY <1>0, <2>1, NextSource DEF Source, Wanted
<1>2. ASSUME NEW t \in Task PROVE seen'[t].revoked \subseteq Places'
  BY <1>0, NextSeen DEF SeenSource, Wanted, NoDoc
<1>3. ASSUME NEW t \in Task, step'[t] \in Revoking PROVE index'[t] \in asked'
  BY <1>0, <1>3, NextRevoking DEF Wanted
<1> QED
  BY <1>1, <1>2, <1>3 DEF Wanted

\* So no other position is ever set.
LEMMA SpecWanted == Spec => [](Going /\ Wanted)
<1>1. Init => Wanted
  BY DEF Init, Wanted, Places, NoDoc, Revoking
<1>2. Going /\ Wanted /\ [Next]_vars => Wanted'
  <2>1. Going /\ Wanted /\ UNCHANGED vars => Wanted'
    BY DEF Wanted, Places, vars, tangle, locals, history
  <2> QED
    BY <2>1, WantedStep
<1> QED
  BY <1>1, <1>2, GoingInit, GoingStep, PTL DEF Spec

\* Whatever is interleaved, forked or fails, no credential loses its validity
\* because of another: revokeCredentials sets only positions of credentials
\* whose revocation was asked for.
THEOREM SpecRevocationIsExact == Spec => []RevocationIsExact
<1>1. Wanted => RevocationIsExact
  BY DEF Wanted, Places, RevocationIsExact
<1> QED
  BY <1>1, SpecWanted, PTL

-----------------------------------------------------------------------------
(* Under the lock: nothing but the locked routes publishes the document or *)
(* issues credentials.  The tool, setup-api and DELETEs with revocations   *)
(* are left out; failures, clients that PUT users, DELETEs of users, roots *)
(* and checks are not.                                                     *)

OnlyLocked == Event \cap {"tool", "setup", "purge"} = {}

\* No task but the locked one is under way, except for a client's PUT.
Alone == \A t \in Task : step[t] # "idle" => t = Route \/ (t = Client /\ step[t] = "put")

\* What the locked task relies on: the document that it is about to change
\* is the latest one, the bitmap and the position of its credential come from
\* the same index, and what it is about to mark is revoked on the Tangle.
Held ==
  /\ step[Route] = "publish" =>
       /\ current[Route]
       /\ seen[Route].services = services
       /\ seen[Route].revoked = revoked
  /\ step[Route] = "index" => bitmap[Route] = NextIndex \div Size
  /\ step[Route] = "store" => bitmap[Route] = index[Route] \div Size
  /\ step[Route] \in {"markRevoked", "getOwner", "removeVC"} => Place(index[Route]) \in revoked

\* What is marked or answered is revoked on the Tangle.
Settled ==
  /\ \A i \in Stored : /\ stored[i].status = Place(i)
                       /\ stored[i].isRevoked => Place(i) \in revoked
  /\ \A i \in answered : Place(i) \in revoked

\* A check that found a credential valid did not know of its revocation.
Checked ==
  /\ check.valid => ~check.known
  /\ check.at = "true" => check.valid

Exclusive == Alone /\ Held /\ Settled /\ Checked

\* The locked task, the documents and the answers are left as they are.
RouteSame ==
  /\ UNCHANGED <<services, revoked, stored, answered>>
  /\ step'[Route] = step[Route] /\ index'[Route] = index[Route]
  /\ bitmap'[Route] = bitmap[Route] /\ seen'[Route] = seen[Route]
  /\ current'[Route] = current[Route]

\* The steps of the locked task.
RouteStep ==
  \/ TaskStep(Route)
  \/ Fail(Route)
  \/ \E u \in User : IssueStart(Route, u)
  \/ \E i \in Index : RevokeStart(i)

\* The steps of the others.
BesideStep ==
  \/ Fail(Client) \/ PutWrite \/ CheckRoots
  \/ \E i \in Index : CheckDocument(i)
  \/ \E u \in User : AddUser(u) \/ PutRead(u) \/ DeleteUser(u) \/ DeleteStart(u, {})
  \/ \E r \in Root : AddRoot(r) \/ RemoveRoot(r)

\* What can happen then: a step of the locked task, or one that publishes and
\* issues nothing.
LEMMA LockedNext ==
  ASSUME OnlyLocked, Alone, Next
  PROVE  RouteStep \/ BesideStep
<1>1. ASSUME NEW t \in Task, TaskStep(t) \/ Fail(t) PROVE RouteStep \/ BesideStep
  <2>1. step[t] # "idle"
    BY <1>1 DEF TaskStep, Fail, At, IssueIndex, IssueStore, IssueGetUser, IssueAddVC,
                RevokeGetDoc, RevokePublish, RevokeMark, RevokeGetUser, RevokeRemoveVC
  <2>2. step[t] = "put" => ~TaskStep(t)
    BY DEF TaskStep, At, IssueIndex, IssueStore, IssueGetUser, IssueAddVC,
           RevokeGetDoc, RevokePublish, RevokeMark, RevokeGetUser, RevokeRemoveVC
  <2> QED
    BY <1>1, <2>1, <2>2 DEF Alone, RouteStep, BesideStep
<1>2. ASSUME NEW t \in Task, NEW u \in User, IssueStart(t, u) PROVE RouteStep
  BY <1>2 DEF IssueStart, OnlyLocked, RouteStep
<1>3. ASSUME NEW u \in User, NEW todo \in SUBSET Stored, DeleteStart(u, todo)
      PROVE  BesideStep
  <2>1. todo = {}
    BY <1>3 DEF DeleteStart, OnlyLocked
  <2> QED
    BY <1>3, <2>1 DEF BesideStep
<1>4. ~SetupStart
  BY DEF SetupStart, OnlyLocked
<1>5. ~SetupPublish /\ ~SetupSave
  BY TaskType DEF SetupPublish, SetupSave, At, Alone
<1> QED
  BY <1>1, <1>2, <1>3, <1>4, <1>5 DEF Next, RouteStep, BesideStep

\* The others leave the locked task alone, and each other's place.
LEMMA BesideSame ==
  ASSUME TypeOK, Alone, BesideStep
  PROVE  RouteSame /\ Alone'
<1>1. CASE Fail(Client) \/ PutWrite
  <2>1. Finish(Client) /\ UNCHANGED <<services, revoked, stored, answered>>
    BY <1>1 DEF Fail, PutWrite, history
  <2> QED
    BY <2>1, TaskType DEF Finish, TypeOK, RouteSame, Alone
<1>2. ASSUME NEW u \in User, PutRead(u) PROVE RouteSame /\ Alone'
  BY <1>2, TaskType DEF PutRead, Goto, TypeOK, RouteSame, Alone, tangle, history
<1>3. ASSUME NEW u \in User, DeleteStart(u, {}) PROVE RouteSame /\ Alone'
  BY <1>3, TaskType DEF DeleteStart, TypeOK, RouteSame, Alone, tangle
<1>4. CASE \/ CheckRoots \/ \E i \in Index : CheckDocument(i)
           \/ \E u \in User : AddUser(u) \/ DeleteUser(u)
           \/ \E r \in Root : AddRoot(r) \/ RemoveRoot(r)
  BY <1>4 DEF CheckRoots, CheckDocument, AddUser, DeleteUser, AddRoot, RemoveRoot,
              RouteSame, Alone, tangle, locals, history
<1> QED
  BY <1>1, <1>2, <1>3, <1>4 DEF BesideStep

\* What is settled stays so while no credential is written.
LEMMA SettledKept ==
  ASSUME Settled, UNCHANGED stored, revoked \subseteq revoked',
         \A i \in answered' : i \in answered \/ Place(i) \in revoked
  PROVE  Settled'
BY DEF Settled, Stored

\* A step beside the locked task disturbs nothing that it relies on.
LEMMA SameExclusive ==
  ASSUME Held, Settled, RouteSame
  PROVE  Held' /\ Settled'
<1>1. Settled'
  BY SettledKept DEF RouteSame
<1> QED
  BY <1>1 DEF Held, RouteSame, Stored, NextIndex

\* A check believes a credential only if it is not revoked in the document.
LEMMA CheckedStep ==
  ASSUME TypeOK, Settled, Checked, Next
  PROVE  Checked'
<1>1. ASSUME NEW i \in Index, CheckDocument(i) PROVE Checked'
  <2>1. /\ i \in Stored
        /\ check' = [at |-> "roots", of |-> i, valid |-> IsValid(i), known |-> i \in answered]
    BY <1>1 DEF CheckDocument
  <2>2. check'.at = "roots" /\ check'.valid = IsValid(i) /\ check'.known = (i \in answered)
    BY <2>1
  <2>3. IsValid(i) => i \notin answered
    BY <2>1 DEF IsValid, Settled
  <2>4. check'.valid => ~check'.known
    BY <2>2, <2>3, Zenon
  <2> QED
    BY <2>2, <2>4 DEF Checked
<1>2. CASE CheckRoots
  <2>1. PICK a : /\ check' = [check EXCEPT !.at = a]
                 /\ a = "true" => check.valid
    <3>1. CASE roots = {}
      <4>1. check' = [check EXCEPT !.at = "error"]
        BY <1>2, <3>1 DEF CheckRoots
      <4> QED
        BY <4>1
    <3>2. CASE roots # {} /\ check.valid /\ Server \in roots
      <4>1. check' = [check EXCEPT !.at = "true"]
        BY <1>2, <3>2 DEF CheckRoots
      <4> QED
        BY <3>2, <4>1
    <3>3. CASE roots # {} /\ ~(check.valid /\ Server \in roots)
      <4>1. check' = [check EXCEPT !.at = "false"]
        BY <1>2, <3>3 DEF CheckRoots
      <4> QED
        BY <4>1
    <3> QED
      BY <3>1, <3>2, <3>3
  <2>2. check'.at = a /\ check'.valid = check.valid /\ check'.known = check.known
    BY <2>1 DEF TypeOK
  <2> QED
    BY <2>1, <2>2, Zenon DEF Checked
<1>3. UNCHANGED check \/ CheckRoots \/ \E i \in Index : CheckDocument(i)
  BY DEF Next, TaskStep, Fail, IssueStart, IssueIndex, IssueStore, IssueGetUser, IssueAddVC,
         RevokeStart, RevokeGetDoc, RevokePublish, RevokeMark, RevokeGetUser,
         RevokeRemoveVC, AddUser, PutRead, PutWrite, DeleteStart, DeleteUser, SetupStart,
         SetupPublish, SetupSave, AddRoot, RemoveRoot
<1> QED
  BY <1>1, <1>2, <1>3, Zenon DEF Checked

\* A task that ended has settled what it answered.
LEMMA FinishHeld ==
  ASSUME TypeOK, Settled, Finish(Route), UNCHANGED <<revoked, stored>>,
         \A i \in answered' : i \in answered \/ Place(i) \in revoked
  PROVE  Held' /\ Settled'
<1>1. step'[Route] = "idle"
  BY TaskType DEF Finish, TypeOK
<1> QED
  BY <1>1, SettledKept DEF Held

\* The steps of an issue: nothing but the credential is written.
LEMMA IssueSettled ==
  ASSUME TypeOK, Held, Settled,
         IssueIndex(Route) \/ IssueStore(Route) \/ IssueGetUser(Route) \/ IssueAddVC(Route)
  PROVE  Held' /\ Settled'
<1>0. Route \in Task /\ index[Route] \in Index
  BY TaskType DEF TypeOK
<1>1. CASE IssueIndex(Route)
  <2>1. /\ step[Route] = "index" /\ step'[Route] = "store"
        /\ index'[Route] = NextIndex /\ bitmap'[Route] = bitmap[Route]
        /\ UNCHANGED <<services, revoked, stored, answered>>
    BY <1>0, <1>1 DEF IssueIndex, At, Goto, TypeOK, tangle, history
  <2>2. bitmap'[Route] = index'[Route] \div Size
    BY <2>1 DEF Held
  <2>3. Held'
    BY <2>1, <2>2, Zenon DEF Held
  <2> QED
    BY <2>1, <2>3, SettledKept
<1>2. CASE IssueStore(Route)
  <2>1. CASE stored[index[Route]] # NoVc
    BY <1>2, <2>1, FinishHeld DEF IssueStore, history
  <2>2. CASE stored[index[Route]] = NoVc
    <3>1. /\ step[Route] = "store" /\ step'[Route] = "getUser"
          /\ stored' = [stored EXCEPT ![index[Route]] = NewCredential(Route)]
          /\ UNCHANGED <<services, revoked, answered>>
      BY <1>0, <1>2, <2>2 DEF IssueStore, At, Goto, TypeOK, history
    <3>2. NewCredential(Route).status = Place(index[Route]) /\ ~NewCredential(Route).isRevoked
      BY <3>1 DEF NewCredential, Place, Held
    <3>3. \A i \in Stored' : \/ i = index[Route] /\ stored'[i] = NewCredential(Route)
                             \/ i \in Stored /\ stored'[i] = stored[i]
      BY <1>0, <3>1 DEF Stored, TypeOK
    <3>4. Settled'
      BY <3>1, <3>2, <3>3 DEF Settled
    <3>5. Held'
      BY <3>1 DEF Held
    <3> QED
      BY <3>4, <3>5
  <2> QED
    BY <2>1, <2>2
<1>3. CASE IssueGetUser(Route)
  <2>1. CASE Finish(Route)
    BY <1>3, <2>1, FinishHeld DEF IssueGetUser, history
  <2>2. CASE ~Finish(Route)
    <3>1. step'[Route] = "addVC" /\ UNCHANGED <<services, revoked, stored, answered>>
      BY <1>0, <1>3, <2>2 DEF IssueGetUser, Goto, TypeOK, history
    <3>2. Held'
      BY <3>1 DEF Held
    <3> QED
      BY <3>1, <3>2, SettledKept
  <2> QED
    BY <2>1, <2>2
<1>4. CASE IssueAddVC(Route)
  BY <1>4, FinishHeld DEF IssueAddVC, history
<1> QED
  BY <1>1, <1>2, <1>3, <1>4

\* The steps of a revocation: the latest document with one more position is
\* published before the database and the list are written.
LEMMA RevokeSettled ==
  ASSUME TypeOK, Tasks, Held, Settled,
         \/ RevokeGetDoc(Route) \/ RevokePublish(Route) \/ RevokeMark(Route)
         \/ RevokeGetUser(Route) \/ RevokeRemoveVC(Route)
  PROVE  Held' /\ Settled'
<1>0. Route \in Task /\ index[Route] \in Index
  BY TaskType DEF TypeOK
<1>1. CASE RevokeGetDoc(Route)
  <2>1. /\ step'[Route] = "publish" /\ current'[Route] = TRUE
        /\ seen'[Route] = [services |-> services, revoked |-> revoked]
        /\ UNCHANGED <<services, revoked, stored, answered>>
    BY <1>0, <1>1 DEF RevokeGetDoc, ReadDocument, Goto, TypeOK, history
  <2>2. seen'[Route].services = services' /\ seen'[Route].revoked = revoked'
    BY <2>1
  <2>3. Held'
    BY <2>1, <2>2 DEF Held
  <2> QED
    BY <2>1, <2>3, SettledKept
<1>2. CASE RevokePublish(Route)
  <2>1. CASE Place(index[Route])[1] \notin seen[Route].services
    BY <1>2, <2>1, FinishHeld DEF RevokePublish, history
  <2>2. CASE Place(index[Route])[1] \in seen[Route].services
    <3>1. step[Route] = "publish"
      BY <1>2 DEF RevokePublish, At
    <3>2. /\ Publish(Route, seen[Route].services, seen[Route].revoked \cup {Place(index[Route])})
          /\ step'[Route] = "markRevoked" /\ index'[Route] = index[Route]
          /\ UNCHANGED <<stored, answered>>
      BY <1>0, <1>2, <2>2 DEF RevokePublish, Goto, TypeOK, locals, history
    <3>3. revoked' = revoked \cup {Place(index[Route])}
      BY <3>1, <3>2 DEF Publish, Held
    <3>4. Held'
      BY <3>2, <3>3 DEF Held
    <3> QED
      BY <3>2, <3>3, <3>4, SettledKept
  <2> QED
    BY <2>1, <2>2
<1>3. CASE RevokeMark(Route)
  <2>1. /\ step[Route] = "markRevoked" /\ step'[Route] = "getOwner"
        /\ index'[Route] = index[Route] /\ UNCHANGED <<services, revoked, answered>>
    BY <1>0, <1>3 DEF RevokeMark, At, Goto, TypeOK, tangle, locals, history
  <2>2. index[Route] \in Stored /\ Place(index[Route]) \in revoked
    BY <1>0, <2>1 DEF Tasks, Fits, Revoking, Held
  <2>3. PICK v : v = [stored[index[Route]] EXCEPT !.isRevoked = TRUE]
    OBVIOUS
  <2>4. v.status = stored[index[Route]].status
    BY <2>2, <2>3 DEF Stored, TypeOK, Vc
  <2>5. stored' = [stored EXCEPT ![index[Route]] = v]
    BY <1>3, <2>3 DEF RevokeMark
  <2>6. \A i \in Stored' : \/ i = index[Route] /\ stored'[i] = v
                           \/ i \in Stored /\ stored'[i] = stored[i]
    BY <1>0, <2>5 DEF Stored, TypeOK
  <2>7. Settled'
    BY <2>1, <2>2, <2>4, <2>6 DEF Settled
  <2>8. Held'
    BY <2>1, <2>2 DEF Held
  <2> QED
    BY <2>7, <2>8
<1>4. CASE RevokeGetUser(Route)
  <2>1. CASE Finish(Route)
    BY <1>4, <2>1, FinishHeld DEF RevokeGetUser, history
  <2>2. CASE ~Finish(Route)
    <3>1. /\ step[Route] = "getOwner" /\ step'[Route] = "removeVC"
          /\ index'[Route] = index[Route] /\ UNCHANGED <<services, revoked, stored, answered>>
      BY <1>0, <1>4, <2>2 DEF RevokeGetUser, At, Goto, TypeOK, history
    <3>2. Held'
      BY <3>1 DEF Held
    <3> QED
      BY <3>1, <3>2, SettledKept
  <2> QED
    BY <2>1, <2>2
<1>5. CASE RevokeRemoveVC(Route)
  <2>1. /\ step[Route] = "removeVC" /\ Finish(Route) /\ UNCHANGED <<services, revoked, stored>>
        /\ answered' \subseteq answered \cup {index[Route]}
    BY <1>5 DEF RevokeRemoveVC, At
  <2>2. \A i \in answered' : i \in answered \/ Place(i) \in revoked
    BY <2>1 DEF Held
  <2> QED
    BY <2>1, <2>2, FinishHeld
<1> QED
  BY <1>1, <1>2, <1>3, <1>4, <1>5

\* Every step of the locked task keeps what it relies on, and the books.
LEMMA RouteStepExclusive ==
  ASSUME TypeOK, Tasks, Alone, Held, Settled, RouteStep
  PROVE  Alone' /\ Held' /\ Settled'
<1>1. Alone'
  <2>1. \A s \in Task \ {Route} : step'[s] = step[s]
    <3>1. CASE TaskStep(Route) \/ Fail(Route) \/ \E u \in User : IssueStart(Route, u)
      BY <3>1, TaskType, OthersSame DEF Same
    <3>2. ASSUME NEW i \in Index, RevokeStart(i)
          PROVE  \A s \in Task \ {Route} : step'[s] = step[s]
      BY <3>2, TaskType DEF RevokeStart, Goto, TypeOK
    <3> QED
      BY <3>1, <3>2 DEF RouteStep
  <2> QED
    BY <2>1 DEF Alone
<1>2. CASE Fail(Route)
  BY <1>1, <1>2, FinishHeld DEF Fail, history
<1>3. ASSUME NEW u \in User, IssueStart(Route, u) PROVE Held' /\ Settled'
  <2>1. /\ step'[Route] = "index" /\ bitmap'[Route] = NextIndex \div Size
        /\ UNCHANGED <<services, revoked, stored, answered>>
    BY <1>3, TaskType DEF IssueStart, Goto, TypeOK, tangle, history
  <2>2. Held'
    BY <2>1 DEF Held, NextIndex, Stored
  <2> QED
    BY <2>1, <2>2, SettledKept
<1>4. ASSUME NEW i \in Index, RevokeStart(i) PROVE Held' /\ Settled'
  <2>1. step'[Route] = "getDoc" /\ UNCHANGED <<services, revoked, stored, answered>>
    BY <1>4, TaskType DEF RevokeStart, Goto, TypeOK, tangle
  <2>2. Held'
    BY <2>1 DEF Held
  <2> QED
    BY <2>1, <2>2, SettledKept
<1>5. CASE TaskStep(Route)
  BY <1>1, <1>5, IssueSettled, RevokeSettled DEF TaskStep
<1> QED
  BY <1>1, <1>2, <1>3, <1>4, <1>5 DEF RouteStep

\* The first state, in which nothing is under way.
LEMMA ExclusiveInit == Init => Exclusive
<1> SUFFICES ASSUME Init PROVE Exclusive
  OBVIOUS
<1>1. step[Route] = "idle" /\ Alone
  BY TaskType DEF Init, Alone
<1>2. Checked
  BY DEF Init, Checked
<1> QED
  BY <1>1, <1>2 DEF Init, Exclusive, Held, Settled, Stored

\* Every step keeps the invariant of SpecRevocationHolds.
LEMMA ExclusiveStep ==
  ASSUME OnlyLocked, Going, Exclusive, [Next]_vars
  PROVE  Exclusive'
<1>1. CASE UNCHANGED vars
  BY <1>1 DEF Exclusive, Alone, Held, Settled, Checked, Stored, NextIndex,
              vars, tangle, locals, history
<1>2. CASE Next
  <2>1. Checked'
    BY <1>2, CheckedStep DEF Going, Exclusive
  <2>2. CASE RouteStep
    BY <2>1, <2>2, RouteStepExclusive DEF Going, Exclusive
  <2>3. CASE BesideStep
    BY <2>1, <2>3, BesideSame, SameExclusive DEF Going, Exclusive
  <2> QED
    BY <1>2, <2>2, <2>3, LockedNext DEF Exclusive
<1> QED
  BY <1>1, <1>2

\* So it holds always, as long as only the locked routes publish and issue.
LEMMA SpecExclusive ==
  ASSUME OnlyLocked
  PROVE  Spec => [](Going /\ Wanted /\ Exclusive)
<1>1. Going /\ Exclusive /\ [Next]_vars => Exclusive'
  BY ExclusiveStep
<1> QED
  BY <1>1, ExclusiveInit, SpecWanted, PTL DEF Spec

\* As long as only the locked routes publish and issue: what the database and
\* the answers of revoke-credential say is what the Tangle says, each status
\* is the position that revokeVerifiableCredential computes, no check believes
\* a credential after its revocation, and nothing else is revoked.
THEOREM SpecRevocationHolds ==
  ASSUME OnlyLocked
  PROVE  Spec => []RevocationHolds
<1>1. Exclusive => RevokedOnTangle
  BY DEF Exclusive, Settled, RevokedOnTangle
<1>2. Exclusive => CheckHonoursRevocation
  BY DEF Exclusive, Checked, CheckHonoursRevocation
<1>3. Wanted => RevocationIsExact
  BY DEF Wanted, Places, RevocationIsExact
<1> QED
  BY <1>1, <1>2, <1>3, SpecExclusive, PTL DEF RevocationHolds

-----------------------------------------------------------------------------
(* Under the lock the bridge implements CredentialRegistry: IssueStore is  *)
(* Issue, RevokeStart is Ask, RevokePublish is Revoke unless the position  *)
(* was set before, and every other step changes nothing that the registry  *)
(* promises.                                                               *)

\* Only what is stored can be asked for.
AskedStored == asked \subseteq Stored

\* A revocation starts from stored credentials, and they stay.
LEMMA AskedStoredStep ==
  ASSUME AskedStored, Kept, Next
  PROVE  AskedStored'
<1>1. asked' \subseteq asked \cup Stored
  BY DEF Next, TaskStep, Fail, IssueStart, IssueIndex, IssueStore, IssueGetUser, IssueAddVC,
         RevokeStart, RevokeGetDoc, RevokePublish, RevokeMark, RevokeGetUser,
         RevokeRemoveVC, AddUser, PutRead, PutWrite, DeleteStart, DeleteUser, SetupStart,
         SetupPublish, SetupSave, AddRoot, RemoveRoot, CheckDocument, CheckRoots, history
<1> QED
  BY <1>1 DEF AskedStored, Kept

\* What a credential is worth.
LEMMA StandingOf ==
  ASSUME NEW i \in Index
  PROVE  /\ i \notin Stored => Standing[i] = "none"
         /\ i \in Stored /\ stored[i].status \in revoked => Standing[i] = "revoked"
         /\ i \in Stored /\ stored[i].status \notin revoked => Standing[i] = "valid"
BY DEF Standing, Stored

\* Standing is a function of the collection and the document.
LEMMA StandingSame ==
  ASSUME UNCHANGED <<stored, revoked>>
  PROVE  Standing' = Standing
BY DEF Standing

\* A credential that is stored becomes valid, as its position is not set.
LEMMA StoreIssues ==
  ASSUME TypeOK, Wanted, AskedStored, Held, IssueStore(Route)
  PROVE  [Registry!Next]_<<Standing, asked>>
<1>0. Route \in Task /\ index[Route] \in Index /\ Index \subseteq Nat
  BY TaskType DEF TypeOK
<1>1. CASE stored[index[Route]] # NoVc
  <2>1. UNCHANGED <<stored, revoked, asked>>
    BY <1>1 DEF IssueStore, history
  <2> QED
    BY <2>1, StandingSame
<1>2. CASE stored[index[Route]] = NoVc
  <2>1. PICK i \in Index : i = index[Route]
    BY <1>0
  <2>2. PICK v : v = NewCredential(Route)
    OBVIOUS
  <2>3. /\ step[Route] = "store" /\ stored' = [stored EXCEPT ![i] = v]
        /\ stored[i] = NoVc /\ UNCHANGED <<revoked, asked>>
    BY <1>2, <2>1, <2>2 DEF IssueStore, At, history
  <2>4. v \in Vc /\ v # NoVc
    BY <1>0, <2>2, NewCredentialType, VcType
  <2>5. v.status = Place(i)
    BY <2>1, <2>2, <2>3 DEF NewCredential, Place, Held
  <2>6. Place(i) \notin revoked
    <3>1. ASSUME Place(i) \in revoked PROVE FALSE
      <4>1. PICK j \in asked : Place(i) = Place(j)
        BY <3>1 DEF Wanted, Places
      <4>2. j \in Stored /\ j \in Nat
        BY <1>0, <4>1 DEF AskedStored, Stored
      <4>3. i = j
        BY <1>0, <4>1, <4>2, PlaceInjective
      <4> QED
        BY <2>3, <4>2, <4>3 DEF Stored
    <3> QED
      BY <3>1
  <2>7. Standing[i] = "none"
    BY <2>3 DEF Standing
  <2>8. stored' \in [Index -> Vc \cup {NoVc}] /\ stored'[i] = v
        /\ \A j \in Index \ {i} : stored'[j] = stored[j]
    BY <2>3, <2>4 DEF TypeOK
  <2>9. Standing' = [Standing EXCEPT ![i] = "valid"]
    BY <2>3, <2>4, <2>5, <2>6, <2>8 DEF Standing
  <2> QED
    BY <2>3, <2>7, <2>9 DEF Registry!Next, Registry!Issue
<1> QED
  BY <1>1, <1>2

\* The position is the one of the credential, which was asked for.
LEMMA PublishRevokes ==
  ASSUME TypeOK, Tasks, Wanted, Held, Settled, RevokePublish(Route)
  PROVE  [Registry!Next]_<<Standing, asked>>
<1>0. Route \in Task /\ index[Route] \in Index /\ Index \subseteq Nat
  BY TaskType DEF TypeOK
<1>1. CASE Place(index[Route])[1] \notin seen[Route].services
  <2>1. UNCHANGED <<stored, revoked, asked>>
    BY <1>1 DEF RevokePublish, history
  <2> QED
    BY <2>1, StandingSame
<1>2. CASE Place(index[Route])[1] \in seen[Route].services
  <2>1. PICK i \in Index : i = index[Route]
    BY <1>0
  <2>2. step[Route] = "publish" /\ i \in Stored /\ i \in asked
    BY <1>0, <2>1 DEF RevokePublish, At, Tasks, Fits, Wanted, Revoking
  <2>3. revoked' = revoked \cup {Place(i)} /\ UNCHANGED <<stored, asked>>
    BY <1>2, <2>1, <2>2 DEF RevokePublish, Publish, Held, history
  <2>4. stored[i].status = Place(i)
    BY <2>2 DEF Settled
  <2>5. \A j \in Stored \ {i} : stored[j].status # Place(i)
    <3>1. ASSUME NEW j \in Stored, j # i, stored[j].status = Place(i) PROVE FALSE
      <4>1. Place(j) = Place(i) /\ j \in Nat /\ i \in Nat
        BY <1>0, <3>1 DEF Settled, Stored
      <4> QED
        BY <3>1, <4>1, PlaceInjective
    <3> QED
      BY <3>1
  <2>6. CASE Place(i) \in revoked
    <3>1. revoked' = revoked
      BY <2>3, <2>6
    <3> QED
      BY <2>3, <3>1, StandingSame
  <2>7. CASE Place(i) \notin revoked
    <3>1. Standing[i] = "valid"
      BY <2>2, <2>4, <2>7 DEF Standing, Stored
    <3>2. \A j \in Index : Standing'[j] = IF j = i THEN "revoked" ELSE Standing[j]
      BY <2>2, <2>3, <2>4, <2>5 DEF Standing, Stored
    <3>3. Standing' = [Standing EXCEPT ![i] = "revoked"]
      BY <3>2 DEF Standing
    <3> QED
      BY <2>2, <2>3, <3>1, <3>3 DEF Registry!Next, Registry!Revoke
  <2> QED
    BY <2>6, <2>7
<1> QED
  BY <1>1, <1>2

\* The mark in the database is no part of what a credential is worth.
LEMMA MarkSame ==
  ASSUME TypeOK, Tasks, RevokeMark(Route)
  PROVE  UNCHANGED <<Standing, asked>>
<1>1. PICK i \in Stored : i = index[Route]
  BY TaskType DEF RevokeMark, At, Tasks, Fits, Revoking
<1>2. PICK v : v = [stored[i] EXCEPT !.isRevoked = TRUE]
  OBVIOUS
<1>3. stored[i] \in Vc
  BY <1>1 DEF Stored, TypeOK
<1>4. v \in Vc /\ v.status = stored[i].status /\ v # NoVc
  <2>1. v \in Vc /\ v.status = stored[i].status
    BY <1>2, <1>3 DEF Vc
  <2> QED
    BY <2>1, VcType
<1>5. stored' = [stored EXCEPT ![i] = v] /\ UNCHANGED <<revoked, asked>>
  BY <1>1, <1>2 DEF RevokeMark, tangle, history
<1>6. \A j \in Index : stored'[j] = IF j = i THEN v ELSE stored[j]
  BY <1>5 DEF TypeOK
<1>7. Standing' = Standing
  BY <1>1, <1>4, <1>5, <1>6 DEF Standing, Stored
<1> QED
  BY <1>5, <1>7

\* Every step of the bridge is one of the registry, or none.
LEMMA StepRefines ==
  ASSUME OnlyLocked, Going, Wanted, AskedStored, Exclusive, [Next]_vars
  PROVE  [Registry!Next]_<<Standing, asked>>
<1>0. TypeOK /\ Tasks /\ Alone /\ Held /\ Settled
  BY DEF Going, Exclusive
<1>1. CASE UNCHANGED vars
  BY <1>1, StandingSame DEF vars, tangle, history
<1>2. CASE IssueStore(Route)
  BY <1>0, <1>2, StoreIssues
<1>3. CASE RevokePublish(Route)
  BY <1>0, <1>3, PublishRevokes
<1>4. CASE RevokeMark(Route)
  BY <1>0, <1>4, MarkSame
<1>5. ASSUME NEW i \in Index, RevokeStart(i) PROVE [Registry!Next]_<<Standing, asked>>
  <2>1. /\ i \in Stored /\ asked' = asked \cup {i} /\ UNCHANGED <<stored, revoked>>
    BY <1>5 DEF RevokeStart, tangle
  <2>2. Standing[i] # "none"
    BY <2>1, StandingOf
  <2> QED
    BY <2>1, <2>2, StandingSame DEF Registry!Next, Registry!Ask
<1>6. CASE BesideStep
  <2>1. UNCHANGED <<stored, revoked>>
    BY <1>0, <1>6, BesideSame DEF RouteSame
  <2>2. UNCHANGED asked
    BY <1>6 DEF BesideStep, Fail, PutWrite, CheckRoots, CheckDocument, AddUser, PutRead,
                DeleteUser, DeleteStart, AddRoot, RemoveRoot, history
  <2> QED
    BY <2>1, <2>2, StandingSame
<1>7. CASE \/ IssueIndex(Route) \/ IssueGetUser(Route) \/ IssueAddVC(Route)
           \/ RevokeGetDoc(Route) \/ RevokeGetUser(Route) \/ RevokeRemoveVC(Route)
           \/ Fail(Route) \/ \E u \in User : IssueStart(Route, u)
  <2>1. UNCHANGED <<stored, revoked, asked>>
    BY <1>7 DEF IssueIndex, IssueGetUser, IssueAddVC, RevokeGetDoc, RevokeGetUser,
                RevokeRemoveVC, Fail, IssueStart, tangle, history
  <2> QED
    BY <2>1, StandingSame
<1>8. UNCHANGED vars \/ RouteStep \/ BesideStep
  BY <1>0, LockedNext
<1> QED
  BY <1>1, <1>2, <1>3, <1>4, <1>5, <1>6, <1>7, <1>8 DEF RouteStep, TaskStep

\* Under the lock every credential is issued once, becomes invalid only on
\* request, and stays revoked, whatever fails between the writes to the
\* database and to the Tangle.
THEOREM SpecImplementsRegistry ==
  ASSUME OnlyLocked
  PROVE  Spec => ImplementsRegistry
<1>1. Init => Registry!Init /\ AskedStored
  BY DEF Init, Registry!Init, AskedStored, Standing
<1>2. Going /\ AskedStored /\ [Next]_vars => AskedStored'
  <2>1. Going /\ Next => Kept
    BY NextKept DEF Going
  <2>2. AskedStored /\ UNCHANGED vars => AskedStored'
    BY DEF AskedStored, Stored, vars, history
  <2> QED
    BY <2>1, <2>2, AskedStoredStep
<1>3. Going /\ Wanted /\ AskedStored /\ Exclusive /\ [Next]_vars
        => [Registry!Next]_<<Standing, asked>>
  BY StepRefines
<1> QED
  BY <1>1, <1>2, <1>3, SpecExclusive, PTL DEF Spec, ImplementsRegistry, Registry!Spec

-----------------------------------------------------------------------------
(* Lists under the lock: without failures, the tool, DELETEs and PUTs, and *)
(* with room for every credential (a full list makes addUserVC throw after *)
(* the credential was stored), the read and the write of addUserVC and     *)
(* removeUserVC lose nothing.                                              *)

OnlyRoutes == Event \cap {"fail", "tool", "purge", "delete", "put"} = {}

\* No list is ever full.
Room == ListLimit \in Nat /\ ListLimit > MaxIndex + 1

\* The credentials of a user that are not revoked.
Usable(u) == {i \in Stored : stored[i].subject = u /\ ~stored[i].isRevoked}

\* The credential that is about to be put on a list, or taken from it.
Moving ==
  IF step[Route] \in {"getUser", "addVC", "getOwner", "removeVC"} THEN {index[Route]} ELSE {}

\* Beside the locked task there is only the setup, which has no list.
Solitary ==
  /\ \A t \in Task : step[t] # "idle" =>
       t = Route \/ (t = Setup /\ step[t] \in {"insertService", "saveBitmap"})
  /\ \A u \in User : due[u] = NoVc

\* But for the credential that moves the lists are right.
Listing ==
  /\ \A u \in User : list[u] \ Moving = Usable(u) \ Moving
  /\ \A u \in User : users[u] = "none" => list[u] = {}

\* The list that the locked task read is still the user's list.
Moves ==
  /\ step[Route] \in {"getUser", "addVC"} => ~stored[index[Route]].isRevoked
  /\ step[Route] = "addVC" => seenList[Route] = list[subject[Route]]
  /\ step[Route] \in {"getOwner", "removeVC"} => stored[index[Route]].isRevoked
  /\ step[Route] = "removeVC" => seenList[Route] = list[stored[index[Route]].subject]

\* The steps of others: they touch neither the credentials nor the lists.
Bystander ==
  \/ SetupStart \/ SetupPublish \/ SetupSave \/ CheckRoots
  \/ \E i \in Index : CheckDocument(i)
  \/ \E u \in User : AddUser(u)
  \/ \E r \in Root : AddRoot(r) \/ RemoveRoot(r)

\* What can happen then: a step of the locked task, or one of a bystander.
LEMMA RoutesNext ==
  ASSUME OnlyRoutes, Solitary, Next
  PROVE  \/ TaskStep(Route)
         \/ \E u \in User : IssueStart(Route, u)
         \/ \E i \in Index : RevokeStart(i)
         \/ Bystander
<1> DEFINE Goal == \/ TaskStep(Route)
                   \/ \E u \in User : IssueStart(Route, u)
                   \/ \E i \in Index : RevokeStart(i)
                   \/ Bystander
<1>1. ASSUME NEW t \in Task, TaskStep(t) PROVE Goal
  <2>1. step[t] \notin {"idle", "insertService", "saveBitmap"}
    BY <1>1 DEF TaskStep, At, IssueIndex, IssueStore, IssueGetUser, IssueAddVC,
                RevokeGetDoc, RevokePublish, RevokeMark, RevokeGetUser, RevokeRemoveVC
  <2> QED
    BY <1>1, <2>1 DEF Solitary
<1>2. \A t \in Task : ~Fail(t)
  BY DEF Fail, OnlyRoutes
<1>3. ASSUME NEW t \in Task, NEW u \in User, IssueStart(t, u) PROVE Goal
  BY <1>3 DEF IssueStart, OnlyRoutes
<1>4. \A u \in User : \A todo \in SUBSET Stored : ~DeleteStart(u, todo)
  BY DEF DeleteStart, OnlyRoutes
<1>5. \A u \in User : ~PutRead(u)
  BY DEF PutRead, OnlyRoutes
<1>6. ~PutWrite
  BY TaskType DEF PutWrite, At, Solitary
<1>7. \A u \in User : ~DeleteUser(u)
  BY DEF DeleteUser, Solitary
<1> QED
  BY <1>1, <1>2, <1>3, <1>4, <1>5, <1>6, <1>7 DEF Next, Bystander

\* What the lists depend on, but for the lists themselves.
ListsSame ==
  /\ UNCHANGED <<stored, list>>
  /\ step'[Route] = step[Route] /\ index'[Route] = index[Route]
  /\ subject'[Route] = subject[Route] /\ seenList'[Route] = seenList[Route]
  /\ \A u \in User : users'[u] = "none" => users[u] = "none"

\* A bystander changes nothing that the lists depend on.
LEMMA BystanderSame ==
  ASSUME TypeOK, Solitary, Bystander
  PROVE  ListsSame /\ Solitary'
<1>1. CASE SetupStart
  BY <1>1, TaskType
  DEF SetupStart, ReadDocument, Goto, TypeOK, ListsSame, Solitary, userDocs
<1>2. CASE SetupPublish
  BY <1>2, TaskType
  DEF SetupPublish, Goto, TypeOK, ListsSame, Solitary, userDocs, locals
<1>3. CASE SetupSave
  BY <1>3, TaskType
  DEF SetupSave, Finish, TypeOK, ListsSame, Solitary, userDocs
<1>4. ASSUME NEW u \in User, AddUser(u) PROVE ListsSame /\ Solitary'
  BY <1>4 DEF AddUser, TypeOK, ListsSame, Solitary, locals
<1>5. CASE \/ CheckRoots \/ \E i \in Index : CheckDocument(i)
           \/ \E r \in Root : AddRoot(r) \/ RemoveRoot(r)
  BY <1>5 DEF CheckRoots, CheckDocument, AddRoot, RemoveRoot, ListsSame, Solitary,
              userDocs, locals
<1> QED
  BY <1>1, <1>2, <1>3, <1>4, <1>5 DEF Bystander

\* What the lists depend on stays right when nothing of it changes.
LEMMA SameListing ==
  ASSUME Listing, Moves, ListsSame
  PROVE  Listing' /\ Moves'
<1>1. Moving' = Moving /\ \A u \in User : Usable(u)' = Usable(u)
  BY DEF ListsSame, Moving, Usable, Stored
<1>2. Listing'
  BY <1>1 DEF Listing, ListsSame
<1>3. Moves'
  BY DEF Moves, ListsSame
<1> QED
  BY <1>2, <1>3

\* The locked task stays the only one.
LEMMA RouteSolitary ==
  ASSUME TypeOK, Solitary,
         \/ TaskStep(Route)
         \/ \E u \in User : IssueStart(Route, u)
         \/ \E i \in Index : RevokeStart(i)
  PROVE  Solitary'
<1>1. \A s \in Task \ {Route} : step'[s] = step[s]
  <2>1. CASE TaskStep(Route) \/ \E u \in User : IssueStart(Route, u)
    BY <2>1, TaskType, OthersSame DEF Same
  <2>2. ASSUME NEW i \in Index, RevokeStart(i)
        PROVE  \A s \in Task \ {Route} : step'[s] = step[s]
    BY <2>2, TaskType DEF RevokeStart, Goto, TypeOK
  <2> QED
    BY <2>1, <2>2
<1>2. UNCHANGED due
  BY DEF TaskStep, IssueStart, IssueIndex, IssueStore, IssueGetUser, IssueAddVC, RevokeStart,
         RevokeGetDoc, RevokePublish, RevokeMark, RevokeGetUser, RevokeRemoveVC
<1> QED
  BY <1>1, <1>2 DEF Solitary

\* A list never has more than every credential.
LEMMA NeverFull ==
  ASSUME TypeOK, Room, NEW u \in User
  PROVE  Cardinality(list[u]) < ListLimit
<1>1. IsFiniteSet(Index) /\ Cardinality(Index) = MaxIndex + 1
  BY FS_Interval, SizeAssumption DEF Index
<1>2. list[u] \subseteq Index
  BY DEF TypeOK
<1>3. IsFiniteSet(list[u]) /\ Cardinality(list[u]) <= Cardinality(Index)
  BY <1>1, <1>2, FS_Subset
<1>4. Cardinality(list[u]) \in Nat
  BY <1>3, FS_CardinalityType
<1> QED
  BY <1>1, <1>3, <1>4, SizeAssumption DEF Room

\* A step that moves nothing and writes no credential and no list keeps them.
LEMMA ListingKept ==
  ASSUME Listing, Moving = {}, Moving' = {}, UNCHANGED <<stored, list, users>>
  PROVE  Listing'
<1>1. \A u \in User : Usable(u)' = Usable(u)
  BY DEF Usable, Stored
<1> QED
  BY <1>1 DEF Listing

\* A step without a list in it, from and to one where nothing moves.
LEMMA IdleListing ==
  ASSUME Listing, UNCHANGED <<stored, list, users>>,
         step[Route] \notin {"getUser", "addVC", "getOwner", "removeVC"},
         step'[Route] \notin {"getUser", "addVC", "getOwner", "removeVC"}
  PROVE  Listing' /\ Moves'
<1>1. Moving = {} /\ Moving' = {}
  BY DEF Moving
<1> QED
  BY <1>1, ListingKept DEF Moves

\* Sets without an element are equal if they are but for it.
LEMMA ButFor ==
  ASSUME NEW A, NEW B, NEW i, i \notin A, i \notin B, A \ {i} = B \ {i}
  PROVE  A = B
<1>1. ASSUME NEW x PROVE x \in A <=> x \in B
  <2>1. x \in A \ {i} <=> x \in B \ {i}
    OBVIOUS
  <2> QED
    BY <2>1
<1> QED
  BY <1>1

\* The steps that issue a credential.
LEMMA IssueListing ==
  ASSUME TypeOK, Tasks, Lists, Room, Listing, Moves,
         IssueIndex(Route) \/ IssueStore(Route) \/ IssueGetUser(Route) \/ IssueAddVC(Route)
  PROVE  Listing' /\ Moves'
<1>0. /\ Route \in Task /\ index[Route] \in Index /\ subject[Route] \in User
  BY TaskType DEF TypeOK
<1>1. CASE IssueIndex(Route)
  <2>1. /\ step[Route] = "index" /\ step'[Route] = "store" /\ UNCHANGED <<stored, list, users>>
    BY <1>0, <1>1 DEF IssueIndex, At, Goto, TypeOK, userDocs
  <2> QED
    BY <2>1, IdleListing
<1>2. CASE IssueStore(Route)
  <2>0. step[Route] = "store" /\ UNCHANGED <<list, users>>
    BY <1>2 DEF IssueStore, At, userDocs
  <2>1. CASE stored[index[Route]] # NoVc
    <3>1. step'[Route] = "idle" /\ UNCHANGED stored
      BY <1>0, <1>2, <2>1 DEF IssueStore, Finish, TypeOK
    <3> QED
      BY <2>0, <3>1, IdleListing
  <2>2. CASE stored[index[Route]] = NoVc
    <3>1. PICK i \in Index : i = index[Route]
      BY <1>0
    <3>2. PICK v : v = NewCredential(Route)
      OBVIOUS
    <3>3. /\ step'[Route] = "getUser" /\ index'[Route] = i
          /\ stored' = [stored EXCEPT ![i] = v]
      BY <1>0, <1>2, <2>2, <3>1, <3>2 DEF IssueStore, Goto, TypeOK, locals
    <3>4. ~v.isRevoked /\ v # NoVc
      BY <1>0, <3>2, NewCredentialType, VcType DEF NewCredential
    <3>5. stored'[i] = v /\ \A j \in Index \ {i} : stored'[j] = stored[j]
      BY <3>3 DEF TypeOK
    <3>6. Moving = {} /\ Moving' = {i}
      BY <2>0, <3>3 DEF Moving
    <3>7. \A u \in User : Usable(u)' \ {i} = Usable(u) \ {i}
      BY <3>5 DEF Usable, Stored
    <3>8. Listing'
      BY <2>0, <3>6, <3>7 DEF Listing
    <3>9. ~stored'[index'[Route]].isRevoked
      BY <3>3, <3>4, <3>5
    <3>10. Moves'
      BY <3>3, <3>9 DEF Moves
    <3> QED
      BY <3>8, <3>10
  <2> QED
    BY <2>1, <2>2
<1>3. CASE IssueGetUser(Route)
  <2>1. Cardinality(list[subject[Route]]) < ListLimit
    BY <1>0, NeverFull
  <2>2. ~(Cardinality(list[subject[Route]]) >= ListLimit)
    <3>1. Cardinality(list[subject[Route]]) \in Nat
      <4>1. IsFiniteSet(Index) /\ list[subject[Route]] \subseteq Index
        BY <1>0, FS_Interval, SizeAssumption DEF Index, TypeOK
      <4> QED
        BY <4>1, FS_Subset, FS_CardinalityType
    <3> QED
      BY <2>1, <3>1 DEF Room
  <2>3. /\ step[Route] = "getUser" /\ step'[Route] = "addVC"
        /\ index'[Route] = index[Route] /\ subject'[Route] = subject[Route]
        /\ seenList'[Route] = list[subject[Route]]
        /\ UNCHANGED <<stored, list, users>>
    BY <1>0, <1>3, <2>2 DEF IssueGetUser, At, Goto, TypeOK, userDocs
  <2>4. Moving' = Moving /\ \A u \in User : Usable(u)' = Usable(u)
    BY <2>3 DEF Moving, Usable, Stored
  <2>5. Listing'
    BY <2>3, <2>4 DEF Listing
  <2>6. ~stored'[index'[Route]].isRevoked
    BY <2>3 DEF Moves
  <2>7. Moves'
    BY <2>3, <2>6 DEF Moves
  <2> QED
    BY <2>5, <2>7
<1>4. CASE IssueAddVC(Route)
  <2>1. PICK u \in User : u = subject[Route]
    BY <1>0
  <2>2. PICK i \in Index : i = index[Route]
    BY <1>0
  <2>3. /\ step[Route] = "addVC" /\ step'[Route] = "idle"
        /\ list' = [list EXCEPT ![u] = seenList[Route] \cup {i}]
        /\ users' = [users EXCEPT ![u] = IF @ = "none" THEN "ghost" ELSE @]
        /\ UNCHANGED stored
    BY <1>0, <1>4, <2>1, <2>2 DEF IssueAddVC, At, Finish, TypeOK
  <2>4. i \in Own(u) /\ ~stored[i].isRevoked /\ seenList[Route] = list[u]
    BY <1>0, <2>1, <2>2, <2>3 DEF Tasks, Fits, Moves
  <2>5. Moving = {i} /\ Moving' = {}
    BY <2>2, <2>3 DEF Moving
  <2>6. \A w \in User : Usable(w)' = Usable(w)
    BY <2>3 DEF Usable, Stored
  <2>7. list'[u] = Usable(u)
    <3>1. list'[u] = list[u] \cup {i} /\ i \in Usable(u)
      BY <2>3, <2>4 DEF TypeOK, Own, Usable
    <3> QED
      BY <2>5, <3>1 DEF Listing
  <2>8. ASSUME NEW w \in User \ {u} PROVE list'[w] = Usable(w)
    <3>1. list'[w] = list[w] /\ i \notin list[w] /\ i \notin Usable(w)
      BY <2>3, <2>4 DEF TypeOK, Lists, Own, Usable
    <3>2. list[w] \ {i} = Usable(w) \ {i}
      BY <2>5 DEF Listing
    <3>3. list[w] = Usable(w)
      BY <3>1, <3>2, ButFor
    <3> QED
      BY <3>1, <3>3
  <2>9. ASSUME NEW w \in User, users'[w] = "none" PROVE list'[w] = {}
    <3>1. w # u /\ users[w] = "none"
      BY <2>3, <2>9 DEF TypeOK
    <3> QED
      BY <2>3, <3>1 DEF Listing, TypeOK
  <2>10. Listing'
    BY <2>5, <2>6, <2>7, <2>8, <2>9 DEF Listing
  <2> QED
    BY <2>3, <2>10 DEF Moves
<1> QED
  BY <1>1, <1>2, <1>3, <1>4

\* A credential that is revoked is on no list, once nobody has the list that
\* it was taken from.
LEMMA RemovedListing ==
  ASSUME Lists, Listing, NEW u \in User, NEW i \in Own(u), Moving = {i}, Moving' = {},
         stored[i].isRevoked, UNCHANGED <<stored, users>>,
         list'[u] = list[u] \ {i}, \A w \in User \ {u} : list'[w] = list[w]
  PROVE  Listing'
<1>1. \A w \in User : Usable(w)' = Usable(w) /\ i \notin Usable(w)
  BY DEF Usable, Stored
<1>2. \A w \in User \ {u} : i \notin list[w]
  BY DEF Lists, Own
<1>3. ASSUME NEW w \in User PROVE list'[w] = Usable(w)
  <2>1. list[w] \ {i} = Usable(w) \ {i} /\ i \notin list'[w] /\ list'[w] \ {i} = list[w] \ {i}
    BY <1>2 DEF Listing
  <2> QED
    BY <1>1, <2>1, ButFor
<1>4. \A w \in User : users'[w] = "none" => list'[w] = {}
  BY DEF Listing
<1> QED
  BY <1>1, <1>3, <1>4 DEF Listing

\* The steps that revoke one.
LEMMA RevokeListing ==
  ASSUME TypeOK, Tasks, Lists, Listing, Moves,
         \/ RevokeGetDoc(Route) \/ RevokePublish(Route) \/ RevokeMark(Route)
         \/ RevokeGetUser(Route) \/ RevokeRemoveVC(Route)
  PROVE  Listing' /\ Moves'
<1>0. Route \in Task /\ index[Route] \in Index
  BY TaskType DEF TypeOK
<1>1. CASE RevokeGetDoc(Route)
  <2>1. /\ step[Route] = "getDoc" /\ step'[Route] = "publish" /\ UNCHANGED <<stored, list, users>>
    BY <1>0, <1>1 DEF RevokeGetDoc, At, Goto, TypeOK, userDocs
  <2> QED
    BY <2>1, IdleListing
<1>2. CASE RevokePublish(Route)
  <2>1. /\ step[Route] = "publish" /\ step'[Route] \in {"idle", "markRevoked"}
        /\ UNCHANGED <<stored, list, users>>
    BY <1>0, <1>2 DEF RevokePublish, At, Goto, Finish, TypeOK, userDocs
  <2> QED
    BY <2>1, IdleListing
<1>3. CASE RevokeMark(Route)
  <2>1. PICK i \in Index : i = index[Route]
    BY <1>0
  <2>2. PICK v : v = [stored[i] EXCEPT !.isRevoked = TRUE]
    OBVIOUS
  <2>3. /\ step[Route] = "markRevoked" /\ step'[Route] = "getOwner" /\ index'[Route] = i
        /\ stored' = [stored EXCEPT ![i] = v] /\ UNCHANGED <<list, users>>
    BY <1>0, <1>3, <2>1, <2>2 DEF RevokeMark, At, Goto, TypeOK, locals, userDocs
  <2>4. v.isRevoked
    <3>1. i \in Stored
      BY <1>0, <2>1, <2>3 DEF Tasks, Fits, Revoking
    <3> QED
      BY <2>2, <3>1 DEF Stored, TypeOK, Vc
  <2>5. stored'[i] = v /\ \A j \in Index \ {i} : stored'[j] = stored[j]
    BY <2>3 DEF TypeOK
  <2>6. Moving = {} /\ Moving' = {i}
    BY <2>3 DEF Moving
  <2>7. \A u \in User : Usable(u)' \ {i} = Usable(u) \ {i}
    BY <2>5 DEF Usable, Stored
  <2>8. Listing'
    BY <2>3, <2>6, <2>7 DEF Listing
  <2>9. stored'[index'[Route]].isRevoked
    BY <2>3, <2>4, <2>5
  <2>10. Moves'
    BY <2>3, <2>9 DEF Moves
  <2> QED
    BY <2>8, <2>10
<1>4. CASE RevokeGetUser(Route) \/ RevokeRemoveVC(Route)
  <2>1. PICK i \in Index : i = index[Route]
    BY <1>0
  <2>2. /\ step[Route] \in {"getOwner", "removeVC"} /\ UNCHANGED <<stored, users>>
    BY <1>4 DEF RevokeGetUser, RevokeRemoveVC, At, userDocs
  <2>3. i \in Stored /\ stored[i].isRevoked
    BY <1>0, <2>1, <2>2 DEF Tasks, Fits, Revoking, Moves
  <2>4. PICK u \in User : u = stored[i].subject
    BY <2>3, VcType DEF Stored, TypeOK
  <2>5. i \in Own(u) /\ Moving = {i}
    BY <2>1, <2>2, <2>3, <2>4 DEF Own, Moving
  <2>6. CASE users[u] = "none"
    <3>1. list[u] = {} /\ step'[Route] = "idle" /\ UNCHANGED list
      BY <1>0, <1>4, <2>1, <2>4, <2>6
      DEF RevokeGetUser, RevokeRemoveVC, Finish, TypeOK, Listing, userDocs
    <3>2. Moving' = {}
      BY <3>1 DEF Moving
    <3>3. Listing'
      BY <2>2, <2>3, <2>5, <3>1, <3>2, RemovedListing
    <3> QED
      BY <3>1, <3>3 DEF Moves
  <2>7. CASE users[u] # "none" /\ RevokeGetUser(Route)
    <3>1. /\ step[Route] = "getOwner" /\ step'[Route] = "removeVC" /\ index'[Route] = i
          /\ seenList'[Route] = list[u] /\ UNCHANGED list
      BY <1>0, <2>1, <2>4, <2>7 DEF RevokeGetUser, At, Goto, TypeOK, userDocs
    <3>2. Moving' = Moving /\ \A w \in User : Usable(w)' = Usable(w)
      BY <2>1, <2>2, <3>1 DEF Moving, Usable, Stored
    <3>3. Listing'
      BY <2>2, <3>1, <3>2 DEF Listing
    <3>4. stored'[index'[Route]].isRevoked /\ stored'[index'[Route]].subject = u
      BY <2>2, <2>3, <2>4, <3>1
    <3>5. Moves'
      BY <3>1, <3>4 DEF Moves
    <3> QED
      BY <3>3, <3>5
  <2>8. CASE users[u] # "none" /\ RevokeRemoveVC(Route)
    <3>1. /\ step[Route] = "removeVC" /\ step'[Route] = "idle"
          /\ list' = [list EXCEPT ![u] = seenList[Route] \ {i}]
      BY <1>0, <2>1, <2>4, <2>8 DEF RevokeRemoveVC, At, Finish, TypeOK
    <3>2. seenList[Route] = list[u]
      BY <2>1, <2>4, <3>1 DEF Moves
    <3>3. list'[u] = list[u] \ {i} /\ \A w \in User \ {u} : list'[w] = list[w]
      BY <3>1, <3>2 DEF TypeOK
    <3>4. Moving' = {}
      BY <3>1 DEF Moving
    <3>5. Listing'
      BY <2>2, <2>3, <2>5, <3>3, <3>4, RemovedListing
    <3> QED
      BY <3>1, <3>5 DEF Moves
  <2> QED
    BY <1>4, <2>6, <2>7, <2>8
<1> QED
  BY <1>1, <1>2, <1>3, <1>4

\* The inductive invariant of SpecListIsCurrent, beside Going.
Orderly == Solitary /\ Listing /\ Moves

\* The first state, in which all lists are empty.
LEMMA OrderlyInit == Init => Orderly
<1> SUFFICES ASSUME Init PROVE Orderly
  OBVIOUS
<1>1. step[Route] = "idle" /\ Solitary
  BY TaskType DEF Init, Solitary
<1>2. Moving = {} /\ Stored = {}
  BY <1>1 DEF Init, Moving, Stored
<1>3. Listing
  BY <1>2 DEF Init, Listing, Usable
<1> QED
  BY <1>1, <1>3 DEF Orderly, Moves

\* Every step keeps the lists right but for the credential that moves.
LEMMA OrderlyStep ==
  ASSUME OnlyRoutes, Room, Going, Orderly, [Next]_vars
  PROVE  Orderly'
<1>0. TypeOK /\ Tasks /\ Lists /\ Solitary /\ Listing /\ Moves
  BY DEF Going, Orderly
<1>1. CASE UNCHANGED vars
  <2>1. ListsSame /\ Solitary'
    BY <1>0, <1>1 DEF ListsSame, Solitary, vars, userDocs, locals
  <2> QED
    BY <1>0, <2>1, SameListing DEF Orderly
<1>2. CASE Bystander
  BY <1>0, <1>2, BystanderSame, SameListing DEF Orderly
<1>3. ASSUME NEW u \in User, IssueStart(Route, u) PROVE Orderly'
  <2>1. step[Route] = "idle" /\ step'[Route] = "index" /\ UNCHANGED <<stored, list, users>>
    BY <1>0, <1>3, TaskType DEF IssueStart, At, Goto, TypeOK, userDocs
  <2> QED
    BY <1>0, <1>3, <2>1, IdleListing, RouteSolitary DEF Orderly
<1>4. ASSUME NEW i \in Index, RevokeStart(i) PROVE Orderly'
  <2>1. step[Route] = "idle" /\ step'[Route] = "getDoc" /\ UNCHANGED <<stored, list, users>>
    BY <1>0, <1>4, TaskType DEF RevokeStart, At, Goto, TypeOK, userDocs
  <2> QED
    BY <1>0, <1>4, <2>1, IdleListing, RouteSolitary DEF Orderly
<1>5. CASE TaskStep(Route)
  <2>1. Listing' /\ Moves'
    BY <1>0, <1>5, IssueListing, RevokeListing DEF TaskStep
  <2> QED
    BY <1>0, <1>5, <2>1, RouteSolitary DEF Orderly
<1> QED
  BY <1>0, <1>1, <1>2, <1>3, <1>4, <1>5, RoutesNext

\* Under the lock, and as long as nothing else writes lists, a user's list
\* holds exactly its credentials that are not revoked whenever nothing is
\* under way: no issue and no revocation undoes the writing of another.
THEOREM SpecListIsCurrent ==
  ASSUME OnlyRoutes, Room
  PROVE  Spec => []ListIsCurrent
<1>1. Going /\ Orderly /\ [Next]_vars => Orderly'
  BY OrderlyStep
<1>2. Orderly => ListIsCurrent
  <2>1. SUFFICES ASSUME Orderly, \A t \in Task : At(t, "idle"), NEW u \in User
                 PROVE  list[u] = Usable(u)
    BY DEF ListIsCurrent, Usable
  <2>2. Moving = {}
    BY <2>1, TaskType DEF At, Moving
  <2> QED
    BY <2>1, <2>2 DEF Orderly, Listing
<1> QED
  BY <1>1, <1>2, GoingInit, GoingStep, OrderlyInit, PTL DEF Spec

-----------------------------------------------------------------------------
(* DELETEs that revoke.                                                    *)

\* Nothing fails, and the first bitmap, which is the only one, has a position
\* for every credential.
NothingFails == Event \cap {"fail", "setup"} = {} /\ MaxIndex < Size

\* Until the first publication counts, every task that is about to publish
\* has read the latest document, and no revocation of a DELETE is over: so
\* that publication cannot get lost, and all later ones add to a document.
Unlost ==
  /\ services = {0}
  /\ \A t \in Task : step[t] # "insertService"
  /\ \A t \in Task : step[t] = "publish" => seen[t].services = {0}
  /\ revoked = {} =>
       /\ purged = {}
       /\ \A t \in Task : step[t] = "publish" => current[t]
       /\ \A u \in User : due[u] # NoVc =>
            \A t \in due[u] : step[t] \in {"getDoc", "publish"}

\* A task that is at another step, and goes to one that does not publish.
LEMMA AsideUnlost ==
  ASSUME TypeOK, Unlost, NEW t \in Task,
         services' = services, revoked' = revoked, purged' = purged, due' = due,
         step[t] \notin {"getDoc", "publish"}, step'[t] \notin {"publish", "insertService"},
         \A s \in Task \ {t} : /\ step'[s] = step[s] /\ seen'[s] = seen[s]
                               /\ current'[s] = current[s]
  PROVE  Unlost'
<1>1. \A s \in Task : step'[s] # "insertService"
  BY DEF Unlost
<1>2. \A s \in Task : step'[s] = "publish" => seen'[s].services = {0}
  BY DEF Unlost
<1>3. ASSUME revoked = {}
      PROVE  /\ purged = {}
             /\ \A s \in Task : step'[s] = "publish" => current'[s]
             /\ \A u \in User : due[u] # NoVc =>
                  \A s \in due[u] : step'[s] \in {"getDoc", "publish"}
  <2>1. \A u \in User : due[u] # NoVc => due[u] \subseteq Task
    BY TaskType DEF TypeOK
  <2> QED
    BY <1>3, <2>1 DEF Unlost
<1> QED
  BY <1>1, <1>2, <1>3 DEF Unlost

\* A task ends, at another step.
LEMMA FinishUnlost ==
  ASSUME TypeOK, Unlost, NEW t \in Task, Finish(t),
         services' = services, revoked' = revoked, purged' = purged, due' = due,
         step[t] \notin {"getDoc", "publish"}
  PROVE  Unlost'
<1>1. /\ step'[t] = "idle"
      /\ \A s \in Task \ {t} : /\ step'[s] = step[s] /\ seen'[s] = seen[s]
                               /\ current'[s] = current[s]
  BY DEF Finish, TypeOK
<1> QED
  BY <1>1, AsideUnlost

\* A task goes on.
LEMMA GotoUnlost ==
  ASSUME TypeOK, Unlost, NEW t \in Task, NEW n, Goto(t, n),
         UNCHANGED <<services, revoked, purged, due, seen, current>>,
         step[t] \notin {"getDoc", "publish"}, n \notin {"publish", "insertService"}
  PROVE  Unlost'
<1>1. step'[t] = n /\ \A s \in Task \ {t} : step'[s] = step[s]
  BY DEF Goto, TypeOK
<1> QED
  BY <1>1, AsideUnlost

\* A revocation reads the document, and publishes it.
LEMMA RevokeUnlost ==
  ASSUME NothingFails, Going, Unlost, NEW t \in Task, RevokeGetDoc(t) \/ RevokePublish(t)
  PROVE  Unlost'
<1> USE DEF Going
<1>1. CASE RevokeGetDoc(t)
  <2>1. /\ services' = services /\ revoked' = revoked /\ purged' = purged /\ due' = due
        /\ step[t] = "getDoc"
    BY <1>1 DEF RevokeGetDoc, At, history
  <2>2. /\ step'[t] = "publish" /\ seen'[t].services = services /\ current'[t]
        /\ \A s \in Task \ {t} : /\ step'[s] = step[s] /\ seen'[s] = seen[s]
                                 /\ current'[s] = current[s]
    BY <1>1 DEF RevokeGetDoc, ReadDocument, Goto, TypeOK
  <2>3. \A u \in User : due[u] # NoVc => due[u] \subseteq Task
    BY TaskType DEF TypeOK
  <2>4. \A s \in Task : step'[s] # "insertService" /\ (step'[s] = "publish" => seen'[s].services = {0})
    BY <2>2 DEF Unlost
  <2>5. ASSUME revoked = {}
        PROVE  /\ purged = {}
               /\ \A s \in Task : step'[s] = "publish" => current'[s]
               /\ \A u \in User : due[u] # NoVc =>
                    \A s \in due[u] : step'[s] \in {"getDoc", "publish"}
    BY <2>2, <2>3, <2>5 DEF Unlost
  <2> QED
    BY <2>1, <2>4, <2>5 DEF Unlost
<1>2. CASE RevokePublish(t)
  <2>1. step[t] = "publish" /\ seen[t].services = {0}
    BY <1>2 DEF RevokePublish, At, Unlost
  <2>2. Place(index[t])[1] = 0
    <3>1. index[t] \in 0 .. MaxIndex
      BY DEF TypeOK, Index
    <3>2. index[t] \div Size = 0
      BY <3>1, SizeAssumption DEF NothingFails
    <3> QED
      BY <3>2 DEF Place
  <2>3. /\ Publish(t, seen[t].services, seen[t].revoked \cup {Place(index[t])})
        /\ Goto(t, "markRevoked") /\ seen' = seen
    BY <1>2, <2>1, <2>2 DEF RevokePublish, locals
  <2>4. revoked' # {} /\ services' = {0}
    <3>1. CASE services' = seen[t].services /\ revoked' = seen[t].revoked \cup {Place(index[t])}
      BY <2>1, <3>1
    <3>2. CASE ~current[t] /\ services' = services /\ revoked' = revoked
      BY <2>1, <3>2 DEF Unlost
    <3> QED
      BY <2>3, <3>1, <3>2 DEF Publish
  <2>5. step'[t] = "markRevoked" /\ \A s \in Task \ {t} : step'[s] = step[s]
    BY <2>3 DEF Goto, TypeOK
  <2> QED
    BY <2>3, <2>4, <2>5 DEF Unlost
<1> QED
  BY <1>1, <1>2

\* The other steps of tasks, which change no document.
LEMMA TaskUnlost ==
  ASSUME NothingFails, Going, Unlost, NEW t \in Task, TaskStep(t)
  PROVE  Unlost'
<1> USE DEF Going
<1>1. CASE IssueIndex(t)
  BY <1>1, GotoUnlost DEF IssueIndex, At, tangle, history
<1>2. CASE IssueStore(t)
  <2>1. CASE Finish(t)
    BY <1>2, <2>1, FinishUnlost DEF IssueStore, At, history
  <2>2. CASE ~Finish(t)
    BY <1>2, <2>2, GotoUnlost DEF IssueStore, At, history, locals
  <2> QED
    BY <2>1, <2>2
<1>3. CASE IssueGetUser(t)
  <2>1. CASE Finish(t)
    BY <1>3, <2>1, FinishUnlost DEF IssueGetUser, At, history
  <2>2. CASE ~Finish(t)
    BY <1>3, <2>2, GotoUnlost DEF IssueGetUser, At, history
  <2> QED
    BY <2>1, <2>2
<1>4. CASE IssueAddVC(t)
  BY <1>4, FinishUnlost DEF IssueAddVC, At, history
<1>5. CASE RevokeGetDoc(t) \/ RevokePublish(t)
  BY <1>5, RevokeUnlost
<1>6. CASE RevokeMark(t)
  BY <1>6, GotoUnlost DEF RevokeMark, At, tangle, locals, history
<1>7. CASE RevokeGetUser(t)
  <2>1. CASE Finish(t)
    BY <1>7, <2>1, FinishUnlost DEF RevokeGetUser, At, history
  <2>2. CASE ~Finish(t)
    BY <1>7, <2>2, GotoUnlost DEF RevokeGetUser, At, history
  <2> QED
    BY <2>1, <2>2
<1>8. CASE RevokeRemoveVC(t)
  BY <1>8, FinishUnlost DEF RevokeRemoveVC, At
<1> QED
  BY <1>1, <1>2, <1>3, <1>4, <1>5, <1>6, <1>7, <1>8 DEF TaskStep

\* A DELETE begins its revocations, and ends after all of them.
LEMMA DeleteUnlost ==
  ASSUME TypeOK, Unlost, NEW u \in User,
         DeleteUser(u) \/ \E todo \in SUBSET Stored : DeleteStart(u, todo)
  PROVE  Unlost'
<1>0. \A v \in User : due[v] # NoVc => due[v] \subseteq Task
  BY TaskType DEF TypeOK
<1>1. CASE DeleteUser(u)
  <2>1. /\ services' = services /\ revoked' = revoked /\ step' = step /\ seen' = seen
        /\ current' = current /\ due' = [due EXCEPT ![u] = NoVc] /\ purged' = purged \cup due[u]
    BY <1>1 DEF DeleteUser, tangle, locals
  <2>2. revoked = {} => due[u] = {}
    BY <1>1 DEF DeleteUser, At, Unlost
  <2>3. \A v \in User : due'[v] # NoVc => due'[v] = due[v]
    BY <2>1 DEF TypeOK
  <2> QED
    BY <2>1, <2>2, <2>3 DEF Unlost
<1>2. CASE \E todo \in SUBSET Stored : DeleteStart(u, todo)
  <2>1. PICK todo \in SUBSET Stored : DeleteStart(u, todo)
    BY <1>2
  <2>2. /\ services' = services /\ revoked' = revoked /\ purged' = purged /\ seen' = seen
        /\ current' = current /\ due' = [due EXCEPT ![u] = todo]
    BY <2>1 DEF DeleteStart, tangle
  <2>3. \A t \in Task : step'[t] = IF t \in todo THEN "getDoc" ELSE step[t]
    BY <2>1 DEF DeleteStart
  <2>4. todo \subseteq Task
    BY TaskType DEF Stored
  <2>5. \A v \in User : due'[v] = IF v = u THEN todo ELSE due[v]
    BY <2>2 DEF TypeOK
  <2>6. \A t \in Task : /\ step'[t] # "insertService"
                        /\ step'[t] = "publish" => seen[t].services = {0}
    BY <2>3 DEF Unlost
  <2>7. ASSUME revoked = {}
        PROVE  /\ \A t \in Task : step'[t] = "publish" => current[t]
               /\ \A v \in User : due'[v] # NoVc =>
                    \A t \in due'[v] : step'[t] \in {"getDoc", "publish"}
    BY <1>0, <2>3, <2>4, <2>5, <2>7 DEF Unlost
  <2> QED
    BY <2>2, <2>6, <2>7 DEF Unlost
<1> QED
  BY <1>1, <1>2

LEMMA UnlostStep ==
  ASSUME NothingFails, Going, Unlost, [Next]_vars
  PROVE  Unlost'
<1> USE DEF Going
<1>1. CASE \E t \in Task : TaskStep(t)
  BY <1>1, TaskUnlost
<1>2. CASE \E u \in User : DeleteUser(u) \/ \E todo \in SUBSET Stored : DeleteStart(u, todo)
  BY <1>2, DeleteUnlost
<1>3. CASE \E t \in Task : Fail(t)
  BY <1>3 DEF Fail, NothingFails
<1>4. CASE \E t \in Task, u \in User : IssueStart(t, u)
  <2>1. PICK t \in Task, u \in User : IssueStart(t, u)
    BY <1>4
  <2> QED
    BY <2>1, GotoUnlost DEF IssueStart, At, tangle, history
<1>5. CASE \E i \in Index : RevokeStart(i)
  BY <1>5, TaskType, GotoUnlost DEF RevokeStart, At, tangle
<1>6. CASE \E u \in User : PutRead(u)
  BY <1>6, TaskType, GotoUnlost DEF PutRead, At, tangle, history
<1>7. CASE PutWrite
  BY <1>7, TaskType, FinishUnlost DEF PutWrite, At, history
<1>8. CASE SetupStart \/ SetupPublish
  BY <1>8, TaskType DEF SetupStart, SetupPublish, At, NothingFails, Unlost
<1>9. CASE SetupSave
  BY <1>9, TaskType, FinishUnlost DEF SetupSave, At, history
<1>10. CASE \/ CheckRoots
            \/ \E i \in Index : CheckDocument(i)
            \/ \E u \in User : AddUser(u)
            \/ \E r \in Root : AddRoot(r) \/ RemoveRoot(r)
            \/ UNCHANGED vars
  <2>1. UNCHANGED <<services, revoked, purged, due, step, seen, current>>
    BY <1>10 DEF CheckRoots, CheckDocument, AddUser, AddRoot, RemoveRoot, tangle, locals,
                 history, vars
  <2> QED
    BY <2>1 DEF Unlost
<1>11. \/ \E t \in Task : TaskStep(t)
       \/ \E u \in User : DeleteUser(u) \/ \E todo \in SUBSET Stored : DeleteStart(u, todo)
       \/ \E t \in Task : Fail(t)
       \/ \E t \in Task, u \in User : IssueStart(t, u)
       \/ \E i \in Index : RevokeStart(i) \/ CheckDocument(i)
       \/ \E u \in User : PutRead(u) \/ AddUser(u)
       \/ PutWrite \/ SetupStart \/ SetupPublish \/ SetupSave \/ CheckRoots
       \/ \E r \in Root : AddRoot(r) \/ RemoveRoot(r)
       \/ UNCHANGED vars
  BY DEF Next
<1> QED
  BY <1>1, <1>2, <1>3, <1>4, <1>5, <1>6, <1>7, <1>8, <1>9, <1>10, <1>11

\* A DELETE with revoke-credentials that had something to revoke leaves one
\* revocation at least on the Tangle, although all its tasks read the same
\* document and fork it (IdentityRoutes.deleteUser, revokeVerifiableCredential).
THEOREM SpecPurgeRevokes ==
  ASSUME NothingFails
  PROVE  Spec => []PurgeRevokes
<1>1. Init => Unlost
  BY DEF Init, Unlost
<1>2. Going /\ Unlost /\ [Next]_vars => Unlost'
  BY UnlostStep
<1>3. Unlost /\ Wanted => PurgeRevokes
  BY DEF Unlost, Wanted, Places, PurgeRevokes
<1> QED
  BY <1>1, <1>2, <1>3, SpecWanted, GoingInit, GoingStep, PTL DEF Spec
=============================================================================
