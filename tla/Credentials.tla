----------------------------- MODULE Credentials -----------------------------
(***************************************************************************)
(* Verifiable credentials of the SSI bridge: VerificationService over      *)
(* SsiService (the server's identity document on the Tangle, with the      *)
(* revocation bitmaps in it), the collection of credentials, the users and *)
(* their lists of credentials, the trusted roots.                          *)
(*                                                                         *)
(* A task is one flow of asynchronous calls: the route that holds the      *)
(* credential lock, the tool setup-admin-identity, the bitmap part of      *)
(* setup-api, a client's GET and PUT of a user, and, for a DELETE with     *)
(* revoke-credentials, one task per credential (its number is the task).   *)
(* Only the first of them runs under the lock (see ConcurrencyLock).       *)
(*                                                                         *)
(* asked, answered, due and purged are history variables.                  *)
(***************************************************************************)
EXTENDS Naturals, FiniteSets, FiniteSetsExt

CONSTANTS User,       \* ids of identities that get credentials
          Root,       \* ids that can be trusted roots
          Server,     \* the server's identity, issuer of all credentials
          Size,       \* bitmapSize: credentials per bitmap
          MaxIndex,   \* bound: the last credential of this instance
          ListLimit,  \* maxNumberOfVc
          Event,      \* what else may happen in this instance
          NoVc        \* no credential has this index

ASSUME UserAssumption == User # {}
ASSUME ServerAssumption == Server \in Root
ASSUME SizeAssumption == Size \in Nat \ {0} /\ MaxIndex \in Nat
ASSUME EventAssumption ==
         Event \subseteq {"tool", "setup", "purge", "delete", "put", "fail", "roots", "check"}
ASSUME NoVcAssumption ==
         NoVc \notin [subject : User, isRevoked : BOOLEAN, status : Nat \X Nat]

Index == 0 .. MaxIndex
Route == MaxIndex + 1
Tool == MaxIndex + 2
Setup == MaxIndex + 3
Client == MaxIndex + 4
Task == 0 .. Client

VARIABLES
  services,  \* latest identity document: the bitmaps it has
  revoked,   \* latest identity document: <<bitmap, position>> that are set
  stored,    \* collection verifiable-credentials, by index
  saved,     \* collection revocation-bitmap: indexes of bitmaps
  users,     \* collection users: "none", "user", or "ghost", which has no id
  list,      \* the verifiableCredentials of a user
  roots,     \* collection trusted-roots
  step,      \* where a task is
  index,     \* the credential a task issues or revokes
  subject,   \* the user a task writes to
  bitmap,    \* the bitmap a task found for its credential
  seen,      \* the identity document a task read
  current,   \* no document was published since a task read it
  seenList,  \* the user's credentials a task read
  due,       \* what a DELETE under way promised to revoke, or NoVc
  check,     \* a check of a credential
  asked, answered, purged

tangle == <<services, revoked, current>>
userDocs == <<users, list>>
locals == <<index, subject, bitmap, seen, seenList>>
history == <<asked, answered, purged>>
vars == <<tangle, stored, saved, userDocs, roots, step, locals, due, check, history>>

\* where revokeVerifiableCredential looks for the credential with an index.
Place(i) == <<i \div Size, i % Size>>

Stored == {i \in Index : stored[i] # NoVc}

\* getNextCredentialIndex.
NextIndex == IF Stored = {} THEN 0 ELSE Max(Stored) + 1

NoDoc == [services |-> {}, revoked |-> {}]
AnyUser == CHOOSE u \in User : TRUE

Init ==
  /\ services = {0} /\ revoked = {}
  /\ stored = [i \in Index |-> NoVc]
  /\ saved = {0}
  /\ users = [u \in User |-> "none"] /\ list = [u \in User |-> {}]
  /\ roots = {Server}
  /\ step = [t \in Task |-> "idle"]
  /\ index = [t \in Task |-> 0]
  /\ subject = [t \in Task |-> AnyUser]
  /\ bitmap = [t \in Task |-> 0]
  /\ seen = [t \in Task |-> NoDoc]
  /\ current = [t \in Task |-> FALSE]
  /\ seenList = [t \in Task |-> {}]
  /\ due = [u \in User |-> NoVc]
  /\ check = [at |-> "idle", of |-> 0, valid |-> FALSE, known |-> FALSE]
  /\ asked = {} /\ answered = {} /\ purged = {}

-----------------------------------------------------------------------------
(* Tasks.                                                                  *)

At(t, s) == step[t] = s
Goto(t, s) == step' = [step EXCEPT ![t] = s]

\* The task returned or threw: nothing it read is left.
Finish(t) ==
  /\ step' = [step EXCEPT ![t] = "idle"]
  /\ index' = [index EXCEPT ![t] = 0]
  /\ subject' = [subject EXCEPT ![t] = AnyUser]
  /\ bitmap' = [bitmap EXCEPT ![t] = 0]
  /\ seen' = [seen EXCEPT ![t] = NoDoc]
  /\ current' = [current EXCEPT ![t] = FALSE]
  /\ seenList' = [seenList EXCEPT ![t] = {}]

\* An error or a restart of the process, at whatever step.
Fail(t) ==
  /\ "fail" \in Event
  /\ ~At(t, "idle")
  /\ Finish(t)
  /\ UNCHANGED <<services, revoked, stored, saved, userDocs, roots, due, check, history>>

\* resolver.resolve: the latest document and its message id.
ReadDocument(t) ==
  /\ seen' = [seen EXCEPT ![t] = [services |-> services, revoked |-> revoked]]
  /\ current' = [current EXCEPT ![t] = TRUE]

\* publishSignedDoc with the message id that was read.  A document that
\* does not follow the latest one starts a fork: which of the two counts is
\* up to the Tangle, and the caller is not told.
Publish(t, s, r) ==
  \/ /\ services' = s
     /\ revoked' = r
     /\ current' = [x \in Task |-> FALSE]
  \/ /\ ~current[t]
     /\ UNCHANGED <<services, revoked, current>>

-----------------------------------------------------------------------------
(* Variants of the code that a property must tell apart from it.           *)

\* The index is taken, then the user's list is written, never the credential.
ListWithoutStoring(t) ==
  /\ At(t, "index")
  /\ NextIndex \in Index
  /\ index' = [index EXCEPT ![t] = NextIndex]
  /\ Goto(t, "getUser")
  /\ UNCHANGED <<tangle, stored, saved, userDocs, roots, bitmap, subject, seen,
                 seenList, due, check, history>>

\* addUserVC starts from an empty list.
ForgetOldList(t) ==
  /\ At(t, "getUser")
  /\ Goto(t, "addVC")
  /\ UNCHANGED <<tangle, stored, saved, userDocs, roots, locals, due, check, history>>

\* the document is published with the bits that p makes of the old ones.
PublishBits(t, p) ==
  /\ At(t, "publish")
  /\ Publish(t, seen[t].services, p)
  /\ Goto(t, "markRevoked")
  /\ UNCHANGED <<stored, saved, userDocs, locals, roots, due, check, history>>

\* revokeCredentials flips the bit.
FlipBit(t) ==
  LET place == {Place(index[t])} IN
  PublishBits(t, (seen[t].revoked \cup place) \ (seen[t].revoked \cap place))

\* the position is off by one.
NextBit(t) == PublishBits(t, seen[t].revoked \cup {Place(index[t] + 1)})

\* a failed publishing is not noticed.
PublishNothing(t) == PublishBits(t, seen[t].revoked)

\* the document of the credential is replaced, not updated.
ReplaceByRevoked(t) ==
  /\ At(t, "markRevoked")
  /\ stored' = [stored EXCEPT ![index[t]] = [isRevoked |-> TRUE]]
  /\ Goto(t, "getOwner")
  /\ UNCHANGED <<tangle, saved, userDocs, roots, locals, due, check, history>>

\* one failed revocation makes Promise.all fail.
DeleteIfAllRevoked(u) ==
  /\ due[u] # NoVc
  /\ due[u] \subseteq answered
  /\ users' = [users EXCEPT ![u] = "none"]
  /\ list' = [list EXCEPT ![u] = {}]
  /\ purged' = purged \cup due[u]
  /\ due' = [due EXCEPT ![u] = NoVc]
  /\ UNCHANGED <<tangle, stored, saved, roots, step, locals, check, asked, answered>>

\* the validator is not asked, only the bitmap is looked for.
HasBitmap(i) == stored[i].status[1] \in services

-----------------------------------------------------------------------------
(* issueVerifiableCredential, by POST create-credential or the admin tool. *)

\* The first getNextCredentialIndex, for the bitmap.
IssueStart(t, u) ==
  /\ t = Route \/ (t = Tool /\ "tool" \in Event)
  /\ At(t, "idle")
  /\ NextIndex \in Index
  /\ bitmap' = [bitmap EXCEPT ![t] = NextIndex \div Size]
  /\ subject' = [subject EXCEPT ![t] = u]
  /\ Goto(t, "index")
  /\ UNCHANGED <<tangle, stored, saved, userDocs, roots, index, seen, seenList, due,
                 check, history>>

\* The second one, for the index and the position.
IssueIndex(t) ==
  /\ At(t, "index")
  /\ NextIndex \in Index
  /\ index' = [index EXCEPT ![t] = NextIndex]
  /\ Goto(t, "store")
  /\ UNCHANGED <<tangle, stored, saved, userDocs, roots, bitmap, subject, seen,
                 seenList, due, check, history>>

\* The signed credential names its bitmap and its position in it.
NewCredential(t) ==
  [subject |-> subject[t], isRevoked |-> FALSE, status |-> <<bitmap[t], index[t] % Size>>]

\* It is inserted; a taken index throws.
IssueStore(t) ==
  /\ At(t, "store")
  /\ \/ /\ stored[index[t]] = NoVc
        /\ stored' = [stored EXCEPT ![index[t]] = NewCredential(t)]
        /\ Goto(t, "getUser")
        /\ UNCHANGED <<locals, current>>
     \/ /\ stored[index[t]] # NoVc
        /\ Finish(t)
        /\ UNCHANGED stored
  /\ UNCHANGED <<services, revoked, saved, userDocs, roots, due, check, history>>

\* addUserVC reads the user; a full list throws.
IssueGetUser(t) ==
  /\ At(t, "getUser")
  /\ \/ /\ Cardinality(list[subject[t]]) < ListLimit
        /\ seenList' = [seenList EXCEPT ![t] = list[subject[t]]]
        /\ Goto(t, "addVC")
        /\ UNCHANGED <<index, subject, bitmap, seen, current>>
     \/ /\ Cardinality(list[subject[t]]) >= ListLimit
        /\ Finish(t)
  /\ UNCHANGED <<services, revoked, stored, saved, userDocs, roots, due, check, history>>

\* The list is written back with an upsert: a user that is not there, or no
\* longer, becomes a document without an id.
IssueAddVC(t) ==
  /\ At(t, "addVC")
  /\ list' = [list EXCEPT ![subject[t]] = seenList[t] \cup {index[t]}]
  /\ users' = [users EXCEPT ![subject[t]] = IF @ = "none" THEN "ghost" ELSE @]
  /\ Finish(t)
  /\ UNCHANGED <<services, revoked, stored, saved, roots, due, check, history>>

-----------------------------------------------------------------------------
(* revokeVerifiableCredential, by POST revoke-credential or by a DELETE.   *)

\* The credential is found by its signature; a revoked one is found again.
RevokeStart(i) ==
  /\ At(Route, "idle")
  /\ i \in Stored
  /\ index' = [index EXCEPT ![Route] = i]
  /\ asked' = asked \cup {i}
  /\ Goto(Route, "getDoc")
  /\ UNCHANGED <<tangle, stored, saved, userDocs, roots, subject, bitmap, seen,
                 seenList, due, check, answered, purged>>

\* restoreIdentity.
RevokeGetDoc(t) ==
  /\ At(t, "getDoc")
  /\ ReadDocument(t)
  /\ Goto(t, "publish")
  /\ UNCHANGED <<services, revoked, stored, saved, userDocs, roots, index, subject,
                 bitmap, seenList, due, check, history>>

\* revokeCredentials sets the bit in the document that was read and throws
\* when it has no such bitmap; the document is published.
RevokePublish(t) ==
  LET place == Place(index[t]) IN
  /\ At(t, "publish")
  /\ \/ /\ place[1] \in seen[t].services
        /\ Publish(t, seen[t].services, seen[t].revoked \cup {place})
        /\ Goto(t, "markRevoked")
        /\ UNCHANGED locals
     \/ /\ place[1] \notin seen[t].services
        /\ Finish(t)
        /\ UNCHANGED <<services, revoked>>
  /\ UNCHANGED <<stored, saved, userDocs, roots, due, check, history>>

\* isRevoked is set in the database.
RevokeMark(t) ==
  /\ At(t, "markRevoked")
  /\ stored' = [stored EXCEPT ![index[t]].isRevoked = TRUE]
  /\ Goto(t, "getOwner")
  /\ UNCHANGED <<tangle, saved, userDocs, roots, locals, due, check, history>>

\* removeUserVC reads the user and throws when there is none.
RevokeGetUser(t) ==
  LET u == stored[index[t]].subject IN
  /\ At(t, "getOwner")
  /\ \/ /\ users[u] # "none"
        /\ seenList' = [seenList EXCEPT ![t] = list[u]]
        /\ Goto(t, "removeVC")
        /\ UNCHANGED <<index, subject, bitmap, seen, current>>
     \/ /\ users[u] = "none"
        /\ Finish(t)
  /\ UNCHANGED <<services, revoked, stored, saved, userDocs, roots, due, check, history>>

\* The list without the credential is written back, if the user is still
\* there; then the route answers.
RevokeRemoveVC(t) ==
  LET u == stored[index[t]].subject IN
  /\ At(t, "removeVC")
  /\ \/ /\ users[u] # "none"
        /\ list' = [list EXCEPT ![u] = seenList[t] \ {index[t]}]
        /\ answered' = answered \cup {index[t]}
     \/ /\ users[u] = "none"
        /\ UNCHANGED <<list, answered>>
  /\ Finish(t)
  /\ UNCHANGED <<services, revoked, stored, saved, users, roots, due, check, asked, purged>>

-----------------------------------------------------------------------------
(* Users: POST, PUT and DELETE of an identity, none of them locked.        *)

\* addUser inserts; any document with this id, a ghost too, makes it throw.
AddUser(u) ==
  /\ users[u] = "none"
  /\ users' = [users EXCEPT ![u] = "user"]
  /\ UNCHANGED <<tangle, stored, saved, list, roots, step, locals, due, check, history>>

\* A client reads its user to send it back changed.
PutRead(u) ==
  /\ "put" \in Event
  /\ At(Client, "idle") /\ users[u] = "user"
  /\ subject' = [subject EXCEPT ![Client] = u]
  /\ seenList' = [seenList EXCEPT ![Client] = list[u]]
  /\ Goto(Client, "put")
  /\ UNCHANGED <<tangle, stored, saved, userDocs, roots, index, bitmap, seen, due,
                 check, history>>

\* updateUser sets the list to what the client sends: 404 without the user,
\* an error with a full list.
PutWrite ==
  LET u == subject[Client] IN
  /\ At(Client, "put")
  /\ \/ /\ users[u] # "none" /\ Cardinality(seenList[Client]) < ListLimit
        /\ list' = [list EXCEPT ![u] = seenList[Client]]
     \/ /\ users[u] = "none" \/ Cardinality(seenList[Client]) >= ListLimit
        /\ UNCHANGED list
  /\ Finish(Client)
  /\ UNCHANGED <<services, revoked, stored, saved, users, roots, due, check, history>>

\* deleteUser; with revoke-credentials one task per credential of the user
\* that is not marked revoked is started, all at once.
DeleteStart(u, todo) ==
  /\ due[u] = NoVc
  /\ \/ "delete" \in Event /\ todo = {}
     \/ /\ "purge" \in Event
        /\ todo = {i \in Stored : stored[i].subject = u /\ ~stored[i].isRevoked}
  /\ due' = [due EXCEPT ![u] = todo]
  /\ asked' = asked \cup todo
  /\ step' = [t \in Task |-> IF t \in todo THEN "getDoc" ELSE step[t]]
  /\ index' = [t \in Task |-> IF t \in todo THEN t ELSE index[t]]
  /\ UNCHANGED <<tangle, stored, saved, userDocs, roots, subject, bitmap, seen,
                 seenList, check, answered, purged>>

\* Promise.all: every revocation came to an end, errors were logged only.
\* The user is deleted and the request answered.
DeleteUser(u) ==
  /\ due[u] # NoVc
  /\ \A t \in due[u] : At(t, "idle")
  /\ users' = [users EXCEPT ![u] = "none"]
  /\ list' = [list EXCEPT ![u] = {}]
  /\ purged' = purged \cup due[u]
  /\ due' = [due EXCEPT ![u] = NoVc]
  /\ UNCHANGED <<tangle, stored, saved, roots, step, locals, check, asked, answered>>

-----------------------------------------------------------------------------
(* getBitmap in setup-api: the bitmap of the next credential.              *)

SetupStart ==
  LET b == NextIndex \div Size IN
  /\ "setup" \in Event
  /\ At(Setup, "idle") /\ b \notin saved
  /\ bitmap' = [bitmap EXCEPT ![Setup] = b]
  /\ ReadDocument(Setup)
  /\ Goto(Setup, "insertService")
  /\ UNCHANGED <<services, revoked, stored, saved, userDocs, roots, index, subject,
                 seenList, due, check, history>>

\* insertService leaves a bitmap that is there as it is.
SetupPublish ==
  /\ At(Setup, "insertService")
  /\ Publish(Setup, seen[Setup].services \cup {bitmap[Setup]}, seen[Setup].revoked)
  /\ Goto(Setup, "saveBitmap")
  /\ UNCHANGED <<stored, saved, userDocs, roots, locals, due, check, history>>

SetupSave ==
  /\ At(Setup, "saveBitmap")
  /\ saved' = saved \cup {bitmap[Setup]}
  /\ Finish(Setup)
  /\ UNCHANGED <<services, revoked, stored, userDocs, roots, due, check, history>>

-----------------------------------------------------------------------------
(* Trusted roots and checkVerifiableCredential.                            *)

AddRoot(r) ==
  /\ "roots" \in Event /\ r \notin roots
  /\ roots' = roots \cup {r}
  /\ UNCHANGED <<tangle, stored, saved, userDocs, step, locals, due, check, history>>

RemoveRoot(r) ==
  /\ "roots" \in Event /\ r \in roots
  /\ roots' = roots \ {r}
  /\ UNCHANGED <<tangle, stored, saved, userDocs, step, locals, due, check, history>>

\* CredentialValidator: no bitmap or a set position make it throw.
IsValid(i) ==
  /\ stored[i].status[1] \in services
  /\ stored[i].status \notin revoked

\* ssiService.checkVerifiableCredential against the latest document.
CheckDocument(i) ==
  /\ "check" \in Event
  /\ check.at # "roots"
  /\ i \in Stored
  /\ check' = [at |-> "roots", of |-> i, valid |-> IsValid(i), known |-> i \in answered]
  /\ UNCHANGED <<tangle, stored, saved, userDocs, roots, step, locals, due, history>>

\* The trusted roots are read after it; without any the route fails.
CheckRoots ==
  /\ check.at = "roots"
  /\ check' = [check EXCEPT
       !.at = CASE roots = {} -> "error"
                [] roots # {} /\ check.valid /\ Server \in roots -> "true"
                [] OTHER -> "false"]
  /\ UNCHANGED <<tangle, stored, saved, userDocs, roots, step, locals, due, history>>

-----------------------------------------------------------------------------
TaskStep(t) ==
  \/ IssueIndex(t) \/ IssueStore(t) \/ IssueGetUser(t) \/ IssueAddVC(t)
  \/ RevokeGetDoc(t) \/ RevokePublish(t) \/ RevokeMark(t)
  \/ RevokeGetUser(t) \/ RevokeRemoveVC(t)

Next ==
  \/ \E t \in Task : TaskStep(t) \/ Fail(t)
  \/ \E t \in Task, u \in User : IssueStart(t, u)
  \/ \E i \in Index : RevokeStart(i) \/ CheckDocument(i)
  \/ \E u \in User : AddUser(u) \/ PutRead(u) \/ DeleteUser(u)
  \/ \E u \in User : \E todo \in SUBSET Stored : DeleteStart(u, todo)
  \/ PutWrite \/ SetupStart \/ SetupPublish \/ SetupSave \/ CheckRoots
  \/ \E r \in Root : AddRoot(r) \/ RemoveRoot(r)

Spec == Init /\ [][Next]_vars

\* node runs the steps of every task it started, the Tangle and the database
\* answer.  Nobody has to send a request.
Fairness ==
  /\ \A t \in Task : WF_vars(TaskStep(t))
  /\ \A u \in User : WF_vars(DeleteUser(u))

FairSpec == Spec /\ Fairness

-----------------------------------------------------------------------------
(* Properties.                                                             *)

Step == {"idle", "index", "store", "getUser", "addVC", "getDoc", "publish",
         "markRevoked", "getOwner", "removeVC", "put", "insertService", "saveBitmap"}
BitmapIds == 0 .. MaxIndex \div Size + 1
Doc == [services : SUBSET BitmapIds, revoked : SUBSET (BitmapIds \X (0 .. Size - 1))]
Vc == [subject : User, isRevoked : BOOLEAN, status : BitmapIds \X (0 .. Size - 1)]

\* Every variable has its type.
TypeOK ==
  /\ [services |-> services, revoked |-> revoked] \in Doc
  /\ stored \in [Index -> Vc \cup {NoVc}]
  /\ saved \subseteq BitmapIds
  /\ users \in [User -> {"none", "user", "ghost"}]
  /\ list \in [User -> SUBSET Index]
  /\ roots \subseteq Root
  /\ step \in [Task -> Step]
  /\ index \in [Task -> Index] /\ subject \in [Task -> User]
  /\ bitmap \in [Task -> BitmapIds]
  /\ seen \in [Task -> Doc] /\ current \in [Task -> BOOLEAN]
  /\ seenList \in [Task -> SUBSET Index]
  /\ due \in [User -> (SUBSET Index) \cup {NoVc}]
  /\ check \in [at : {"idle", "roots", "true", "false", "error"}, of : Index,
                valid : BOOLEAN, known : BOOLEAN]
  /\ asked \subseteq Index /\ answered \subseteq Index /\ purged \subseteq Index

\* A credential the database calls revoked is revoked on the Tangle, whatever
\* fails between the two writes, and its signed status points at the very
\* position revokeVerifiableCredential computes from its index.
RevokedOnTangle ==
  \A i \in Stored :
    /\ stored[i].status = Place(i)
    /\ stored[i].isRevoked => Place(i) \in revoked

\* checkVerifiableCredential never says true of a credential whose
\* revocation had come to its end before the document was read.
CheckHonoursRevocation == check.at = "true" => ~check.known

\* No credential loses its validity because of another: a position is set on
\* the Tangle only if the revocation of the credential it stands for was
\* asked for.
RevocationIsExact == revoked \subseteq {Place(i) : i \in asked}

\* As long as nothing but the locked routes publishes the identity document or
\* issues credentials: what the database and the answers say of a credential
\* is what the Tangle says, whatever fails on the way.
RevocationHolds == RevokedOnTangle /\ CheckHonoursRevocation /\ RevocationIsExact

\* When nothing is under way a user's list holds its credentials that are
\* not revoked, although issue and revoke read it, change it and write it
\* back.
ListIsCurrent ==
  (\A t \in Task : At(t, "idle")) =>
    \A u \in User : list[u] = {i \in Stored : stored[i].subject = u /\ ~stored[i].isRevoked}

\* Whatever is interleaved, a user's list holds only credentials that were
\* stored for that user, so each of them can be found and revoked.
ListedAreOwn ==
  \A u \in User : \A i \in list[u] : i \in Stored /\ stored[i].subject = u

\* "If true all credentials will be revoked and deleted": a DELETE with
\* revoke-credentials has them revoked at once, each from the document it
\* read.  One publication may undo another, but never do all get lost.
PurgeRevokes == purged # {} => \E i \in asked : Place(i) \in revoked

\* A DELETE is answered and its user gone, even if revocations of its
\* credentials fail.
DeleteEnds == \A u \in User : (due[u] # NoVc) ~> (due[u] = NoVc)

\* What a credential is worth, for the registry that the bridge implements.
Standing == [i \in Index |-> IF stored[i] = NoVc THEN "none"
                             ELSE IF stored[i].status \in revoked THEN "revoked"
                             ELSE "valid"]

Registry == INSTANCE CredentialRegistry WITH
  Credential <- Index, standing <- Standing, wanted <- asked

\* Under the lock the bridge is a registry in which every credential is
\* issued once and revoked for good, and only on request.
ImplementsRegistry == Registry!Spec
=============================================================================
