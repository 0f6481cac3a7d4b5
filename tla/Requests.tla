------------------------------- MODULE Requests -------------------------------
(***************************************************************************)
(* Programs of the client library against the two services: every request  *)
(* goes through the middlewares of its route, the request lock and the     *)
(* handler, whose answer decides how the program goes on.                  *)
(*                                                                         *)
(* What the services store is a set of facts.  A handler is one step here; *)
(* what may happen within it is in the modules of its component, and what  *)
(* the request lock guarantees is in ConcurrencyLock.                      *)
(***************************************************************************)
EXTENDS Routes

CONSTANTS Program,   \* running programs
          Script,    \* the calls each of them makes
          Identity,  \* identities
          Given,     \* the facts at the beginning
          Nobody     \* of no identity, no program

VARIABLES facts,      \* what the databases and the Tangle have
          nonce,      \* the program that got an identity's nonce
          token,      \* the JWTs of a program's clients
          locks,      \* collection concurrency-locks
          releasing,  \* the locks that answered requests will remove
          at, step,   \* where a program is
          outcome     \* how it ended

vars == <<facts, nonce, token, locks, releasing, at, step, outcome>>

\* Clients: of identities, two of channels, one whose JWT has expired.
Client == {"identity", "owner", "user", "stale"}
NoToken == [user |-> Nobody, admin |-> FALSE, expired |-> FALSE]

Init ==
  /\ facts = Given
  /\ nonce = [u \in Identity |-> Nobody]
  /\ token = [p \in Program |->
       [c \in Client |-> IF c = "stale" THEN [NoToken EXCEPT !.expired = TRUE] ELSE NoToken]]
  /\ locks = {} /\ releasing = {}
  /\ at = [p \in Program |-> 1] /\ step = [p \in Program |-> "ready"]
  /\ outcome = [p \in Program |-> <<"running", "">>]

TheCall(p) == Script[p][at[p]]
Q(p) == TheCall(p).q
Session(p) == token[p][TheCall(p).by]
Me(p) == Session(p).user
Handler(p) == TheCall(p).route.handler

-----------------------------------------------------------------------------
(* Answers of handlers: a status, and the facts that are made and removed. *)
(* Of a request, s is the session it is made with, q what it asks for.     *)

Answer(status) == [status |-> status, made |-> {}, gone |-> {}]
Made(status, new) == [Answer(status) EXCEPT !.made = new]
Gone(status, old) == [Answer(status) EXCEPT !.gone = old]

Has(fact) == fact \in facts
Owns(s, u) == s.user = u \/ s.admin

-----------------------------------------------------------------------------
(* IdentityRoutes and AuthenticationRoutes.                                *)

\* Hidden users are searched and shown as well, if not all of them (Users);
\* of a user that is not there nothing is shown.
SearchUsers == Answer("200")
GetUser == Answer("200")

\* The type of the keys is a parameter no middleware looks at.
NewKeyPair(q) == IF q.valid THEN Answer("200") ELSE Answer("400")

CreateIdentity(q) ==
  IF Has(<<"user", q.body.user>>) THEN Answer("409")
  ELSE Made("201", {<<"document", q.body.user>>, <<"user", q.body.user>>})

AddUser(q) ==
  IF Has(<<"user", q.body.user>>) THEN Answer("409")
  ELSE IF ~Has(<<"document", q.body.user>>) THEN Answer("500")
  ELSE Made("201", {<<"user", q.body.user>>})

UpdateUser(s, q) ==
  IF ~Owns(s, q.body.user) \/ (q.body.role /\ ~s.admin) THEN Answer("500")
  ELSE IF ~Has(<<"user", q.body.user>>) THEN Answer("404")
  ELSE Answer("200")

DeleteUser(s, q) ==
  IF ~Owns(s, q.path[3]) THEN Answer("500")
  ELSE Gone("200", {<<"user", q.path[3]>>, <<"admin", q.path[3]>>})

\* getNonce: whoever asks replaces the nonce of the identity.
NewNonce(p) == [nonce EXCEPT ![Q(p).path[3]] = p]
GetNonce == Answer("200")

\* verifyJwt: a JWT that is not valid is an answer too.
VerifyToken == Answer("200")

\* authenticate: the nonce that is stored must be the one that was signed.
Authenticate(p, q) ==
  IF Has(<<"document", q.path[3]>>) /\ nonce[q.path[3]] = p THEN Answer("200") ELSE Answer("500")

-----------------------------------------------------------------------------
(* VerificationRoutes.                                                     *)

\* getTrustedRootIds throws when there are none; so do both checks.
GetTrustedRoots == IF \E f \in facts : f[1] = "trusted" THEN Answer("200") ELSE Answer("500")

CheckCredentialOf == GetTrustedRoots

\* A presentation must say when it expires.
CheckPresentation(q) == IF q.body.expires THEN GetTrustedRoots ELSE Answer("400")

GetLatestDocument(q) == IF Has(<<"document", q.path[3]>>) THEN Answer("200") ELSE Answer("500")

AddTrustedRoot(s, q) ==
  IF ~s.admin THEN Answer("401")
  ELSE IF Has(<<"trusted", q.body.root>>) THEN Answer("500")
  ELSE Made("200", {<<"trusted", q.body.root>>})

RemoveTrustedRoot(s, q) ==
  IF ~s.admin THEN Answer("401")
  ELSE IF ~Has(<<"trusted", q.path[3]>>) THEN Answer("500")
  ELSE Gone("200", {<<"trusted", q.path[3]>>})

\* Whoever is no administrator needs an own credential.
MayIssue(s, q) ==
  s.admin \/ (q.body.initiator = s.user /\ Has(<<"credential", s.user>>))

IssueCredential(s, q) ==
  IF MayIssue(s, q) THEN Made("200", {<<"credential", q.body.user>>}) ELSE Answer("500")

RevokeCredentialOf(s, q) ==
  IF Has(<<"credential", q.body.user>>) /\ Owns(s, q.body.user)
  THEN Gone("200", {<<"credential", q.body.user>>}) ELSE Answer("500")

-----------------------------------------------------------------------------
(* ChannelRoutes.                                                          *)

Plus(c) == Has(<<"plus", c>>)
Subscribed(u, c) == Has(<<"authorized", c, u>>)
Wrongly(q, c) == q.shared # Plus(c)

\* The gateway asks the bridge for the encryption key of a privatePlus author.
NewChannel(s, q) ==
  LET c == q.body.channel IN
  IF Has(<<"channel", c>>) THEN Answer("409")
  ELSE IF q.body.plus /\ ~Has(<<"document", s.user>>) THEN Answer("500")
  ELSE Made("201", {<<"channel", c>>, <<"author", c, s.user>>, <<"requested", c, s.user>>,
                    <<"authorized", c, s.user>>, <<"state", c, s.user>>}
                     \cup (IF q.body.plus THEN {<<"plus", c>>} ELSE {}))

GetLogs(s, q) ==
  LET c == q.path[3] IN
  IF Wrongly(q, c) THEN Answer("400")
  ELSE IF Subscribed(s.user, c) /\ ~Has(<<"write only", c, s.user>>) THEN Answer("200")
  ELSE Answer("500")

GetHistory(q) == IF q.valid THEN Answer("200") ELSE Answer("400")

AddLog(s, q) ==
  LET c == q.path[3] IN
  IF Wrongly(q, c) THEN Answer("400")
  ELSE IF Subscribed(s.user, c) /\ ~Has(<<"read only", c, s.user>>)
       THEN Made("200", {<<"logs", c>>}) ELSE Answer("500")

ReimportLogs(s, q) == GetLogs(s, q)

ValidateLogs(s, q) ==
  LET c == q.path[3] IN
  IF Wrongly(q, c) \/ ~q.body.log THEN Answer("400")
  ELSE GetLogs(s, q)

-----------------------------------------------------------------------------
(* ChannelInfoRoutes.                                                      *)

Author(u, c) == Has(<<"author", c, u>>)

\* Channels that are hidden from the user are left out (ChannelVisibility).
SearchInfo == Answer("200")

\* Of a channel that is not there the visibility list is cut off as well,
\* for everybody but administrators: that throws.
ChannelInfoOf(s, q) ==
  IF Has(<<"channel", q.path[3]>>) \/ s.admin THEN Answer("200") ELSE Answer("500")

AddChannelInfo(s, q) ==
  IF ~Owns(s, q.body.author) \/ Has(<<"channel", q.body.channel>>) THEN Answer("500")
  ELSE Made("201", {<<"channel", q.body.channel>>})

MayChange(s, c) == Has(<<"channel", c>>) /\ (Author(s.user, c) \/ s.admin)

UpdateChannelInfo(s, q) ==
  IF MayChange(s, q.body.channel) THEN Answer("200") ELSE Answer("500")

DeleteChannelInfo(s, q) ==
  LET c == q.path[3] IN
  IF MayChange(s, c) THEN Gone("200", {<<"channel", c>>, <<"plus", c>>}) ELSE Answer("500")

-----------------------------------------------------------------------------
(* SubscriptionRoutes.                                                     *)

Requested(u, c) == Has(<<"requested", c, u>>)

\* Whoever is logged in may read them, of any channel; of a channel that is
\* not there, or a user without one, the answer is empty.
ListSubscriptions == Answer("200")
FindSubscriptionOf == Answer("200")

\* Whoever adds a subscription says itself whether it is authorized.
AddSubscriptionTo(q) ==
  IF Requested(q.body.user, q.path[2]) THEN Answer("400")
  ELSE Made("201", {<<"requested", q.path[2], q.body.user>>})

UpdateOneSubscription(s, q) ==
  IF s.user # q.path[3] /\ ~Author(s.user, q.path[2]) THEN Answer("401")
  ELSE IF ~Requested(q.path[3], q.path[2]) THEN Answer("404")
  ELSE Answer("200")

Subscription(c, u) == {f \in facts : f[1] \in {"requested", "authorized", "author"}
                                     /\ f[2] = c /\ f[3] = u}

DeleteOneSubscription(s, q) ==
  IF s.user # q.path[3] /\ ~Author(s.user, q.path[2]) THEN Answer("401")
  ELSE IF ~Requested(q.path[3], q.path[2]) THEN Answer("404")
  ELSE Gone("200", Subscription(q.path[2], q.path[3]))

RequestOne(s, q) ==
  LET c == q.path[3] IN
  IF Requested(s.user, c) \/ Wrongly(q, c) THEN Answer("400")
  ELSE Made("201", {<<"requested", c, s.user>>, <<"state", c, s.user>>}
                     \cup CASE q.body.rights = "Read" -> {<<"read only", c, s.user>>}
                            [] q.body.rights = "Write" -> {<<"write only", c, s.user>>}
                            [] OTHER -> {})

RevokeOne(s, q) ==
  LET c == q.path[3] IN
  IF ~Author(s.user, c) THEN Answer("400")
  ELSE IF ~Requested(q.body.user, c) THEN Answer("500")
  ELSE IF Wrongly(q, c) THEN Answer("400")
  ELSE Gone("200", Subscription(c, q.body.user))

AuthorizeOne(s, q) ==
  LET c == q.path[3] IN
  IF ~Requested(q.body.user, c) THEN Answer("500")
  ELSE IF Subscribed(q.body.user, c) \/ ~Author(s.user, c) \/ Wrongly(q, c) THEN Answer("400")
  ELSE Made("200", {<<"authorized", c, q.body.user>>})

\* A subscription that was added by hand has no state; reading or updating
\* a state that is not there throws.
StateOf(s, q) == IF Has(<<"state", q.path[3], s.user>>) THEN Answer("200") ELSE Answer("500")
-----------------------------------------------------------------------------
(* The middlewares and the handlers.                                       *)

\* hasValidApiKey.
KeyVerdict(p) == IF Q(p).key THEN "next" ELSE "401"

\* isAuth.  jwt.verify throws on a token that has expired: that is an error,
\* not a missing login.
AuthVerdict(p) ==
  IF Session(p).expired THEN "500" ELSE IF Me(p) = Nobody THEN "401" ELSE "next"

\* validate, with what errorMiddleware makes of its error.
BodyVerdict(p) == IF Q(p).valid THEN "next" ELSE "400"

\* mongodbSanitizer.
CleanVerdict(p) == IF Q(p).clean THEN "next" ELSE "400"

Verdict(p, middleware) ==
  CASE middleware = "key" -> KeyVerdict(p)
    [] middleware = "auth" -> AuthVerdict(p)
    [] middleware = "body" -> BodyVerdict(p)
    [] middleware = "clean" -> CleanVerdict(p)
    [] OTHER -> "next"

\* The answer of the first middleware that has one.
Chain(p) == TheCall(p).route.chain
Refusals(p) == SelectSeq(Chain(p), LAMBDA middleware : Verdict(p, middleware) # "next")
Refusal(p) == Verdict(p, Head(Refusals(p)))

Handle(p, s, q, handler) ==
  CASE handler = "createIdentity" -> CreateIdentity(q)
    [] handler = "addUser" -> AddUser(q)
    [] handler = "searchUsers" -> SearchUsers
    [] handler = "getUser" -> GetUser
    [] handler = "getKeyPair" -> NewKeyPair(q)
    [] handler = "updateUser" -> UpdateUser(s, q)
    [] handler = "deleteUser" -> DeleteUser(s, q)
    [] handler = "getNonce" -> GetNonce
    [] handler = "proveOwnership" -> Authenticate(p, q)
    [] handler = "verifyJwt" -> VerifyToken
    [] handler = "getLatestDocument" -> GetLatestDocument(q)
    [] handler = "checkVerifiableCredential" -> CheckCredentialOf
    [] handler = "checkVerifiablePresentation" -> CheckPresentation(q)
    [] handler = "getTrustedRootIdentities" -> GetTrustedRoots
    [] handler = "addTrustedRootIdentity" -> AddTrustedRoot(s, q)
    [] handler = "removeTrustedRootIdentity" -> RemoveTrustedRoot(s, q)
    [] handler = "createVerifiableCredential" -> IssueCredential(s, q)
    [] handler = "revokeVerifiableCredential" -> RevokeCredentialOf(s, q)
    [] handler = "createChannel" -> NewChannel(s, q)
    [] handler = "getLogs" -> GetLogs(s, q)
    [] handler = "getHistory" -> GetHistory(q)
    [] handler = "addLog" -> AddLog(s, q)
    [] handler = "reimport" -> ReimportLogs(s, q)
    [] handler = "validateLogs" -> ValidateLogs(s, q)
    [] handler = "searchChannelInfo" -> SearchInfo
    [] handler = "getChannelInfo" -> ChannelInfoOf(s, q)
    [] handler = "addChannelInfo" -> AddChannelInfo(s, q)
    [] handler = "updateChannelInfo" -> UpdateChannelInfo(s, q)
    [] handler = "deleteChannelInfo" -> DeleteChannelInfo(s, q)
    [] handler = "getSubscriptions" -> ListSubscriptions
    [] handler = "getSubscriptionByIdentity" -> FindSubscriptionOf
    [] handler = "addSubscription" -> AddSubscriptionTo(q)
    [] handler = "updateSubscription" -> UpdateOneSubscription(s, q)
    [] handler = "deleteSubscription" -> DeleteOneSubscription(s, q)
    [] handler = "requestSubscription" -> RequestOne(s, q)
    [] handler = "revokeSubscription" -> RevokeOne(s, q)
    [] handler = "authorizeSubscription" -> AuthorizeOne(s, q)
    [] handler \in {"getSubscriptionState", "updateSubscriptionState"} -> StateOf(s, q)
    [] handler = "getServerInfo" -> Answer("200")

\* basicLock and channelLock: a channel is locked for each of its users.
LockOf(p) ==
  IF "credential lock" \in {Chain(p)[n] : n \in DOMAIN Chain(p)} THEN <<"credential">>
  ELSE <<"channel", Q(p).path[3], Me(p)>>

IsLocked(p) == \E n \in DOMAIN Chain(p) : Chain(p)[n] \in {"credential lock", "channel lock"}

-----------------------------------------------------------------------------
(* A request under way.                                                    *)

Ok == {"200", "201"}

\* The program gets its answer and goes on, or stops with the error.
Answered(p, status, where) ==
  IF status \notin Ok /\ ~TheCall(p).try
  THEN /\ outcome' = [outcome EXCEPT ![p] = <<status, where>>]
       /\ step' = [step EXCEPT ![p] = "ended"]
       /\ UNCHANGED at
  ELSE IF at[p] = Len(Script[p])
  THEN /\ outcome' = [outcome EXCEPT ![p] = <<"done", "">>]
       /\ step' = [step EXCEPT ![p] = "ended"]
       /\ UNCHANGED at
  ELSE /\ at' = [at EXCEPT ![p] = @ + 1]
       /\ step' = [step EXCEPT ![p] = "ready"]
       /\ UNCHANGED outcome

Go(p, s) == step' = [step EXCEPT ![p] = s] /\ UNCHANGED <<at, outcome>>

\* Manager.setRole writes to the database itself.
SetRole(p) ==
  /\ step[p] = "ready" /\ Q(p).method = "DATABASE"
  /\ facts' = IF Has(<<"user", Q(p).body.user>>) THEN facts \cup {<<"admin", Q(p).body.user>>}
              ELSE facts
  /\ Answered(p, "200", "database")
  /\ UNCHANGED <<nonce, token, locks, releasing>>

\* Express finds the route, and its synchronous middlewares run; without a
\* route the answer is 404.
Send(p) ==
  /\ step[p] = "ready" /\ Q(p).method # "DATABASE"
  /\ IF TheCall(p).route = NoRoute THEN Answered(p, "404", "express")
     ELSE IF Refusals(p) # <<>> THEN Answered(p, Refusal(p), "middleware")
     ELSE Go(p, IF IsLocked(p) THEN "looking" ELSE "handling")
  /\ UNCHANGED <<facts, nonce, token, locks, releasing>>

\* An answered request removes its lock later, whoever's it is by then.
Unlock(p) == releasing' = IF IsLocked(p) THEN releasing \cup {<<p, at[p], LockOf(p)>>} ELSE releasing

Look(p) ==
  /\ step[p] = "looking"
  /\ IF LockOf(p) \in locks THEN Answered(p, "423", "lock") /\ Unlock(p)
     ELSE Go(p, "inserting") /\ UNCHANGED releasing
  /\ UNCHANGED <<facts, nonce, token, locks>>

\* A lock that was inserted meanwhile makes this one throw, and remove it.
Insert(p) ==
  /\ step[p] = "inserting"
  /\ IF LockOf(p) \in locks
     THEN Answered(p, "500", "lock") /\ Unlock(p) /\ locks' = locks \ {LockOf(p)}
     ELSE Go(p, "handling") /\ locks' = locks \cup {LockOf(p)} /\ UNCHANGED releasing
  /\ UNCHANGED <<facts, nonce, token>>

\* The handler runs; the answer of the login has the JWT.
Run(p) ==
  LET answer == Handle(p, Session(p), Q(p), Handler(p)) IN
  /\ step[p] = "handling"
  /\ facts' = (facts \ answer.gone) \cup answer.made
  /\ nonce' = IF Handler(p) = "getNonce" THEN NewNonce(p) ELSE nonce
  /\ token' = IF Handler(p) = "proveOwnership" /\ answer.status = "200"
              THEN [token EXCEPT ![p][TheCall(p).by] =
                     [NoToken EXCEPT !.user = Q(p).path[3], !.admin = Has(<<"admin", Q(p).path[3]>>)]]
              ELSE token
  /\ Answered(p, answer.status, Handler(p))
  /\ Unlock(p)
  /\ UNCHANGED locks

\* The listener of "finish" removes the lock.
Release(r) ==
  /\ releasing' = releasing \ {r}
  /\ locks' = locks \ {r[3]}
  /\ UNCHANGED <<facts, nonce, token, at, step, outcome>>

-----------------------------------------------------------------------------
Proceed(p) == SetRole(p) \/ Send(p) \/ Look(p) \/ Insert(p) \/ Run(p)
Unlocking == \E r \in releasing : Release(r)

Next == (\E p \in Program : Proceed(p)) \/ Unlocking

Spec == Init /\ [][Next]_vars

\* Requests are answered, and listeners are called.
FairSpec == Spec /\ WF_vars(Unlocking) /\ \A p \in Program : WF_vars(Proceed(p))

-----------------------------------------------------------------------------
(* Properties.                                                             *)

TypeOK ==
  /\ \A f \in facts : Len(f) \in 2..3
  /\ nonce \in [Identity -> Program \cup {Nobody}]
  /\ \A p \in Program, c \in Client : token[p][c].user \in Identity \cup {Nobody}
  /\ \A p \in Program : at[p] \in 1..Len(Script[p])
  /\ step \in [Program -> {"ready", "looking", "inserting", "handling", "ended"}]

\* A lock in the database is that of a request that is being handled, or
\* of one that was answered and is about to remove it.
LocksAreOfRequests ==
  \A l \in locks : \/ \E r \in releasing : r[3] = l
                   \/ \E p \in Program : step[p] = "handling" /\ IsLocked(p) /\ LockOf(p) = l

\* A program whose calls are in a legal order fails for one of these: the
\* resource was locked, two requests locked it at once, or another program
\* with the same keys got a nonce in between.
Excused(p) ==
  \/ outcome[p] \in {<<"running", "">>, <<"done", "">>}
  \/ outcome[p] \in {<<"423", "lock">>, <<"500", "lock">>}
  \/ /\ outcome[p] = <<"500", "proveOwnership">>
     /\ nonce[Q(p).path[3]] # p

FailsForAReason == \A p \in Program : Excused(p)

\* Every program ends, and no lock is left behind.
AllEnd == <>[](locks = {} /\ \A p \in Program : step[p] = "ended")
===============================================================================
