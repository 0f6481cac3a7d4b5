------------------------------ MODULE MCProgress ------------------------------
(***************************************************************************)
(* Instances in which something has to be reached: logins, the setup of    *)
(* the bridge, the programs of the client library, the devices of the demo.*)
(*                                                                         *)
(* The modules share no variable: "part" names the instance that moves,    *)
(* the others stay as they began.                                          *)
(***************************************************************************)
EXTENDS Examples, FiniteSets, TLC

CONSTANTS Part,                            \* the instances to check
          alice, admin, root, elsewhere,       \* identities
          phone, console,                  \* programs
          u1, u2, u3, u4, c1, c2,          \* users and channels of the examples
          NoIdent, NoKeys

VARIABLES part,
          roles, nonce, phase, loaded, token, held, disturbed,
          unique, rooted, keys, trusted, service, bitmap, issued, listed,
          secret, server, pc, me, bare, next, crashes,
          facts, nonces, jwts, locks, releasing, at, stage, outcome,
          file, made, channels, note, env, subs, granted, logs, header, retried, doing, faults

login == <<roles, nonce, phase, loaded, token, held, disturbed>>
setup == <<unique, rooted, keys, trusted, service, bitmap, issued, listed,
           secret, server, pc, me, bare, next, crashes>>
calls == <<facts, nonces, jwts, locks, releasing, at, stage, outcome>>
demo == <<file, made, channels, note, env, subs, granted, logs, header, retried, doing, faults>>
all == <<part, login, setup, calls, demo>>

-----------------------------------------------------------------------------
(* Logins.                                                                 *)

\* An administrator and a user, with a program each.
Login == INSTANCE Authentication WITH
  Id <- {alice, admin}, Client <- {phone, console},
  Owner <- (phone :> alice) @@ (console :> admin), FirstAdmin <- admin,
  Event <- {}, role <- roles

-----------------------------------------------------------------------------
\* Two setups at once, which die twice.
Serving == INSTANCE BridgeSetup WITH
  Setup <- {phone, console}, Ident <- {u1, u2}, Secret <- {"old"}, MaxCrashes <- 2, Event <- {},
  root <- rooted

-----------------------------------------------------------------------------
(* Programs of the library: the examples in pairs, and one that tries what *)
(* fails.                                                                  *)

Attempt(q) == Try(AsOwner(q))

Careless ==
  <<AsIdentity(Create(u1))>> \o LogIn("owner", u1)
    \o <<Attempt([Find(u1) EXCEPT !.key = FALSE]), Try(Call("stale", Find(u1))),
         Try(AsUser(Find(u1))), Attempt([Create(u2) EXCEPT !.valid = FALSE]),
         Attempt([Create(u2) EXCEPT !.clean = FALSE]), Attempt(Create(u1)), Attempt(Add(u2)),
         Attempt(Add(u1)), Attempt(Add(elsewhere)), Attempt(Update(u1, TRUE)),
         Attempt(Update(u2, FALSE)), Attempt(Update(u1, FALSE)),
         Attempt(RemoveTrustedAuthority(elsewhere)), Attempt(AddTrustedAuthority(elsewhere)),
         Attempt(CreateCredential(u1, u1)), Attempt(RevokeCredential(u1)),
         Attempt(CreateChannel(c1, TRUE)), Attempt(Write(c1)),
         Attempt([Write(c1) EXCEPT !.shared = TRUE]), Attempt(Reimport(c1)),
         Attempt([Reimport(c1) EXCEPT !.path = <<"channels">> \o @]),
         Attempt([ReadHistory(c1) EXCEPT !.valid = FALSE]), Attempt(ReadHistory(c1)),
         Attempt(VerifyJwt), Attempt(Info(c1)), Attempt(Info(c2)),
         Attempt([Get(<<"identities", "key-pair">>) EXCEPT !.valid = FALSE]),
         Attempt(Post(<<"verification", "check-presentation">>, [expires |-> FALSE])), Attempt(AddInfo(c1, u1)),
         Attempt(AddInfo(c2, u1)), Attempt(UpdateInfo(c1)), Attempt(AddSubscription(c1, u2)),
         Attempt(AddSubscription(c1, u2)), Attempt(UpdateSubscription(c1, u2)),
         Attempt(UpdateSubscription(c2, u2)), Attempt(UpdateSubscription(c1, u3)),
         Attempt(FindSubscription(c1, u3)), Attempt(RemoveSubscription(c1, u3)),
         Attempt(RemoveSubscription(c1, u2)), Attempt(RevokeSubscription(c1, u2)),
         Attempt(RemoveInfo(c1)), Attempt(RemoveInfo(c1))>>

MCScript ==
  ("credential" :> CreateIdentityAndCredential(u1)) @@ ("authorities" :> TrustedAuthorities(u2))
    @@ ("update" :> UpdateExample(u1)) @@ ("delete" :> DeleteExample(u2))
    @@ ("authorize" :> AuthorizeToChannel(u1, u2, c1))
    @@ ("validate" :> SearchChannelAndValidateData(u3, u4, c2))
    @@ ("root" :> MakeRootIdentityAdmin(u1)) @@ ("channel" :> CreateChannelExample(u2, c1))
    @@ ("careless" :> Careless)

\* Which of them run.
Pair == [credentials |-> {"credential", "authorities"}, users |-> {"update", "delete"},
         channels |-> {"authorize", "validate"}, setup |-> {"root", "channel"},
         careless |-> {"careless"}]

Calling == part \in DOMAIN Pair
Running == IF Calling THEN Pair[part] ELSE {}

\* adminIdentity.json is of an administrator with a credential.
Calls == INSTANCE Requests WITH
  Program <- DOMAIN MCScript, Script <- MCScript,
  Identity <- {admin, elsewhere, u1, u2, u3, u4},
  Given <- {<<"document", admin>>, <<"user", admin>>, <<"admin", admin>>, <<"credential", admin>>,
            <<"trusted", root>>},
  nonce <- nonces, token <- jwts, step <- stage

-----------------------------------------------------------------------------
\* A device and the operator, one lost request or killed program.
Demo == INSTANCE SecantDemo WITH
  Device <- {phone}, Operator <- console, MaxChannel <- 2, MaxFaults <- 1, at <- doing

-----------------------------------------------------------------------------
MCInit ==
  /\ part \in Part
  /\ Login!Init /\ Serving!Init /\ Calls!Init /\ Demo!Init

MCNext ==
  /\ UNCHANGED part
  /\ \/ part = "login" /\ Login!Next /\ UNCHANGED <<setup, calls, demo>>
     \/ part = "serving" /\ Serving!Next /\ UNCHANGED <<login, calls, demo>>
     \/ /\ \/ \E p \in Running : Calls!Proceed(p)
           \/ Calls!Unlocking
        /\ UNCHANGED <<login, setup, demo>>
     \/ part = "demo" /\ Demo!Next /\ UNCHANGED <<login, setup, calls>>

MCSpec == MCInit /\ [][MCNext]_all

\* The fairness that each of the modules assumes.
Fairness ==
  /\ \A c \in {phone, console} : WF_login(part = "login" /\ Login!Login(c))
  /\ \A c \in {phone, console} : WF_setup(part = "serving" /\ Serving!SetupStep(c))
  /\ WF_setup(part = "serving" /\ Serving!StartServer)
  /\ \A p \in DOMAIN MCScript : WF_calls(p \in Running /\ Calls!Proceed(p))
  /\ WF_calls(Calls!Unlocking)
  /\ \A c \in {phone, console} : WF_demo(part = "demo" /\ Demo!Progress(c))
  /\ SF_demo(part = "demo" /\ Demo!Start(console))
  /\ SF_demo(part = "demo" /\ Demo!InsertAddress(phone))
  /\ WF_demo(part = "demo" /\ \E s \in subs \ granted : Demo!AuthorizeDevice(s))

FairSpec == MCSpec /\ Fairness

-----------------------------------------------------------------------------
(* Properties.                                                             *)

\* Every variable has its type.
TypesOK ==
  /\ part = "login" => Login!TypeOK
  /\ part = "serving" => Serving!TypeOK
  /\ Calling => Calls!TypeOK
  /\ part = "demo" => Demo!TypeOK

\* Requests reach their handlers, and locks are those of requests; programs
\* that call in a legal order only fail where another one interferes.
RequestsHold ==
  /\ TypesOK
  /\ RightHandler
  /\ Calling => Calls!LocksAreOfRequests /\ Calls!FailsForAReason
  /\ part = "demo" => Demo!OneSubscription /\ Demo!LogsAreGranted

\* What is begun is brought to an end: logins, setups, programs, the logs
\* of a device.
AllGetDone ==
  /\ part = "login" => Login!SoleOwnerLogsIn
  /\ part = "serving" => Serving!ServesUnlessLost
  /\ Calling => <>[](locks = {} /\ \A p \in Running : stage[p] = "ended")
  /\ part = "demo" => Demo!LogsArrive
===============================================================================
