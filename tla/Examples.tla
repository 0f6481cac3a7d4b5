------------------------------- MODULE Examples -------------------------------
(***************************************************************************)
(* The examples of the client library, as sequences of calls.  They make   *)
(* users with random names and share one administrator, whose keys they    *)
(* read from a file.                                                       *)
(***************************************************************************)
EXTENDS ClientSdk, Routes

CONSTANTS Admin,    \* the identity in adminIdentity.json
          External, \* a trusted authority elsewhere
          Nobody    \* of no identity

\* A call: the client that makes it, the request, the route it takes, and
\* whether the program goes on after an error.
Call(client, q) == [by |-> client, q |-> q, route |-> RouteOf(q), try |-> FALSE]
Try(call) == [call EXCEPT !.try = TRUE]

LogIn(client, u) == <<Call(client, AskNonce(u)), Call(client, ProveOwnership(u))>>

AsIdentity(q) == Call("identity", q)
AsOwner(q) == Call("owner", q)
AsUser(q) == Call("user", q)

\* Not a request: the role is written to the database.
ManagerSetRole(u) == AsIdentity(Request("DATABASE", <<>>, [user |-> u]))

MakeRootIdentityAdmin(u) ==
  <<AsIdentity(Create(u)), ManagerSetRole(u)>>
    \o LogIn("identity", u)
    \o <<AsIdentity(CreateCredential(Nobody, u))>>

CreateIdentityAndCredential(u) ==
  LogIn("identity", Admin)
    \o <<AsIdentity(Find(Admin)), AsIdentity(Create(u)), AsIdentity(CreateCredential(Admin, u)),
         AsIdentity(CheckCredential(u))>>

\* The user with the name that is searched for is the one that was created.
UpdateExample(u) ==
  LogIn("identity", Admin)
    \o <<AsIdentity(Create(u)), AsIdentity(Search), AsIdentity(Update(u, FALSE))>>

DeleteExample(u) ==
  LogIn("identity", Admin)
    \o <<AsIdentity(Create(u)), AsIdentity(Search), AsIdentity(Remove(u)),
         AsIdentity(LatestDocument(u))>>

TrustedAuthorities(u) ==
  LogIn("identity", Admin)
    \o <<AsIdentity(Create(u)), AsIdentity(Find(Admin)), AsIdentity(GetTrustedAuthorities),
         AsIdentity(CreateCredential(Admin, u)), AsIdentity(CheckCredential(u)),
         AsIdentity(CheckCredential(External)), Try(AsIdentity(AddTrustedAuthority(External))),
         AsIdentity(GetTrustedAuthorities), AsIdentity(CheckCredential(u)),
         AsIdentity(CheckCredential(External)), AsIdentity(RemoveTrustedAuthority(External))>>

\* Two of the five logs it writes.
CreateChannelExample(u, c) ==
  <<AsIdentity(Create(u))>>
    \o LogIn("owner", u)
    \o <<AsOwner(CreateChannel(c, FALSE)), AsOwner(Write(c)), AsOwner(Write(c)), AsOwner(Read(c))>>

\* The owner and the user of the examples 6 and 7.
TwoUsers(u, v) ==
  <<AsIdentity(Create(u)), AsIdentity(Create(v))>>
    \o LogIn("owner", u) \o LogIn("user", v)

AuthorizeToChannel(u, v, c) ==
  TwoUsers(u, v)
    \o <<AsOwner(CreateChannel(c, FALSE)), AsOwner(Write(c)), Try(AsUser(Read(c))),
         AsUser(RequestSubscription(c, "ReadAndWrite")), AsOwner(FindAllSubscriptions(c)),
         AsOwner(AuthorizeSubscription(c, v)), AsOwner(Write(c)), AsUser(Read(c))>>

SearchChannelAndValidateData(u, v, c) ==
  TwoUsers(u, v)
    \o <<AsOwner(CreateChannel(c, FALSE)), AsUser(SearchChannels),
         AsUser(RequestSubscription(c, "ReadAndWrite")), AsOwner(AuthorizeSubscription(c, v)),
         AsOwner(Write(c)), AsUser(Read(c)), AsUser(Validate(c)), AsUser(Validate(c))>>

-----------------------------------------------------------------------------
\* The handler a method of the library is made for.
Meant(u, c) ==
  {<<AskNonce(u), "getNonce">>, <<ProveOwnership(u), "proveOwnership">>,
   <<Create(u), "createIdentity">>, <<Search, "searchUsers">>, <<Find(u), "getUser">>,
   <<Add(u), "addUser">>, <<Update(u, FALSE), "updateUser">>, <<Remove(u), "deleteUser">>,
   <<LatestDocument(u), "getLatestDocument">>,
   <<AddTrustedAuthority(u), "addTrustedRootIdentity">>,
   <<GetTrustedAuthorities, "getTrustedRootIdentities">>,
   <<RemoveTrustedAuthority(u), "removeTrustedRootIdentity">>,
   <<CreateCredential(u, u), "createVerifiableCredential">>,
   <<CheckCredential(u), "checkVerifiableCredential">>,
   <<RevokeCredential(u), "revokeVerifiableCredential">>, <<VerifyJwt, "verifyJwt">>,
   <<CreateChannel(c, FALSE), "createChannel">>, <<Write(c), "addLog">>, <<Read(c), "getLogs">>,
   <<ReadHistory(c), "getHistory">>, <<Validate(c), "validateLogs">>,
   <<SearchChannels, "searchChannelInfo">>, <<Info(c), "getChannelInfo">>,
   <<AddInfo(c, u), "addChannelInfo">>, <<UpdateInfo(c), "updateChannelInfo">>,
   <<RemoveInfo(c), "deleteChannelInfo">>, <<FindAllSubscriptions(c), "getSubscriptions">>,
   <<FindSubscription(c, u), "getSubscriptionByIdentity">>,
   <<RequestSubscription(c, "Read"), "requestSubscription">>,
   <<AuthorizeSubscription(c, u), "authorizeSubscription">>,
   <<RevokeSubscription(c, u), "revokeSubscription">>,
   <<AddSubscription(c, u), "addSubscription">>,
   <<UpdateSubscription(c, u), "updateSubscription">>,
   <<RemoveSubscription(c, u), "deleteSubscription">>}

\* Every method of the library but reimport (which has no route) reaches the
\* handler it is made for: no route of a router shadows a later one, none
\* has another prefix.
RightHandler == \A m \in Meant(Admin, External) : RouteOf(m[1]).handler = m[2]
===============================================================================
