------------------------------ MODULE ClientSdk ------------------------------
(***************************************************************************)
(* The requests of the client library: one operator per method of          *)
(* IdentityClient and ChannelClient.  A path is the sequence of its        *)
(* segments after the version; of a body only what the handlers look at    *)
(* is kept.                                                                *)
(***************************************************************************)
EXTENDS Sequences

CONSTANT Nothing  \* no body

\* BaseClient: every request has the api key, and the JWT once there is one.
Request(method, path, body) ==
  [method |-> method, path |-> path, body |-> body, shared |-> FALSE,
   key |-> TRUE, valid |-> TRUE, clean |-> TRUE]

Get(path) == Request("GET", path, Nothing)
Post(path, body) == Request("POST", path, body)
Put(path, body) == Request("PUT", path, body)
Delete(path) == Request("DELETE", path, Nothing)

-----------------------------------------------------------------------------
(* BaseClient.authenticate: two requests.                                  *)

AskNonce(u) == Get(<<"authentication", "prove-ownership", u>>)

ProveOwnership(u) == Post(<<"authentication", "prove-ownership", u>>, [signedNonce |-> TRUE])

-----------------------------------------------------------------------------
(* IdentityClient.                                                         *)

Create(u) == Post(<<"identities", "create">>, [user |-> u])
Search == Get(<<"identities", "search">>)
Find(u) == Get(<<"identities", "identity", u>>)
Add(u) == Post(<<"identities", "identity">>, [user |-> u])
Update(u, role) == Put(<<"identities", "identity">>, [user |-> u, role |-> role])
Remove(u) == Delete(<<"identities", "identity", u>>)
LatestDocument(u) == Get(<<"verification", "latest-document", u>>)
AddTrustedAuthority(u) == Post(<<"verification", "trusted-roots">>, [root |-> u])
GetTrustedAuthorities == Get(<<"verification", "trusted-roots">>)
RemoveTrustedAuthority(u) == Delete(<<"verification", "trusted-roots", u>>)

CreateCredential(initiator, u) ==
  Post(<<"verification", "create-credential">>, [initiator |-> initiator, user |-> u])

CheckCredential(u) == Post(<<"verification", "check-credential">>, [user |-> u])
RevokeCredential(u) == Post(<<"verification", "revoke-credential">>, [user |-> u])
VerifyJwt == Post(<<"authentication", "verify-jwt">>, [jwt |-> TRUE])

-----------------------------------------------------------------------------
(* ChannelClient.                                                          *)

\* plus: a channel of type privatePlus.
CreateChannel(c, plus) == Post(<<"channels", "create">>, [channel |-> c, plus |-> plus])

Write(c) == Post(<<"channels", "logs", c>>, [log |-> TRUE])
Read(c) == Get(<<"channels", "logs", c>>)
ReadHistory(c) == Get(<<"channels", "history", c>>)
Validate(c) == Post(<<"channels", "validate", c>>, [log |-> TRUE])
Reimport(c) == Post(<<"re-import", c>>, Nothing)

SearchChannels == Get(<<"channel-info", "search">>)
Info(c) == Get(<<"channel-info", "channel", c>>)
AddInfo(c, u) == Post(<<"channel-info", "channel">>, [channel |-> c, author |-> u])
UpdateInfo(c) == Put(<<"channel-info", "channel">>, [channel |-> c])
RemoveInfo(c) == Delete(<<"channel-info", "channel", c>>)

FindAllSubscriptions(c) == Get(<<"subscriptions", c>>)
FindSubscription(c, u) == Get(<<"subscriptions", c, u>>)

\* rights: what is asked for; ReadAndWrite when nothing is.
RequestSubscription(c, rights) ==
  Post(<<"subscriptions", "request", c>>, [rights |-> rights])

\* The id or the link of a subscription; both find it here.
AuthorizeSubscription(c, u) == Post(<<"subscriptions", "authorize", c>>, [user |-> u])
RevokeSubscription(c, u) == Post(<<"subscriptions", "revoke", c>>, [user |-> u])
AddSubscription(c, u) == Post(<<"subscriptions", c, u>>, [user |-> u])
UpdateSubscription(c, u) == Put(<<"subscriptions", c, u>>, [user |-> u])
RemoveSubscription(c, u) == Delete(<<"subscriptions", c, u>>)
===============================================================================
