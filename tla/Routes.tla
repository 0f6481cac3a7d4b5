-------------------------------- MODULE Routes --------------------------------
(***************************************************************************)
(* The routers of the two services: which requests reach which handler,    *)
(* and through which middlewares.  Both are deployed behind one gateway,   *)
(* so their paths are in one table.                                        *)
(***************************************************************************)
EXTENDS Naturals, Sequences

\* A segment of a pattern that matches any segment of a path.
Param == ":"

Route(method, path, chain, handler) ==
  [method |-> method, path |-> path, chain |-> chain, handler |-> handler]

\* Middlewares, in their order: apiKeyMiddleware, authMiddleWare, validate,
\* mongodbSanitizer; and of the routes that lock, the lock.
ByKey == <<"key">>
ByUser == <<"key", "auth">>
ByUserWithBody == <<"key", "auth", "body", "clean">>
Locked(lock) == Append(ByUserWithBody, lock)

-----------------------------------------------------------------------------
(* ssi-bridge/identities.                                                  *)

PostCreate == Route("POST", <<"create">>, <<"key", "body", "clean">>, "createIdentity")
GetKeyPair == Route("GET", <<"key-pair">>, <<"key", "clean">>, "getKeyPair")
GetSearch == Route("GET", <<"search">>, ByUser, "searchUsers")
GetIdentity == Route("GET", <<"identity", Param>>, ByUser, "getUser")
PostIdentity == Route("POST", <<"identity">>, <<"key", "body", "clean">>, "addUser")
PutIdentity == Route("PUT", <<"identity">>, ByUserWithBody, "updateUser")
DeleteIdentity == Route("DELETE", <<"identity", Param>>, ByUser, "deleteUser")

(* ssi-bridge/authentication.                                              *)

GetProof == Route("GET", <<"prove-ownership", Param>>, ByKey, "getNonce")
PostProof == Route("POST", <<"prove-ownership", Param>>, <<"key", "clean", "body">>, "proveOwnership")
PostVerifyJwt == Route("POST", <<"verify-jwt">>, <<"key", "clean", "body">>, "verifyJwt")

(* ssi-bridge/verification.                                                *)

GetLatest == Route("GET", <<"latest-document", Param>>, ByKey, "getLatestDocument")
PostRoots == Route("POST", <<"trusted-roots">>, ByUserWithBody, "addTrustedRootIdentity")
GetRoots == Route("GET", <<"trusted-roots">>, ByKey, "getTrustedRootIdentities")
DeleteRoot == Route("DELETE", <<"trusted-roots", Param>>, ByUser, "removeTrustedRootIdentity")
PostCredential ==
  Route("POST", <<"create-credential">>, Locked("credential lock"), "createVerifiableCredential")
PostCheck ==
  Route("POST", <<"check-credential">>, <<"key", "body", "clean">>, "checkVerifiableCredential")
PostPresentation ==
  Route("POST", <<"check-presentation">>, <<"key", "body", "clean">>, "checkVerifiablePresentation")
PostRevocation ==
  Route("POST", <<"revoke-credential">>, Locked("credential lock"), "revokeVerifiableCredential")

(* audit-trail-gw/channels.                                                *)

PostChannel == Route("POST", <<"create">>, ByUserWithBody, "createChannel")
PostLog == Route("POST", <<"logs", Param>>, Locked("channel lock"), "addLog")
GetLogsOf == Route("GET", <<"logs", Param>>, <<"key", "auth", "channel lock">>, "getLogs")
GetHistoryOf == Route("GET", <<"history", Param>>, ByKey, "getHistory")
PostValidate == Route("POST", <<"validate", Param>>, Locked("channel lock"), "validateLogs")
PostReimport ==
  Route("POST", <<"re-import", Param>>, <<"key", "auth", "clean", "channel lock">>, "reimport")

(* audit-trail-gw/channel-info.                                            *)

GetInfoSearch == Route("GET", <<"search">>, ByUser, "searchChannelInfo")
GetInfo == Route("GET", <<"channel", Param>>, ByUser, "getChannelInfo")
PostInfo == Route("POST", <<"channel">>, ByUserWithBody, "addChannelInfo")
PutInfo == Route("PUT", <<"channel">>, ByUserWithBody, "updateChannelInfo")
DeleteInfo == Route("DELETE", <<"channel", Param>>, ByUser, "deleteChannelInfo")

(* audit-trail-gw/subscriptions; three of them look at the body first.     *)

BodyFirst == <<"key", "body", "auth", "clean">>

GetState == Route("GET", <<"state", Param>>, ByUser, "getSubscriptionState")
PutState == Route("PUT", <<"state", Param>>, BodyFirst, "updateSubscriptionState")
GetSubscriptions == Route("GET", <<Param>>, ByUser, "getSubscriptions")
GetSubscription == Route("GET", <<Param, Param>>, ByUser, "getSubscriptionByIdentity")
PostRequest == Route("POST", <<"request", Param>>, Locked("channel lock"), "requestSubscription")
PostAuthorize == Route("POST", <<"authorize", Param>>, Locked("channel lock"), "authorizeSubscription")
PostRevoke == Route("POST", <<"revoke", Param>>, Locked("channel lock"), "revokeSubscription")
PostSubscription == Route("POST", <<Param, Param>>, BodyFirst, "addSubscription")
PutSubscription == Route("PUT", <<Param, Param>>, BodyFirst, "updateSubscription")
DeleteSubscription == Route("DELETE", <<Param, Param>>, ByUser, "deleteSubscription")

GetServerInfo == Route("GET", <<"info">>, <<>>, "getServerInfo")

-----------------------------------------------------------------------------
\* useRouter: the routes of a router, under its prefix.
Under(prefix, routes) ==
  [n \in DOMAIN routes |-> [routes[n] EXCEPT !.path = <<prefix>> \o @]]

BridgeRoutes ==
  Under("identities", <<PostCreate, GetKeyPair, GetSearch, GetIdentity, PostIdentity,
                        PutIdentity, DeleteIdentity>>)
    \o Under("authentication", <<GetProof, PostProof, PostVerifyJwt>>)
    \o Under("verification", <<GetLatest, PostRoots, GetRoots, DeleteRoot, PostCredential,
                               PostCheck, PostPresentation, PostRevocation>>)
    \o <<GetServerInfo>>

\* Variant that a property must tell apart: the general route comes first.
GeneralFirst ==
  Under("channel-info", <<GetInfoSearch, GetInfo, PostInfo, PutInfo, DeleteInfo>>)
    \o Under("channels", <<PostChannel, PostLog, GetLogsOf, GetHistoryOf, PostValidate,
                           PostReimport>>)
    \o Under("subscriptions", <<GetState, PutState, GetSubscriptions, GetSubscription,
                                PostSubscription, PostRequest, PostAuthorize, PostRevoke,
                                PutSubscription, DeleteSubscription>>)

GatewayRoutes ==
  Under("channel-info", <<GetInfoSearch, GetInfo, PostInfo, PutInfo, DeleteInfo>>)
    \o Under("channels", <<PostChannel, PostLog, GetLogsOf, GetHistoryOf, PostValidate,
                           PostReimport>>)
    \o Under("subscriptions", <<GetState, PutState, GetSubscriptions, GetSubscription,
                                PostRequest, PostAuthorize, PostRevoke, PostSubscription,
                                PutSubscription, DeleteSubscription>>)

AllRoutes == BridgeRoutes \o GatewayRoutes

Matches(route, q) ==
  /\ route.method = q.method
  /\ Len(route.path) = Len(q.path)
  /\ \A n \in DOMAIN route.path : route.path[n] \in {Param, q.path[n]}

NoRoute == Route("", <<>>, <<>>, "")

\* Express tries the routes in their order.
Reached(q) == SelectSeq(AllRoutes, LAMBDA route : Matches(route, q))
RouteOf(q) == Head(Append(Reached(q), NoRoute))
===============================================================================
