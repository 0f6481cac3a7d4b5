---------------------------- MODULE EShopCheckout ----------------------------
(***************************************************************************)
(* The e-shop demo: a page of a browser in which a customer puts items     *)
(* into a cart, has a credential verified by the bridge, authenticates as  *)
(* its owner and checks out.  React state is assigned at once; a click     *)
(* that calls the backend goes on when the answer is there, with the       *)
(* credential it saw when it was clicked, whatever was clicked meanwhile.  *)
(*                                                                         *)
(* proved, owner of the token and order are history variables.             *)
(***************************************************************************)
EXTENDS Naturals, FiniteSets

CONSTANTS Item,
          Restricted,   \* the items with an age restriction
          Credential,
          Demo,         \* the credentials to select, others are uploaded
          IdOf,         \* the identity that a credential is about
          OwnId,        \* the identity whose key the customer has
          DemoId,       \* the identity whose key is REACT_APP_SECRET_KEY
          MaxPending,   \* bound on the answers a page waits for
          None

ASSUME ItemAssumption == Restricted \subseteq Item
ASSUME CredentialAssumption == Demo \subseteq Credential
ASSUME NoneAssumption == None \notin Credential /\ None \notin BOOLEAN /\ None \notin {OwnId, DemoId}

VARIABLES page,           \* "shop" or "checkout"
          items,          \* the cart
          file,           \* credentialFile, state of VerifyCredential
          credential, isVerified, useOwnCredential, authenticated,  \* UserContext
          jwt,            \* the token in the axios client and in localStorage
          verifying,      \* credentials whose verdict is awaited
          authenticating, \* <<identity, own key>> whose token is awaited
          valid,          \* what the bridge takes for valid and trusted
          proved,         \* what it once answered that of
          order           \* the last order

user == <<credential, isVerified, useOwnCredential, authenticated>>
vars == <<page, items, file, user, jwt, verifying, authenticating, valid, proved, order>>

Init ==
  /\ page = "shop" /\ items = {} /\ file = None
  /\ credential = None /\ isVerified = None /\ useOwnCredential = FALSE
  /\ authenticated = FALSE
  /\ jwt = None
  /\ verifying = {} /\ authenticating = {}
  /\ valid \in SUBSET Credential
  /\ proved = {}
  /\ order = None

\* VerifyCredential is there, and keeps its state, as long as there is
\* something restricted to check out.
Mounted == page = "checkout" /\ items \cap Restricted # {}

\* Variant that a property must tell apart: the file is kept.
KeepFile == file' = file

KeepIfMounted == file' = IF Mounted' THEN file ELSE None

-----------------------------------------------------------------------------
(* The cart.                                                               *)

AddToCart(i) ==
  /\ page = "shop"
  /\ i \notin items
  /\ items' = items \cup {i}
  /\ UNCHANGED <<page, file, user, jwt, verifying, authenticating, valid, proved, order>>

RemoveFromCart(i) ==
  /\ page = "checkout"
  /\ i \in items
  /\ items' = items \ {i}
  /\ UNCHANGED page
  /\ KeepIfMounted
  /\ UNCHANGED <<user, jwt, verifying, authenticating, valid, proved, order>>

GoTo(p) ==
  /\ p # page
  /\ page' = p
  /\ UNCHANGED items
  /\ KeepIfMounted
  /\ UNCHANGED <<user, jwt, verifying, authenticating, valid, proved, order>>

-----------------------------------------------------------------------------
(* VerifyCredential.                                                       *)

\* onCredentialChange.  The file of the former choice stays with 'own'.
Select(c) ==
  /\ Mounted
  /\ c \in Demo \cup {None}
  /\ isVerified' = None /\ credential' = None
  /\ useOwnCredential' = (c = None)
  /\ file' = IF c = None THEN file ELSE c
  /\ UNCHANGED <<page, items, authenticated, jwt, verifying, authenticating, valid, proved, order>>

\* onFileChange.
Upload(c) ==
  /\ Mounted
  /\ useOwnCredential
  /\ file' = c
  /\ isVerified' = None /\ credential' = None
  /\ UNCHANGED <<page, items, useOwnCredential, authenticated, jwt, verifying, authenticating,
                 valid, proved, order>>

\* onVerify, up to its call.
Verify ==
  /\ Mounted
  /\ file # None
  /\ Cardinality(verifying) < MaxPending
  /\ isVerified' = None
  /\ verifying' = verifying \cup {file}
  /\ UNCHANGED <<page, items, file, credential, useOwnCredential, authenticated, jwt,
                 authenticating, valid, proved, order>>

\* Variant that a property must tell apart: the verdict is taken for one
\* about the credential that is selected when it comes.
VerdictOfSelected(c, verdict) ==
  /\ c \in verifying
  /\ verdict \in {(c \in valid), None}
  /\ verifying' = verifying \ {c}
  /\ isVerified' = verdict /\ credential' = file
  /\ proved' = IF verdict = TRUE THEN proved \cup {c} ELSE proved
  /\ UNCHANGED <<page, items, file, useOwnCredential, authenticated, jwt, authenticating,
                 valid, order>>

\* onVerify goes on; without a verdict the server could not be reached.
Verdict(c, verdict) ==
  /\ c \in verifying
  /\ verdict \in {(c \in valid), None}
  /\ verifying' = verifying \ {c}
  /\ isVerified' = verdict /\ credential' = c
  /\ proved' = IF verdict = TRUE THEN proved \cup {c} ELSE proved
  /\ UNCHANGED <<page, items, file, useOwnCredential, authenticated, jwt, authenticating,
                 valid, order>>

-----------------------------------------------------------------------------
(* AuthenticateCredential.                                                 *)

\* onAuthenticate, up to its call; the component shows once isVerified is
\* true, the button as long as nobody is authenticated.
Authenticate ==
  /\ Mounted
  /\ isVerified = TRUE
  /\ ~authenticated
  /\ Cardinality(authenticating) < MaxPending
  /\ authenticating' = authenticating \cup {<<IdOf[credential], useOwnCredential>>}
  /\ UNCHANGED <<page, items, file, user, jwt, verifying, valid, proved, order>>

HasKey(id, own) == id = IF own THEN OwnId ELSE DemoId

\* onAuthenticate goes on: authSignedNonce gave a token, or it threw.
Token(a, ok) ==
  /\ a \in authenticating
  /\ ok => HasKey(a[1], a[2])
  /\ authenticating' = authenticating \ {a}
  /\ jwt' = IF ok THEN a[1] ELSE jwt
  /\ authenticated' = ok
  /\ UNCHANGED <<page, items, file, credential, isVerified, useOwnCredential, verifying, valid,
                 proved, order>>

\* Variant that a property must tell apart: the token alone is removed.
DropToken ==
  /\ authenticated
  /\ jwt' = None
  /\ UNCHANGED <<page, items, file, user, verifying, authenticating, valid, proved, order>>

\* logout, of the header and of 'Restart tour'.
Logout ==
  /\ authenticated
  /\ authenticated' = FALSE
  /\ jwt' = None
  /\ UNCHANGED <<page, items, file, credential, isVerified, useOwnCredential, verifying,
                 authenticating, valid, proved, order>>

-----------------------------------------------------------------------------
(* CheckoutTotal.                                                          *)

\* Variant that a property must tell apart: one of the two is enough.
VerifiedOrAuthenticated ==
  \/ isVerified = TRUE \/ authenticated
  \/ items \cap Restricted = {} /\ items # {}

\* showCheckoutButton.
CanCheckOut ==
  \/ isVerified = TRUE /\ authenticated
  \/ items \cap Restricted = {} /\ items # {}

Checkout ==
  /\ page = "checkout"
  /\ CanCheckOut
  /\ order' = [items |-> items, credential |-> credential, jwt |-> jwt]
  /\ isVerified' = None
  /\ items' = {}
  /\ file' = None
  /\ UNCHANGED <<page, credential, useOwnCredential, authenticated, jwt, verifying,
                 authenticating, valid, proved>>

-----------------------------------------------------------------------------
\* The page is loaded anew: what is left is the token in localStorage.
Reload ==
  /\ page' = "shop" /\ items' = {} /\ file' = None
  /\ credential' = None /\ isVerified' = None /\ useOwnCredential' = FALSE
  /\ authenticated' = (jwt # None)
  /\ verifying' = {} /\ authenticating' = {}
  /\ UNCHANGED <<jwt, valid, proved, order>>

\* The bridge revokes a credential or its issuer is no trusted root any more.
Revoke(c) ==
  /\ c \in valid
  /\ valid' = valid \ {c}
  /\ UNCHANGED <<page, items, file, user, jwt, verifying, authenticating, proved, order>>

Next ==
  \/ \E i \in Item : AddToCart(i) \/ RemoveFromCart(i)
  \/ \E p \in {"shop", "checkout"} : GoTo(p)
  \/ \E c \in Demo \cup {None} : Select(c)
  \/ \E c \in Credential : Upload(c) \/ Revoke(c)
  \/ Verify \/ Authenticate \/ Logout \/ Checkout \/ Reload
  \/ \E c \in verifying, verdict \in BOOLEAN \cup {None} : Verdict(c, verdict)
  \/ \E a \in authenticating, ok \in BOOLEAN : Token(a, ok)

Spec == Init /\ [][Next]_vars

-----------------------------------------------------------------------------
(* Properties.                                                             *)

TypeOK ==
  /\ page \in {"shop", "checkout"} /\ items \subseteq Item
  /\ file \in Credential \cup {None} /\ (file # None => Mounted)
  /\ credential \in Credential \cup {None}
  /\ isVerified \in BOOLEAN \cup {None} /\ useOwnCredential \in BOOLEAN
  /\ authenticated \in BOOLEAN
  /\ jwt \in {None, OwnId, DemoId}
  /\ verifying \subseteq Credential

\* Whatever is selected while verdicts are on their way: what counts as
\* verified is a credential that the bridge found valid.
VerdictIsOfCredential == isVerified = TRUE => credential \in proved

\* Logging in and out, reloading, late answers: who is authenticated has a
\* token.
AuthenticatedHasToken == authenticated => jwt # None

\* Restricted items are ordered with a credential that was found valid, by
\* somebody with a token.
OrderHasProof ==
  order # None /\ order.items \cap Restricted # {}
  => order.credential \in proved /\ order.jwt # None
===============================================================================
