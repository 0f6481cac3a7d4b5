---------------------------- MODULE NetworkOfTrust ----------------------------
(***************************************************************************)
(* Who may make the bridge issue and revoke credentials, and whose         *)
(* credentials it accepts: VerificationRoutes with AuthorizationService,   *)
(* the verification of an initiator's credential and of presentations, and *)
(* the trusted roots.  How a credential is issued and revoked on the       *)
(* Tangle is in Credentials, how a user gets the token in Authentication.  *)
(*                                                                         *)
(* The fields via, then, by and known, and who revoked, are history.        *)
(***************************************************************************)
EXTENDS Naturals, FiniteSets, Sequences

CONSTANTS User,
          Caller,      \* those who ask for credentials in this instance
          Privileged,  \* users with the role of an admin or a manager
          Admin,       \* those with the role of an admin
          Server,      \* the identity of this bridge
          Other,       \* the identity of another organization's bridge
          UserType,    \* claim types of this instance
          VcType,      \* credential types of this instance
          MaxVc,       \* bound on the credentials of both bridges
          MaxShown,    \* bound on the credentials of a presentation
          None

VARIABLES vcs,      \* all credentials, in the order in which they were issued
          revoked,  \* <<credential, who revoked it>>
          roots,    \* collection trusted-roots
          task,     \* a user's POST create-credential
          vp        \* a POST check-presentation

vars == <<vcs, revoked, roots, task, vp>>

Vc == DOMAIN vcs
Revoked == {r[1] : r \in revoked}

Init ==
  /\ vcs = <<>>
  /\ revoked = {}
  /\ roots = {Server}
  /\ task = [u \in User |-> None]
  /\ vp = None

\* The credential is on the Tangle and not revoked there.
IsValid(c) == c \notin Revoked

-----------------------------------------------------------------------------
(* Variants of the code that a property must tell apart from it.           *)

\* a valid credential of whatever issuer lets its subject issue others.
ValidIsVerified(c) == IsValid(c)

\* the signature is verified and the revocation is not.
SignedIsVerified(c) == vcs[c].issuer = Server

\* one valid credential is enough.
SomeShownValid(shown) == \E c \in shown : IsValid(c)

\* a presentation is verified before the roots are looked up.
TrustedIfVerified(shown, known) == known # {}

-----------------------------------------------------------------------------
(* POST create-credential.                                                 *)

\* hasAuthorizedUserType, hasVerificationCredentialType.
MayInitiate(u, c) ==
  /\ vcs[c].subject = u
  /\ vcs[c].userType \in {"Person", "Service", "Organization"}
  /\ vcs[c].vcType = "VerifiedIdentityCredential"

\* isAuthorizedToVerify, up to the first call of the service.  Whoever has
\* the role may name any credential, whose subject becomes the initiator.
AskToIssue(u, c, subject, userType, vcType) ==
  /\ task[u] = None
  /\ \/ u \in Privileged
     \/ c # None /\ MayInitiate(u, c)
  /\ task' = [task EXCEPT ![u] =
       [step |-> IF u \in Privileged THEN "issue" ELSE "check",
        vc |-> c, subject |-> subject, userType |-> userType, vcType |-> vcType,
        then |-> IF u \in Privileged THEN {} ELSE Revoked]]
  /\ UNCHANGED <<vcs, revoked, roots, vp>>

\* checkVerifiableCredentialIssuer.
IsVerified(c) == IsValid(c) /\ vcs[c].issuer = Server

CheckInitiator(u) ==
  /\ task[u] # None
  /\ task[u].step = "check"
  /\ task' = [task EXCEPT ![u] =
       IF IsVerified(task[u].vc) THEN [task[u] EXCEPT !.step = "issue"] ELSE None]
  /\ UNCHANGED <<vcs, revoked, roots, vp>>

\* Variant that a property must tell apart: the newest credential is first.
IssueFirst(u) ==
  /\ task[u] # None
  /\ task[u].step = "issue"
  /\ Len(vcs) < MaxVc
  /\ LET t == task[u] IN
     vcs' = <<[issuer |-> Server, subject |-> t.subject, userType |-> t.userType,
               vcType |-> t.vcType, initiator |-> u, by |-> u, via |-> t.vc, then |-> t.then]>> \o vcs
  /\ task' = [task EXCEPT ![u] = None]
  /\ UNCHANGED <<revoked, roots, vp>>

Issue(u) ==
  /\ task[u] # None
  /\ task[u].step = "issue"
  /\ Len(vcs) < MaxVc
  /\ LET t == task[u] IN
     vcs' = Append(vcs,
       [issuer |-> Server, subject |-> t.subject, userType |-> t.userType, vcType |-> t.vcType,
        initiator |-> IF t.vc = None THEN u ELSE vcs[t.vc].subject,
        by |-> u, via |-> t.vc, then |-> t.then])
  /\ task' = [task EXCEPT ![u] = None]
  /\ UNCHANGED <<revoked, roots, vp>>

-----------------------------------------------------------------------------
(* POST revoke-credential: the collection knows this bridge's credentials. *)

MayRevoke(u, c) == vcs[c].subject = u \/ u \in Privileged

Revoke(u, c) ==
  /\ vcs[c].issuer = Server
  /\ MayRevoke(u, c)
  /\ IsValid(c)          \* a second revocation changes nothing
  /\ revoked' = revoked \cup {<<c, u>>}
  /\ UNCHANGED <<vcs, roots, task, vp>>

-----------------------------------------------------------------------------
(* Trusted roots.                                                          *)

AddTrustedRoot(u, id) ==
  /\ u \in Admin
  /\ id \notin roots
  /\ roots' = roots \cup {id}
  /\ vp' = IF vp = None THEN None ELSE [vp EXCEPT !.known = @ \cup {id}]
  /\ UNCHANGED <<vcs, revoked, task>>

RemoveTrustedRoot(u, id) ==
  /\ u \in Admin
  /\ id \in roots
  /\ roots' = roots \ {id}
  /\ UNCHANGED <<vcs, revoked, task, vp>>

-----------------------------------------------------------------------------
(* POST check-presentation.                                                *)

ShowPresentation(shown) ==
  /\ vp = None
  /\ vp' = [step |-> "verify", shown |-> shown, then |-> Revoked, verified |-> FALSE,
            known |-> roots]
  /\ UNCHANGED <<vcs, revoked, roots, task>>

\* verifyPresentation, by which the holder is the subject of all of them.
AllShownValid(shown) == \A c \in shown : IsValid(c)

VerifyPresentation ==
  /\ vp # None
  /\ vp.step = "verify"
  /\ vp' = [vp EXCEPT !.step = "roots",
                      !.verified = /\ AllShownValid(vp.shown)
                                   /\ \A c, d \in vp.shown : vcs[c].subject = vcs[d].subject]
  /\ UNCHANGED <<vcs, revoked, roots, task>>

\* one of the credentials has a trusted issuer.
IsTrusted(shown, known) == \E c \in shown : vcs[c].issuer \in known

\* getTrustedRootIds throws if there is none.
AnswerPresentation ==
  /\ vp # None
  /\ vp.step = "roots"
  /\ vp' = IF roots = {}
           THEN None
           ELSE [vp EXCEPT !.step = "answer", !.verified = @ /\ IsTrusted(vp.shown, roots)]
  /\ UNCHANGED <<vcs, revoked, roots, task>>

\* The client has the answer.
EndPresentation ==
  /\ vp # None
  /\ vp.step = "answer"
  /\ vp' = None
  /\ UNCHANGED <<vcs, revoked, roots, task>>

-----------------------------------------------------------------------------
(* The other bridge.                                                       *)

OtherIssues(subject, userType, vcType) ==
  /\ Len(vcs) < MaxVc
  /\ vcs' = Append(vcs,
       [issuer |-> Other, subject |-> subject, userType |-> userType, vcType |-> vcType,
        initiator |-> subject, by |-> subject, via |-> None, then |-> {}])
  /\ UNCHANGED <<revoked, roots, task, vp>>

OtherRevokes(c) ==
  /\ vcs[c].issuer = Other
  /\ IsValid(c)
  /\ revoked' = revoked \cup {<<c, vcs[c].subject>>}
  /\ UNCHANGED <<vcs, roots, task, vp>>

-----------------------------------------------------------------------------
Next ==
  \/ \E u \in Caller, s \in User, t \in UserType, k \in VcType :
       \E c \in Vc \cup {None} : AskToIssue(u, c, s, t, k)
  \/ \E u \in User :
       \/ CheckInitiator(u)
       \/ Issue(u)
       \/ \E c \in Vc : Revoke(u, c)
       \/ \E id \in {Server, Other} : AddTrustedRoot(u, id) \/ RemoveTrustedRoot(u, id)
  \/ \E shown \in SUBSET Vc \ {{}} : Cardinality(shown) <= MaxShown /\ ShowPresentation(shown)
  \/ VerifyPresentation \/ AnswerPresentation \/ EndPresentation
  \/ \E s \in User, t \in UserType, k \in VcType : OtherIssues(s, t, k)
  \/ \E c \in Vc : OtherRevokes(c)

Spec == Init /\ [][Next]_vars

-----------------------------------------------------------------------------
(* Properties.                                                             *)

\* The history of a credential refers to earlier ones.
TypeOK ==
  /\ \A n \in Vc : /\ vcs[n].subject \in User /\ vcs[n].issuer \in {Server, Other}
                   /\ vcs[n].via \in 1 .. (n - 1) \cup {None}
                   /\ vcs[n].then \subseteq 1 .. MaxVc
  /\ revoked \subseteq Vc \X User
  /\ \A r, s \in revoked : r[1] = s[1] => r = s
  /\ roots \subseteq {Server, Other}
  /\ \A u \in User : task[u] = None \/ task[u].vc \in Vc \cup {None}
  /\ vp = None \/ vp.shown \subseteq Vc

\* A set with the credential of every initiator in it.
IsClosed(S) == \A k \in S : vcs[k].via # None => vcs[k].via \in S

\* The credentials that a credential goes back to: its initiator's, that
\* one's initiator's, and so on.
Above(n) == {k \in Vc : \A S \in SUBSET Vc : n \in S /\ IsClosed(S) => k \in S}

\* "Only previously verified identities (based on a network of trust) with
\* assigned privileges can verify other identities": whoever is no admin or
\* manager has issued with a credential of this bridge, and the credentials
\* it goes back to end at a privileged user.
Grounded ==
  \A n \in Vc : vcs[n].issuer = Server =>
    \E k \in Above(n) :
      /\ vcs[k].by \in Privileged
      /\ \A m \in Above(n) : m >= k => vcs[m].issuer = Server

\* A user whose credential was revoked cannot issue with it any more: no
\* request begun after the revocation leads to a credential.
RevokedInitiatesNothing ==
  \A n \in Vc : vcs[n].by \notin Privileged /\ vcs[n].via # None => vcs[n].via \notin vcs[n].then

InitiatorHolds == Grounded /\ RevokedInitiatesNothing

\* What was revoked before a presentation was shown is not verified.
ShownAreValid ==
  vp # None /\ vp.step = "answer" /\ vp.verified => vp.shown \cap vp.then = {}

\* A presentation is verified for the sake of an issuer that was a trusted
\* root when it was shown, or became one while it was checked.
ShownForARoot ==
  vp # None /\ vp.step = "answer" /\ vp.verified
  => \E c \in vp.shown : vcs[c].issuer \in vp.known

PresentationHolds == ShownAreValid /\ ShownForARoot
===============================================================================
