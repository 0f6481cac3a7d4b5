----------------------------- MODULE BridgeProofs -----------------------------
(***************************************************************************)
(* What module Bridge promises of its parts, for all their constants: each *)
(* part has an inductive invariant of its own (TrustInv, UsersInv,         *)
(* LoginInv, RootInv, DataInv), which says what the requests that are      *)
(* under way have seen and may still rely on.  At the end, the checkout of *)
(* the e-shop, which asks the bridge (CheckoutInv).                        *)
(***************************************************************************)
EXTENDS EShopCheckout, Bridge, FiniteSetTheorems, SequenceTheorems, TLAPS

-----------------------------------------------------------------------------
(* The network of trust.                                                   *)

Issuer == {Server, Other}

CredentialRecord ==
  [issuer : Issuer, subject : Id, userType : UserType, vcType : VcType, initiator : Id, by : Id,
   via : Nat \cup {NoVc}, then : SUBSET Nat]

IssueTask ==
  [step : {"check", "issue"}, vc : Nat \cup {NoVc}, subject : Id, userType : UserType,
   vcType : VcType, then : SUBSET Nat]

Presentation ==
  [step : {"verify", "roots", "answer"}, shown : SUBSET Nat, then : SUBSET Nat,
   verified : BOOLEAN, known : SUBSET Issuer]

\* The types of the variables, with their histories.
TrustTyped ==
  /\ vcs \in Seq(CredentialRecord) /\ Len(vcs) <= MaxIssued
  /\ \A n \in Trust!Vc : /\ vcs[n].via \in 1 .. (n - 1) \cup {NoVc}
                         /\ vcs[n].then \subseteq 1 .. MaxIssued
  /\ revoked \subseteq Trust!Vc \X Id
  /\ \A r, s \in revoked : r[1] = s[1] => r = s
  /\ roots \subseteq Issuer
  /\ task \in [Id -> IssueTask \cup {NoVc}]
  /\ vp \in Presentation \cup {NoVc}

\* What was revoked when a request came is revoked.
Remembered ==
  /\ \A u \in Id : task[u] # NoVc => /\ task[u].vc \in Trust!Vc \cup {NoVc}
                                     /\ task[u].then \subseteq Trust!Revoked
  /\ vp # NoVc => /\ vp.shown \subseteq Trust!Vc
                  /\ vp.then \subseteq Trust!Revoked
                  /\ roots \subseteq vp.known

\* A request of somebody without a role rests on a credential, which is
\* one of this bridge once it was checked, and was not revoked before.
Checked ==
  \A u \in Id : task[u] # NoVc /\ u \notin Privileged =>
    /\ task[u].vc # NoVc
    /\ task[u].step = "issue" => /\ vcs[task[u].vc].issuer = Server
                                 /\ task[u].vc \notin task[u].then

\* What a presentation is verified for, at each of its steps.
Presented ==
  vp # NoVc /\ vp.verified =>
    /\ vp.step \in {"roots", "answer"}
    /\ vp.shown \cap vp.then = {}
    /\ vp.step = "answer" => \E c \in vp.shown : vcs[c].issuer \in vp.known

TrustInv == TrustTyped /\ Remembered /\ Checked /\ Presented /\ Trust!InitiatorHolds

\* What Append does to the credentials.
LEMMA AppendedVc ==
  ASSUME TrustTyped, NEW r \in CredentialRecord, vcs' = Append(vcs, r)
  PROVE  /\ vcs' \in Seq(CredentialRecord) /\ Len(vcs') = Len(vcs) + 1
         /\ Trust!Vc = 1 .. Len(vcs) /\ Trust!Vc' = 1 .. (Len(vcs) + 1)
         /\ \A n \in Trust!Vc : vcs'[n] = vcs[n]
         /\ vcs'[Len(vcs) + 1] = r
  BY AppendProperties DEF TrustTyped, Trust!Vc

\* The credentials that an old one goes back to stay the same.
LEMMA AboveOld ==
  ASSUME TrustTyped, NEW r \in CredentialRecord, vcs' = Append(vcs, r), NEW n \in Trust!Vc
  PROVE  Trust!Above(n)' = Trust!Above(n)
<1> DEFINE new == Len(vcs) + 1
<1>1. /\ Trust!Vc' = Trust!Vc \cup {new} /\ new \notin Trust!Vc
      /\ \A k \in Trust!Vc : vcs'[k] = vcs[k]
  BY AppendedVc, LenProperties DEF TrustTyped
<1>2. ASSUME NEW k \in Trust!Vc, vcs[k].via # NoVc
      PROVE  vcs[k].via \in Trust!Vc
  BY <1>2, AppendedVc DEF TrustTyped
<1>3. ASSUME NEW S \in SUBSET Trust!Vc
      PROVE  Trust!IsClosed(S)' <=> Trust!IsClosed(S)
  BY <1>1 DEF Trust!IsClosed
<1>4. ASSUME NEW S \in SUBSET (Trust!Vc'), Trust!IsClosed(S)'
      PROVE  Trust!IsClosed(S \cap Trust!Vc)
  BY <1>1, <1>2, <1>4 DEF Trust!IsClosed
<1>5. ASSUME NEW k \in Trust!Above(n)
      PROVE  k \in Trust!Above(n)'
  <2>1. k \in Trust!Vc'
    BY <1>1 DEF Trust!Above
  <2>2. ASSUME NEW S \in SUBSET (Trust!Vc'), n \in S, Trust!IsClosed(S)'
        PROVE  k \in S
    <3>1. S \cap Trust!Vc \in SUBSET Trust!Vc /\ n \in S \cap Trust!Vc
      BY <2>2
    <3> QED
      BY <3>1, <2>2, <1>4 DEF Trust!Above
  <2> QED
    BY <2>1, <2>2 DEF Trust!Above
<1>6. ASSUME NEW k \in Trust!Above(n)'
      PROVE  k \in Trust!Above(n)
  <2>1. Trust!Vc \in SUBSET (Trust!Vc') /\ Trust!IsClosed(Trust!Vc)
    BY <1>1, <1>2 DEF Trust!IsClosed
  <2>2. k \in Trust!Vc
    BY <2>1, <1>3 DEF Trust!Above
  <2>3. ASSUME NEW S \in SUBSET Trust!Vc, n \in S, Trust!IsClosed(S)
        PROVE  k \in S
    <3>1. S \in SUBSET (Trust!Vc') /\ Trust!IsClosed(S)'
      BY <2>3, <1>1, <1>3
    <3> QED
      BY <3>1, <2>3 DEF Trust!Above
  <2> QED
    BY <2>2, <2>3 DEF Trust!Above
<1> QED
  BY <1>5, <1>6

\* The new one goes back to itself and to those its initiator's goes back to.
LEMMA AboveNew ==
  ASSUME TrustTyped, NEW r \in CredentialRecord, vcs' = Append(vcs, r),
         NEW new, new = Len(vcs) + 1
  PROVE  /\ new \in Trust!Above(new)'
         /\ r.via \in Trust!Vc =>
              /\ Trust!Above(r.via) \subseteq Trust!Above(new)'
              /\ Trust!Above(new)' \subseteq Trust!Above(r.via) \cup {new}
<1>1. /\ Trust!Vc' = Trust!Vc \cup {new} /\ new \notin Trust!Vc
      /\ \A k \in Trust!Vc : vcs'[k] = vcs[k]
      /\ vcs'[new] = r
  BY AppendedVc, LenProperties DEF TrustTyped
<1>2. new \in Trust!Above(new)'
  BY <1>1 DEF Trust!Above
<1>3. ASSUME r.via \in Trust!Vc
      PROVE  /\ Trust!Above(r.via) \subseteq Trust!Above(new)'
             /\ Trust!Above(new)' \subseteq Trust!Above(r.via) \cup {new}
  <2>1. r.via # NoVc /\ Trust!Above(r.via)' = Trust!Above(r.via)
    BY <1>3, AboveOld, AppendedVc, NoVcAssumption
  <2>2. ASSUME NEW S \in SUBSET (Trust!Vc'), new \in S, Trust!IsClosed(S)'
        PROVE  r.via \in S
    BY <2>1, <2>2, <1>1 DEF Trust!IsClosed
  <2>3. Trust!Above(r.via)' \subseteq Trust!Above(new)'
    BY <2>2 DEF Trust!Above
  <2>4. ASSUME NEW k \in Trust!Above(new)', k # new
        PROVE  k \in Trust!Above(r.via)'
    <3>1. k \in Trust!Vc'
      BY DEF Trust!Above
    <3>2. ASSUME NEW S \in SUBSET (Trust!Vc'), r.via \in S, Trust!IsClosed(S)'
          PROVE  k \in S
      <4>1. S \cup {new} \in SUBSET (Trust!Vc') /\ Trust!IsClosed(S \cup {new})'
        BY <3>2, <1>1 DEF Trust!IsClosed
      <4> QED
        BY <4>1, <2>4 DEF Trust!Above
    <3> QED
      BY <3>1, <3>2 DEF Trust!Above
  <2> QED
    BY <2>1, <2>3, <2>4
<1> QED
  BY <1>2, <1>3

LEMMA TrustInit == Trust!Init => TrustInv
<1> SUFFICES ASSUME Trust!Init PROVE TrustInv
  OBVIOUS
<1> USE DEF Trust!Init
<1>1. Trust!Vc = {}
  BY DEF Trust!Vc
<1>2. TrustTyped
  BY <1>1, BoundAssumption DEF TrustTyped, Issuer
<1>3. Remembered /\ Checked /\ Presented
  BY DEF Remembered, Checked, Presented
<1>4. Trust!InitiatorHolds
  BY <1>1 DEF Trust!InitiatorHolds, Trust!Grounded, Trust!RevokedInitiatesNothing
<1> QED
  BY <1>2, <1>3, <1>4 DEF TrustInv

\* A credential is added: by a user who may, or by the other bridge.
LEMMA AddedSafe ==
  ASSUME TrustInv, NEW r \in CredentialRecord, vcs' = Append(vcs, r), Len(vcs) < MaxIssued,
         r.via \in Trust!Vc \cup {NoVc}, r.then \subseteq Trust!Revoked,
         \/ r.issuer = Other /\ r.via = NoVc
         \/ r.issuer = Server /\ r.by \in Privileged
         \/ /\ r.issuer = Server /\ r.via \in Trust!Vc
            /\ vcs[r.via].issuer = Server /\ r.via \notin r.then,
         UNCHANGED <<revoked, roots, vp>>,
         \/ UNCHANGED task
         \/ \E u \in Id : task' = [task EXCEPT ![u] = NoVc]
  PROVE  TrustInv'
<1> USE DEF TrustInv
<1>0. PICK new : new = Len(vcs) + 1
  OBVIOUS
<1>1. /\ Trust!Vc = 1 .. Len(vcs) /\ Trust!Vc' = Trust!Vc \cup {new} /\ new \notin Trust!Vc
      /\ vcs' \in Seq(CredentialRecord) /\ Len(vcs') = new /\ Len(vcs) \in Nat
      /\ \A k \in Trust!Vc : vcs'[k] = vcs[k]
      /\ vcs'[new] = r
  BY <1>0, AppendedVc, LenProperties DEF TrustTyped
<1>2. \A u \in Id : task'[u] # NoVc => task'[u] = task[u]
  BY DEF TrustTyped
<1>3. task' \in [Id -> IssueTask \cup {NoVc}]
  BY DEF TrustTyped
<1>4. Trust!Revoked \subseteq Trust!Vc /\ Trust!Revoked' = Trust!Revoked
  BY DEF Trust!Revoked, TrustTyped
<1>5. TrustTyped'
  <2>1. \A n \in Trust!Vc' : /\ vcs'[n].via \in 1 .. (n - 1) \cup {NoVc}
                             /\ vcs'[n].then \subseteq 1 .. MaxIssued
    <3> SUFFICES ASSUME NEW n \in Trust!Vc'
                 PROVE  /\ vcs'[n].via \in 1 .. (n - 1) \cup {NoVc}
                        /\ vcs'[n].then \subseteq 1 .. MaxIssued
      OBVIOUS
    <3>1. CASE n \in Trust!Vc
      BY <3>1, <1>1 DEF TrustTyped
    <3>2. CASE n = new
      <4>1. vcs'[n].via \in 1 .. (n - 1) \cup {NoVc}
        BY <3>2, <1>1, <1>0
      <4>2. r.then \subseteq 1 .. Len(vcs)
        BY <1>1, <1>4
      <4> QED
        BY <4>1, <4>2, <3>2, <1>1, BoundAssumption
    <3> QED
      BY <3>1, <3>2, <1>1
  <2>2. revoked' \subseteq (Trust!Vc \X Id)' /\ \A p, q \in revoked' : p[1] = q[1] => p = q
    BY <1>1 DEF TrustTyped
  <2>3. Len(vcs') <= MaxIssued
    BY <1>1, BoundAssumption
  <2>4. roots' \subseteq Issuer /\ vp' \in Presentation \cup {NoVc}
    BY DEF TrustTyped
  <2> QED
    BY <2>1, <2>2, <2>3, <2>4, <1>1, <1>3 DEF TrustTyped
<1>6. Remembered'
  BY <1>1, <1>2, <1>4 DEF Remembered
<1>7. Checked'
  BY <1>1, <1>2 DEF Checked, Remembered
<1>8. Presented'
  BY <1>1 DEF Presented, Remembered
<1>9. Trust!Grounded'
  <2> SUFFICES ASSUME NEW n \in Trust!Vc', vcs'[n].issuer = Server
               PROVE  \E k \in Trust!Above(n)' :
                        /\ vcs'[k].by \in Privileged
                        /\ \A m \in Trust!Above(n)' : m >= k => vcs'[m].issuer = Server
    BY DEF Trust!Grounded
  <2>0. \A m \in Trust!Vc : \A k \in Trust!Above(m) : k \in Trust!Vc /\ vcs'[k] = vcs[k]
    BY <1>1 DEF Trust!Above
  <2>1. CASE n \in Trust!Vc
    <3>1. Trust!Above(n)' = Trust!Above(n) /\ vcs'[n] = vcs[n]
      BY <2>1, <1>1, AboveOld
    <3>2. PICK k \in Trust!Above(n) :
            /\ vcs[k].by \in Privileged
            /\ \A m \in Trust!Above(n) : m >= k => vcs[m].issuer = Server
      BY <2>1, <3>1 DEF Trust!InitiatorHolds, Trust!Grounded
    <3>3. \A m \in Trust!Above(n) : vcs'[m] = vcs[m]
      BY <2>0, <2>1
    <3>4. k \in Trust!Above(n)' /\ vcs'[k].by \in Privileged
      BY <3>1, <3>2, <3>3
    <3>5. \A m \in Trust!Above(n)' : m >= k => vcs'[m].issuer = Server
      BY <3>1, <3>2, <3>3
    <3> QED
      BY <3>4, <3>5
  <2>2. CASE n = new /\ r.by \in Privileged
    <3>1. new \in Trust!Above(new)' /\ Trust!Above(new)' \subseteq 1 .. new
      BY <1>0, AboveNew, <1>1 DEF Trust!Above
    <3> QED
      BY <2>2, <3>1, <1>1
  <2>3. CASE n = new /\ r.via \in Trust!Vc /\ vcs[r.via].issuer = Server
    <3>1. PICK k \in Trust!Above(r.via) :
            /\ vcs[k].by \in Privileged
            /\ \A m \in Trust!Above(r.via) : m >= k => vcs[m].issuer = Server
      BY <2>3 DEF Trust!InitiatorHolds, Trust!Grounded
    <3>2. /\ Trust!Above(r.via) \subseteq Trust!Above(new)'
          /\ Trust!Above(new)' \subseteq Trust!Above(r.via) \cup {new}
      BY <1>0, <2>3, AboveNew
    <3> QED
      BY <2>3, <3>1, <3>2, <2>0, <1>1
  <2> QED
    BY <2>1, <2>2, <2>3, <1>1, IssuerAssumption
<1>10. Trust!RevokedInitiatesNothing'
  BY <1>1 DEF Trust!RevokedInitiatesNothing, Trust!InitiatorHolds
<1> QED
  BY <1>5, <1>6, <1>7, <1>8, <1>9, <1>10 DEF Trust!InitiatorHolds

\* A credential that is not revoked is revoked, by whoever may.
LEMMA RevokedSafe ==
  ASSUME TrustInv, NEW c \in Trust!Vc, NEW u \in Id, Trust!IsValid(c),
         revoked' = revoked \cup {<<c, u>>}, UNCHANGED <<vcs, roots, task, vp>>
  PROVE  TrustInv'
<1> USE DEF TrustInv
<1>1. Trust!Vc' = Trust!Vc /\ Trust!Revoked' = Trust!Revoked \cup {c}
  <2>1. Trust!Revoked \cup {<<c, u>>[1]} = {r[1] : r \in revoked \cup {<<c, u>>}}
    BY Zenon DEF Trust!Revoked
  <2> QED
    BY <2>1, Zenon DEF Trust!Vc, Trust!Revoked
<1>2. \A p \in revoked : p[1] # c
  BY DEF Trust!IsValid, Trust!Revoked
<1>3. TrustTyped'
  <2>1. revoked' \subseteq Trust!Vc' \X Id
    BY <1>1 DEF TrustTyped
  <2>2. ASSUME NEW p \in revoked', NEW q \in revoked', p[1] = q[1]
        PROVE  p = q
    BY <2>2, <1>2 DEF TrustTyped
  <2> QED
    BY <2>1, <2>2, <1>1 DEF TrustTyped
<1>4. Remembered'
  BY <1>1 DEF Remembered
<1>5. Checked' /\ Presented'
  BY DEF Checked, Presented
<1>6. Trust!InitiatorHolds'
  BY <1>1 DEF Trust!InitiatorHolds, Trust!Grounded, Trust!RevokedInitiatesNothing, Trust!Above,
              Trust!IsClosed
<1> QED
  BY <1>3, <1>4, <1>5, <1>6

\* One step per action.
LEMMA TrustStep == TrustInv /\ [Trust!Next]_Trust!vars => TrustInv'
<1> SUFFICES ASSUME TrustInv, [Trust!Next]_Trust!vars
             PROVE  TrustInv'
  OBVIOUS
<1> USE DEF TrustInv
<1>0. /\ Trust!Vc = 1 .. Len(vcs) /\ Len(vcs) \in Nat
      /\ Trust!Revoked \subseteq Trust!Vc
      /\ \A n \in Trust!Vc : vcs[n] \in CredentialRecord
  BY LenProperties DEF TrustTyped, Trust!Vc, Trust!Revoked
\* A step that leaves the credentials and the revocations as they are.
<1>A. ASSUME UNCHANGED <<vcs, revoked>>
      PROVE  /\ Trust!Vc' = Trust!Vc /\ Trust!Revoked' = Trust!Revoked
             /\ Trust!InitiatorHolds'
             /\ (roots \subseteq Issuer)' /\ (task \in [Id -> IssueTask \cup {NoVc}])'
                /\ (vp \in Presentation \cup {NoVc})' => TrustTyped'
  <2>1. Trust!Vc' = Trust!Vc /\ Trust!Revoked' = Trust!Revoked
    BY <1>A DEF Trust!Vc, Trust!Revoked
  <2>2. Trust!InitiatorHolds'
    BY <1>A, <2>1 DEF Trust!InitiatorHolds, Trust!Grounded, Trust!RevokedInitiatesNothing,
                      Trust!Above, Trust!IsClosed
  <2> QED
    BY <1>A, <2>1, <2>2 DEF TrustTyped
<1>1. ASSUME NEW u \in Sender, NEW s \in Id, NEW t \in UserType, NEW k \in VcType,
             NEW c \in Trust!Vc \cup {NoVc}, Trust!AskToIssue(u, c, s, t, k)
      PROVE  TrustInv'
  <2>1. UNCHANGED <<vcs, revoked, roots, vp>>
    BY <1>1 DEF Trust!AskToIssue
  <2>2. PICK r \in IssueTask :
          /\ task' = [task EXCEPT ![u] = r]
          /\ r.vc = c /\ r.then \subseteq Trust!Revoked
          /\ u \notin Privileged => c # NoVc /\ r.step = "check"
    <3> DEFINE r == [step |-> IF u \in Privileged THEN "issue" ELSE "check", vc |-> c,
                     subject |-> s, userType |-> t, vcType |-> k,
                     then |-> IF u \in Privileged THEN {} ELSE Trust!Revoked]
    <3>1. c \in Nat \cup {NoVc} /\ Trust!Revoked \in SUBSET Nat
      BY <1>0
    <3>2. r \in IssueTask
      BY <3>1 DEF IssueTask
    <3>3. /\ task' = [task EXCEPT ![u] = r]
          /\ u \notin Privileged => c # NoVc
      BY <1>1 DEF Trust!AskToIssue
    <3> QED
      BY <3>2, <3>3
  <2>3. u \in Id
    BY IdAssumption
  <2>4. /\ task' \in [Id -> IssueTask \cup {NoVc}] /\ task'[u] = r
        /\ \A v \in Id : v # u => task'[v] = task[v]
    BY <2>2, <2>3 DEF TrustTyped
  <2>5. TrustTyped' /\ Trust!InitiatorHolds'
    BY <2>1, <2>4, <1>A DEF TrustTyped
  <2>6. Remembered'
    BY <2>1, <2>2, <2>4, <1>A DEF Remembered
  <2>7. Checked'
    BY <2>1, <2>2, <2>4 DEF Checked
  <2>8. Presented'
    BY <2>1 DEF Presented
  <2> QED
    BY <2>5, <2>6, <2>7, <2>8
<1>2. ASSUME NEW u \in Id, Trust!CheckInitiator(u)
      PROVE  TrustInv'
  <2>1. UNCHANGED <<vcs, revoked, roots, vp>> /\ task[u] # NoVc /\ task[u] \in IssueTask
    BY <1>2 DEF Trust!CheckInitiator, TrustTyped
  <2>2. PICK q \in IssueTask : q = task[u]
    BY <2>1
  <2>3. PICK r : r = [q EXCEPT !.step = "issue"]
    OBVIOUS
  <2>4. r \in IssueTask /\ r.vc = task[u].vc /\ r.then = task[u].then
    BY <2>2, <2>3 DEF IssueTask
  <2>5. /\ task' \in [Id -> IssueTask \cup {NoVc}]
        /\ task'[u] = NoVc \/ (Trust!IsVerified(task[u].vc) /\ task'[u] = r)
        /\ \A v \in Id : v # u => task'[v] = task[v]
    <3>1. task' = [task EXCEPT ![u] = IF Trust!IsVerified(task[u].vc) THEN r ELSE NoVc]
      BY <1>2, <2>2, <2>3 DEF Trust!CheckInitiator
    <3>2. CASE Trust!IsVerified(task[u].vc)
      BY <3>1, <3>2, <2>4 DEF TrustTyped
    <3>3. CASE ~Trust!IsVerified(task[u].vc)
      <4>1. task' = [task EXCEPT ![u] = NoVc]
        BY <3>1, <3>3, Zenon
      <4> QED
        BY <4>1 DEF TrustTyped
    <3> QED
      BY <3>2, <3>3
  <2>6. TrustTyped' /\ Trust!InitiatorHolds'
    BY <2>1, <2>5, <1>A DEF TrustTyped
  <2>7. Remembered'
    BY <2>1, <2>4, <2>5, <1>A DEF Remembered
  <2>8. Checked'
    BY <2>1, <2>4, <2>5 DEF Checked, Remembered, Trust!IsVerified, Trust!IsValid
  <2>9. Presented'
    BY <2>1 DEF Presented
  <2> QED
    BY <2>6, <2>7, <2>8, <2>9
<1>3. ASSUME NEW u \in Id, Trust!Issue(u)
      PROVE  TrustInv'
  <2>1. /\ UNCHANGED <<revoked, roots, vp>> /\ Len(vcs) < MaxIssued
        /\ task[u] # NoVc /\ task[u].step = "issue" /\ task[u] \in IssueTask
        /\ task' = [task EXCEPT ![u] = NoVc]
    BY <1>3 DEF Trust!Issue, TrustTyped
  <2>2. task[u].vc \in Trust!Vc \cup {NoVc} /\ task[u].then \subseteq Trust!Revoked
    BY <2>1 DEF Remembered
  <2>3. PICK w \in Id : w = IF task[u].vc = NoVc THEN u ELSE vcs[task[u].vc].subject
    BY <2>2, <1>0 DEF CredentialRecord
  <2>4. PICK r : r = [issuer |-> Server, subject |-> task[u].subject,
                      userType |-> task[u].userType, vcType |-> task[u].vcType,
                      initiator |-> w, by |-> u, via |-> task[u].vc, then |-> task[u].then]
    OBVIOUS
  <2>5. r \in CredentialRecord
    BY <2>1, <2>4 DEF CredentialRecord, IssueTask, Issuer
  <2>6. vcs' = Append(vcs, r)
    BY <1>3, <2>3, <2>4 DEF Trust!Issue
  <2>7. /\ r.via = task[u].vc /\ r.then = task[u].then /\ r.issuer = Server /\ r.by = u
    BY <2>4
  <2>8. u \notin Privileged => /\ r.via \in Trust!Vc /\ vcs[r.via].issuer = Server
                               /\ r.via \notin r.then
    BY <2>1, <2>2, <2>7 DEF Checked
  <2> QED
    BY <2>1, <2>2, <2>5, <2>6, <2>7, <2>8, AddedSafe
<1>4. ASSUME NEW u \in Id, NEW c \in Trust!Vc, Trust!Revoke(u, c)
      PROVE  TrustInv'
  BY <1>4, RevokedSafe DEF Trust!Revoke
<1>5. ASSUME NEW u \in Id, NEW id \in Issuer, Trust!AddTrustedRoot(u, id)
      PROVE  TrustInv'
  <2>1. UNCHANGED <<vcs, revoked, task>> /\ roots' = roots \cup {id}
    BY <1>5 DEF Trust!AddTrustedRoot
  <2>2. PICK p : p = [vp EXCEPT !.known = @ \cup {id}]
    OBVIOUS
  <2>3. vp' = IF vp = NoVc THEN NoVc ELSE p
    BY <1>5, <2>2 DEF Trust!AddTrustedRoot
  <2>4. vp # NoVc =>
          /\ p \in Presentation /\ p.known = vp.known \cup {id}
          /\ p.step = vp.step /\ p.shown = vp.shown /\ p.then = vp.then
          /\ p.verified = vp.verified
    BY <2>2 DEF TrustTyped, Presentation
  <2>5. TrustTyped' /\ Trust!InitiatorHolds'
    BY <2>1, <2>3, <2>4, <1>A DEF TrustTyped
  <2>6. Remembered'
    BY <2>1, <2>3, <2>4, <1>A DEF Remembered
  <2>7. Checked'
    BY <2>1 DEF Checked
  <2>8. Presented'
    BY <2>1, <2>3, <2>4 DEF Presented
  <2> QED
    BY <2>5, <2>6, <2>7, <2>8
<1>6. ASSUME NEW u \in Id, NEW id \in Issuer, Trust!RemoveTrustedRoot(u, id)
      PROVE  TrustInv'
  <2>1. UNCHANGED <<vcs, revoked, task, vp>> /\ roots' \subseteq roots
    BY <1>6 DEF Trust!RemoveTrustedRoot
  <2>2. TrustTyped' /\ Trust!InitiatorHolds'
    BY <2>1, <1>A DEF TrustTyped
  <2>3. Remembered' /\ Checked' /\ Presented'
    BY <2>1, <1>A DEF Remembered, Checked, Presented
  <2> QED
    BY <2>2, <2>3
<1>7. ASSUME NEW shown \in SUBSET Trust!Vc, Trust!ShowPresentation(shown)
      PROVE  TrustInv'
  <2>1. UNCHANGED <<vcs, revoked, roots, task>>
    BY <1>7 DEF Trust!ShowPresentation
  <2>2. PICK p : p = [step |-> "verify", shown |-> shown, then |-> Trust!Revoked,
                      verified |-> FALSE, known |-> roots]
    OBVIOUS
  <2>3. vp' = p /\ p \in Presentation
    BY <1>7, <1>0, <2>2 DEF Trust!ShowPresentation, Presentation, TrustTyped
  <2>4. TrustTyped' /\ Trust!InitiatorHolds'
    BY <2>1, <2>3, <1>A DEF TrustTyped
  <2>5. Remembered'
    BY <2>1, <2>2, <2>3, <1>A DEF Remembered
  <2>6. Checked'
    BY <2>1 DEF Checked
  <2>7. ~p.verified
    BY <2>2
  <2>8. Presented'
    BY <2>3, <2>7, Zenon DEF Presented
  <2> QED
    BY <2>4, <2>5, <2>6, <2>8
<1>8. CASE Trust!VerifyPresentation
  <2>1. /\ UNCHANGED <<vcs, revoked, roots, task>>
        /\ vp # NoVc /\ vp.step = "verify" /\ vp \in Presentation
    BY <1>8 DEF Trust!VerifyPresentation, TrustTyped
  <2>2. PICK p : p = [vp EXCEPT !.step = "roots", !.verified = /\ Trust!AllShownValid(vp.shown)
                                                        /\ \A c, d \in vp.shown :
                                                             vcs[c].subject = vcs[d].subject]
    OBVIOUS
  <2>3. /\ p \in Presentation /\ p.step = "roots" /\ p.shown = vp.shown /\ p.then = vp.then
        /\ p.known = vp.known
        /\ p.verified => Trust!AllShownValid(vp.shown)
    BY <2>1, <2>2 DEF Presentation, TrustTyped
  <2>4. vp' = p
    BY <1>8, <2>2 DEF Trust!VerifyPresentation
  <2>5. TrustTyped' /\ Trust!InitiatorHolds'
    BY <2>1, <2>3, <2>4, <1>A DEF TrustTyped
  <2>6. Remembered'
    BY <2>1, <2>3, <2>4, <1>A DEF Remembered
  <2>7. Checked'
    BY <2>1 DEF Checked
  <2>8. Presented'
    BY <2>1, <2>3, <2>4 DEF Presented, Remembered, Trust!AllShownValid, Trust!IsValid
  <2> QED
    BY <2>5, <2>6, <2>7, <2>8
<1>9. CASE Trust!AnswerPresentation
  <2>1. /\ UNCHANGED <<vcs, revoked, roots, task>>
        /\ vp # NoVc /\ vp.step = "roots" /\ vp \in Presentation
    BY <1>9 DEF Trust!AnswerPresentation, TrustTyped
  <2>2. PICK p : p = [vp EXCEPT !.step = "answer", !.verified = @ /\ Trust!IsTrusted(vp.shown, roots)]
    OBVIOUS
  <2>3. /\ p \in Presentation /\ p.step = "answer" /\ p.shown = vp.shown /\ p.then = vp.then
        /\ p.known = vp.known
        /\ p.verified => vp.verified /\ Trust!IsTrusted(vp.shown, roots)
    BY <2>1, <2>2 DEF Presentation, TrustTyped
  <2>4. vp' = NoVc \/ vp' = p
    BY <1>9, <2>2 DEF Trust!AnswerPresentation
  <2>5. TrustTyped' /\ Trust!InitiatorHolds'
    BY <2>1, <2>3, <2>4, <1>A DEF TrustTyped
  <2>6. Remembered'
    BY <2>1, <2>3, <2>4, <1>A DEF Remembered
  <2>7. Checked'
    BY <2>1 DEF Checked
  <2>8. Presented'
    BY <2>1, <2>3, <2>4 DEF Presented, Remembered, Trust!IsTrusted
  <2> QED
    BY <2>5, <2>6, <2>7, <2>8
<1>10. CASE Trust!EndPresentation
  <2>1. UNCHANGED <<vcs, revoked, roots, task>> /\ vp' = NoVc
    BY <1>10 DEF Trust!EndPresentation
  <2>2. TrustTyped' /\ Trust!InitiatorHolds'
    BY <2>1, <1>A DEF TrustTyped
  <2>3. Remembered' /\ Checked' /\ Presented'
    BY <2>1, <1>A DEF Remembered, Checked, Presented
  <2> QED
    BY <2>2, <2>3
<1>11. ASSUME NEW s \in Id, NEW t \in UserType, NEW k \in VcType, Trust!OtherIssues(s, t, k)
       PROVE  TrustInv'
  <2>1. PICK r : r = [issuer |-> Other, subject |-> s, userType |-> t, vcType |-> k,
                      initiator |-> s, by |-> s, via |-> NoVc, then |-> {}]
    OBVIOUS
  <2>2. r \in CredentialRecord /\ r.issuer = Other /\ r.via = NoVc /\ r.then = {}
    BY <2>1 DEF CredentialRecord, Issuer
  <2> QED
    BY <1>11, <2>1, <2>2, AddedSafe DEF Trust!OtherIssues
<1>12. ASSUME NEW c \in Trust!Vc, Trust!OtherRevokes(c)
       PROVE  TrustInv'
  <2>1. vcs[c].subject \in Id
    BY <1>0 DEF CredentialRecord
  <2> QED
    BY <1>12, <2>1, RevokedSafe DEF Trust!OtherRevokes
<1>13. CASE UNCHANGED Trust!vars
  <2>1. UNCHANGED <<vcs, revoked, roots, task, vp>>
    BY <1>13 DEF Trust!vars
  <2>2. TrustTyped' /\ Trust!InitiatorHolds'
    BY <2>1, <1>A DEF TrustTyped
  <2>3. Remembered' /\ Checked' /\ Presented'
    BY <2>1, <1>A DEF Remembered, Checked, Presented
  <2> QED
    BY <2>2, <2>3
<1> QED
  BY <1>1, <1>2, <1>3, <1>4, <1>5, <1>6, <1>7, <1>8, <1>9, <1>10, <1>11, <1>12, <1>13
     DEF Trust!Next, Issuer

\* Whoever is no administrator or manager issues with a credential of this
\* bridge that goes back to one who is; nothing that was revoked before a
\* request is used by it; a presentation is verified for a trusted root.
THEOREM SpecTrustHolds == Trust!Spec => []TrustHolds
<1>1. TrustInv => TrustHolds
  <2> SUFFICES ASSUME TrustInv PROVE TrustHolds
    OBVIOUS
  <2> USE DEF TrustInv
  <2>1. Trust!Vc = 1 .. Len(vcs) /\ \A n \in Trust!Vc : vcs[n] \in CredentialRecord
    BY LenProperties DEF TrustTyped, Trust!Vc
  <2>2. Trust!TypeOK
    BY <2>1 DEF Trust!TypeOK, TrustTyped, Remembered, CredentialRecord, Issuer
  <2>3. Trust!PresentationHolds
    BY DEF Trust!PresentationHolds, Trust!ShownAreValid, Trust!ShownForARoot, Presented
  <2> QED
    BY <2>2, <2>3 DEF TrustHolds
<1> QED
  BY <1>1, TrustInit, TrustStep, PTL DEF Trust!Spec

-----------------------------------------------------------------------------
(* The users.                                                              *)

Typed == docs \in [Id -> Requests!Document \cup {NoDoc}]

\* A name, whether of a user or not, is one document's.
NamesDiffer ==
  \A i, j \in Requests!Docs :
    docs[i].name = docs[j].name /\ docs[i].name # Unset => i = j

\* What the documents must agree with.
Books ==
  /\ NamesDiffer
  /\ \A i \in Requests!Docs : docs[i].role # "User" => i \in raised
  /\ Requests!DeletedStaysDeleted

\* A user is inserted for an identity that was published.
Reserved == \A c \in Requests!Caller : pc[c] \in {"insert", "keys"} => target[c] \in published

UsersInv == Requests!TypeOK /\ Books /\ Reserved /\ Requests!HiddenFromOthers

LEMMA NoBodyType == Requests!NoBody \in Body /\ Requests!AnyId \in Id
  BY BodyAssumption, IdAssumption DEF Requests!NoBody, Requests!AnyId

\* One document is inserted, changed or removed.
LEMMA BooksKept ==
  ASSUME Typed, Books, NEW i \in Id, NEW d \in Requests!Document \cup {NoDoc},
         docs' = [docs EXCEPT ![i] = d],
         d # NoDoc => /\ ~Requests!Taken(i, d.name)
                      /\ d.role # "User" => i \in raised'
                      /\ d.hasId => i \notin gone',
         raised \ {i} \subseteq raised', gone' \subseteq gone \cup {i}
  PROVE  Typed' /\ Books'
<1>1. Typed' /\ docs'[i] = d /\ \A j \in Id : j # i => docs'[j] = docs[j]
  BY DEF Typed
<1>2. Requests!Docs' \ {i} = Requests!Docs \ {i} /\ Requests!Users' \ {i} = Requests!Users \ {i}
  BY <1>1 DEF Requests!Docs, Requests!Users
<1>3. NamesDiffer'
  <2>1. \A j \in Requests!Docs : i # j /\ d # NoDoc /\ d.name # Unset => docs[j].name # d.name
    BY DEF Requests!Taken
  <2> QED
    BY <1>1, <1>2, <2>1 DEF Books, NamesDiffer, Requests!Docs
<1>4. \A j \in Requests!Docs' : docs'[j].role # "User" => j \in raised'
  BY <1>1, <1>2 DEF Books, Requests!Docs
<1>5. Requests!DeletedStaysDeleted'
  BY <1>1, <1>2 DEF Books, Requests!DeletedStaysDeleted, Requests!Docs, Requests!Users
<1> QED
  BY <1>1, <1>3, <1>4, <1>5 DEF Books

LEMMA BooksSame ==
  ASSUME Books, UNCHANGED <<docs, raised, gone>>
  PROVE  Books'
BY DEF Books, NamesDiffer, Requests!DeletedStaysDeleted, Requests!Docs, Requests!Users

\* The same of the requests: one of them goes on.
Requesting ==
  /\ published \subseteq Id /\ keys \subseteq published
  /\ pc \in [Requests!Caller -> {"idle", "create", "latest", "insert", "keys", "credential", "role",
                                 "delete"}]
  /\ body \in [Requests!Caller -> Body] /\ target \in [Requests!Caller -> Id]
  /\ Reserved

LEMMA AnswerKeeps ==
  ASSUME Requesting, NEW c \in Requests!Caller, Requests!Answer(c),
         published \subseteq published', published' \subseteq Id, keys' \subseteq published'
  PROVE  Requesting'
<1>1. /\ pc' = [pc EXCEPT ![c] = "idle"] /\ body' = [body EXCEPT ![c] = Requests!NoBody]
      /\ target' = [target EXCEPT ![c] = Requests!AnyId]
  BY DEF Requests!Answer
<1> QED
  BY <1>1, NoBodyType DEF Requesting, Reserved

LEMMA GoKeeps ==
  ASSUME Requesting, NEW c \in Requests!Caller,
         NEW s \in {"latest", "insert", "keys", "credential", "role", "delete", "create"},
         pc' = [pc EXCEPT ![c] = s],
         NEW b \in Body, body' = [body EXCEPT ![c] = b],
         NEW i \in Id, target' = [target EXCEPT ![c] = i],
         s \in {"insert", "keys"} => i \in published',
         published \subseteq published', published' \subseteq Id, keys' \subseteq published'
  PROVE  Requesting'
BY DEF Requesting, Reserved

LEMMA GoesOn ==
  ASSUME Requesting, NEW c \in Requests!Caller,
         NEW s \in {"insert", "keys", "credential", "role"}, Requests!Go(c, s),
         s \in {"insert", "keys"} => target[c] \in published,
         UNCHANGED <<published, keys>>
  PROVE  Requesting'
<1>1. /\ body[c] \in Body /\ body' = [body EXCEPT ![c] = body[c]]
      /\ target[c] \in Id /\ target' = [target EXCEPT ![c] = target[c]]
      /\ pc' = [pc EXCEPT ![c] = s]
  BY DEF Requests!Go, Requesting
<1> QED
  BY <1>1, GoKeeps DEF Requesting

LEMMA SameKeeps ==
  ASSUME Requesting, UNCHANGED <<pc, body, target, published, keys>>
  PROVE  Requesting'
BY DEF Requesting, Reserved

\* What an upsert makes of nothing is a document without a name.
LEMMA GhostDoc ==
  /\ Requests!NewGhost \in Requests!Document
  /\ Requests!NewGhost.name = Unset /\ Requests!NewGhost.role = "User"
  /\ Requests!NewGhost.hasId = FALSE
<1>1. 0 \in 0 .. ListLimit /\ "User" \in Requests!Role
  BY BoundAssumption DEF Requests!Role
<1> QED
  BY <1>1 DEF Requests!Document, Requests!NewGhost

\* The parts count alike.
LEMMA UsersCardinality == \A S : Requests!Cardinality(S) = Cardinality(S)
  BY DEF Requests!Cardinality, Cardinality, Requests!IsFiniteSet, IsFiniteSet

LEMMA UsersInit == Requests!Init => UsersInv
<1> SUFFICES ASSUME Requests!Init PROVE UsersInv
  OBVIOUS
<1> USE DEF Requests!Init
<1> DEFINE d == [Requests!NewGhost EXCEPT !.hasId = TRUE, !.role = "Admin"]
<1>1. d \in Requests!Document /\ d.name = Unset /\ d.role = "Admin"
  <2>1. PICK q \in Requests!Document : q = Requests!NewGhost /\ q.name = Unset
    BY GhostDoc
  <2> QED
    BY <2>1 DEF Requests!Document, Requests!Role
<1>2. raised \subseteq Id /\ docs = [i \in Id |-> IF i \in raised THEN d ELSE NoDoc]
  BY IdAssumption
<1> HIDE DEF d
<1>3. Typed
  BY <1>1, <1>2 DEF Typed
<1>4. \A i \in Requests!Docs : i \in raised /\ docs[i] = d
  BY <1>2 DEF Requests!Docs
<1>5. Books
  BY <1>1, <1>4 DEF Books, NamesDiffer, Requests!DeletedStaysDeleted
<1>6. Requests!TypeOK
  BY <1>2, <1>3, NoBodyType, IdAssumption DEF Requests!TypeOK, Typed
<1> QED
  BY <1>5, <1>6 DEF UsersInv, Reserved, Requests!HiddenFromOthers

\* A document that keeps its name and stays what it was, a user or not.
LEMMA SameName ==
  ASSUME Typed, Books, NEW i \in Requests!Docs, NEW d \in Requests!Document,
         d.name = docs[i].name, d.hasId = docs[i].hasId
  PROVE  ~Requests!Taken(i, d.name) /\ (d.hasId => i \notin gone)
<1>1. ~Requests!Taken(i, d.name)
  BY DEF Books, NamesDiffer, Requests!Taken, Requests!Docs
<1>2. d.hasId => i \notin gone
  BY DEF Books, Requests!DeletedStaysDeleted, Requests!Users
<1> QED
  BY <1>1, <1>2

\* What the documents are made of.
LEMMA DocTypes ==
  /\ \A c \in Requests!Caller : body \in [Requests!Caller -> Body] /\ body[c].vcs < ListLimit =>
       /\ Requests!NewUser(c) \in Requests!Document
       /\ Requests!NewUser(c).role = "User" /\ Requests!NewUser(c).name = body[c].name
  /\ \A d \in Requests!Document :
       /\ d.vcs < ListLimit => /\ [d EXCEPT !.vcs = @ + 1] \in Requests!Document
                               /\ [d EXCEPT !.vcs = @ + 1].name = d.name
                               /\ [d EXCEPT !.vcs = @ + 1].hasId = d.hasId
                               /\ [d EXCEPT !.vcs = @ + 1].role = d.role
       /\ [d EXCEPT !.role = "Admin"] \in Requests!Document
       /\ [d EXCEPT !.role = "Admin"].name = d.name
       /\ [d EXCEPT !.role = "Admin"].hasId = d.hasId
  /\ [Requests!NewGhost EXCEPT !.vcs = 1] \in Requests!Document
  /\ [Requests!NewGhost EXCEPT !.vcs = 1].name = Unset
  /\ [Requests!NewGhost EXCEPT !.vcs = 1].role = "User"
  /\ [Requests!NewGhost EXCEPT !.vcs = 1].hasId = FALSE
<1> USE BoundAssumption DEF Requests!Document, Requests!Role
<1>1. ASSUME NEW c \in Requests!Caller, body \in [Requests!Caller -> Body],
             body[c].vcs < ListLimit
      PROVE  /\ Requests!NewUser(c) \in Requests!Document
             /\ Requests!NewUser(c).role = "User" /\ Requests!NewUser(c).name = body[c].name
  <2>1. body[c] \in Body
    BY <1>1
  <2>2. body[c].name \in Name /\ body[c].hidden \in BOOLEAN /\ body[c].vcs \in Nat
    BY <2>1, BodyAssumption
  <2>3. body[c].vcs \in 0 .. ListLimit
    BY <2>2, <1>1
  <2> QED
    BY <2>2, <2>3 DEF Requests!NewUser
<1>2. ASSUME NEW d \in Requests!Document
      PROVE  /\ d.vcs < ListLimit => /\ [d EXCEPT !.vcs = @ + 1] \in Requests!Document
                                     /\ [d EXCEPT !.vcs = @ + 1].name = d.name
                                     /\ [d EXCEPT !.vcs = @ + 1].hasId = d.hasId
                                     /\ [d EXCEPT !.vcs = @ + 1].role = d.role
             /\ [d EXCEPT !.role = "Admin"] \in Requests!Document
             /\ [d EXCEPT !.role = "Admin"].name = d.name
             /\ [d EXCEPT !.role = "Admin"].hasId = d.hasId
  OBVIOUS
<1>3. /\ [Requests!NewGhost EXCEPT !.vcs = 1] \in Requests!Document
      /\ [Requests!NewGhost EXCEPT !.vcs = 1].name = Unset
      /\ [Requests!NewGhost EXCEPT !.vcs = 1].role = "User"
      /\ [Requests!NewGhost EXCEPT !.vcs = 1].hasId = FALSE
  <2>1. PICK q \in Requests!Document : /\ q = Requests!NewGhost /\ q.name = Unset
                                       /\ q.role = "User" /\ q.hasId = FALSE
    BY GhostDoc
  <2>2. 1 \in 0 .. ListLimit
    OBVIOUS
  <2> QED
    BY <2>1, <2>2
<1> QED
  BY <1>1, <1>2, <1>3

\* A document with the fields that a PUT may change.
LEMMA PatchedDoc ==
  ASSUME NEW d \in Requests!Document, NEW p \in Patch
  PROVE  /\ Requests!Patched(d, p) \in Requests!Document
         /\ Requests!Patched(d, p).hasId = d.hasId
         /\ Requests!Patched(d, p).name \in {d.name, p.name}
         /\ p.role = Unset => Requests!Patched(d, p).role = d.role
<1>1. PICK n : n = IF p.name = Unset THEN d.name ELSE p.name
  OBVIOUS
<1>2. PICK h : h = IF p.hidden = Unset THEN d.hidden ELSE p.hidden
  OBVIOUS
<1>3. PICK r : r = IF p.role = Unset THEN d.role ELSE p.role
  OBVIOUS
<1>4. Requests!Patched(d, p) = [d EXCEPT !.name = n, !.hidden = h, !.role = r]
  BY <1>1, <1>2, <1>3 DEF Requests!Patched
<1>5. d.name \in Name \cup {Unset} /\ d.hidden \in BOOLEAN /\ d.role \in Requests!Role
  BY DEF Requests!Document
<1>6. n \in Name \cup {Unset} /\ n \in {d.name, p.name}
  BY <1>1, <1>5, PatchAssumption
<1>7. h \in BOOLEAN
  BY <1>2, <1>5, PatchAssumption
<1>8. r \in Requests!Role /\ (p.role = Unset => r = d.role)
  BY <1>3, <1>5, PatchAssumption
<1>9. [d EXCEPT !.name = n, !.hidden = h, !.role = r] \in Requests!Document
  BY <1>6, <1>7, <1>8 DEF Requests!Document
<1>10. PICK new : new = [d EXCEPT !.name = n, !.hidden = h, !.role = r]
  OBVIOUS
<1>11. new.hasId = d.hasId /\ new.name = n /\ new.role = r
  BY <1>10 DEF Requests!Document
<1> QED
  BY <1>4, <1>6, <1>8, <1>9, <1>10, <1>11

\* One step per action.
LEMMA UsersStep == UsersInv /\ [Requests!Next]_Requests!vars => UsersInv'
<1> SUFFICES ASSUME UsersInv, [Requests!Next]_Requests!vars
             PROVE  UsersInv'
  OBVIOUS
<1>0. /\ Typed /\ Books /\ Requesting /\ Requests!HiddenFromOthers
      /\ token \in [Client -> Requests!Role \cup {"none", "expired"}]
      /\ raised \subseteq Id /\ gone \subseteq Id
  BY DEF UsersInv, Typed, Requesting, Requests!TypeOK
<1>Q. ASSUME Typed', Books', Requesting', Requests!HiddenFromOthers',
             token' \in [Client -> Requests!Role \cup {"none", "expired"}],
             raised' \subseteq Id, gone' \subseteq Id
      PROVE  UsersInv'
  BY <1>Q DEF UsersInv, Typed, Requesting, Requests!TypeOK
<1>S. UNCHANGED view => Requests!HiddenFromOthers'
  BY <1>0 DEF Requests!HiddenFromOthers
<1>C. Client \subseteq Requests!Caller /\ Tool \in Requests!Caller
  BY DEF Requests!Caller
<1>D. \A i \in Id : docs[i] # NoDoc => docs[i] \in Requests!Document
  BY <1>0 DEF Typed
<1>1. ASSUME NEW c \in Client, Requests!Login(c)
      PROVE  UsersInv'
  <2>1. UNCHANGED <<docs, published, keys, pc, body, target, raised, gone, view>>
    BY <1>1 DEF Requests!Login, Requests!store, Requests!request, Requests!history
  <2>2. \A i \in Requests!Users : docs[i].role \in Requests!Role
    BY <1>D DEF Requests!Users, Requests!Docs, Requests!Document
  <2>3. token' \in [Client -> Requests!Role \cup {"none", "expired"}]
    BY <1>0, <1>1, <2>2 DEF Requests!Login, Requests!Role
  <2>4. Typed'
    BY <1>0, <2>1 DEF Typed
  <2> QED
    BY <1>0, <1>Q, <1>S, <2>1, <2>3, <2>4, BooksSame, SameKeeps
<1>2. ASSUME NEW c \in Client, Requests!Expire(c)
      PROVE  UsersInv'
  <2>1. UNCHANGED <<docs, published, keys, pc, body, target, raised, gone, view>>
    BY <1>2 DEF Requests!Expire, Requests!store, Requests!request, Requests!history
  <2>2. token' \in [Client -> Requests!Role \cup {"none", "expired"}]
    BY <1>0, <1>2 DEF Requests!Expire
  <2>3. Typed'
    BY <1>0, <2>1 DEF Typed
  <2> QED
    BY <1>0, <1>Q, <1>S, <2>1, <2>2, <2>3, BooksSame, SameKeeps
<1>3. ASSUME NEW c \in Requests!Caller, NEW b \in Body, NEW i \in Id,
             NEW s \in {"create", "latest"}, Requests!CheckName(c, b, i, s)
      PROVE  UsersInv'
  <2>1. UNCHANGED <<docs, published, keys, token, raised, gone, view>>
    BY <1>3 DEF Requests!CheckName, Requests!store, Requests!history
  <2>2. /\ pc' = [pc EXCEPT ![c] = s] /\ body' = [body EXCEPT ![c] = b]
        /\ target' = [target EXCEPT ![c] = i]
    BY <1>3 DEF Requests!CheckName
  <2>3. Requesting'
    BY <1>0, <2>1, <2>2, GoKeeps DEF Requesting
  <2>4. Typed'
    BY <1>0, <2>1 DEF Typed
  <2> QED
    BY <1>0, <1>Q, <1>S, <2>1, <2>3, <2>4, BooksSame
<1>4. ASSUME NEW c \in Requests!Caller, Requests!CreateIdentity(c)
      PROVE  UsersInv'
  <2>1. UNCHANGED <<docs, keys, token, raised, gone, view>>
    BY <1>4 DEF Requests!CreateIdentity, Requests!history
  <2>2. PICK i \in Id : /\ published' = published \cup {i}
                        /\ \/ Requests!Answer(c)
                           \/ /\ pc' = [pc EXCEPT ![c] = "insert"]
                              /\ target' = [target EXCEPT ![c] = i]
                              /\ UNCHANGED body
    BY <1>4 DEF Requests!CreateIdentity
  <2>3. published \subseteq published' /\ published' \subseteq Id /\ keys' \subseteq published'
    BY <1>0, <2>1, <2>2 DEF Requesting
  <2>4. Requesting'
    <3>1. CASE Requests!Answer(c)
      BY <1>0, <2>3, <3>1, AnswerKeeps
    <3>2. CASE /\ pc' = [pc EXCEPT ![c] = "insert"]
               /\ target' = [target EXCEPT ![c] = i]
               /\ UNCHANGED body
      <4>1. body[c] \in Body /\ body' = [body EXCEPT ![c] = body[c]]
        BY <1>0, <3>2 DEF Requesting
      <4> QED
        BY <1>0, <2>2, <2>3, <3>2, <4>1, GoKeeps
    <3> QED
      BY <2>2, <3>1, <3>2
  <2>5. Typed'
    BY <1>0, <2>1 DEF Typed
  <2> QED
    BY <1>0, <1>Q, <1>S, <2>1, <2>4, <2>5, BooksSame
<1>5. ASSUME NEW c \in Client, Requests!LatestDocument(c)
      PROVE  UsersInv'
  <2>1. UNCHANGED <<docs, published, keys, token, raised, gone, view>>
    BY <1>5 DEF Requests!LatestDocument, Requests!store, Requests!history
  <2>2. Requesting'
    BY <1>0, <1>5, <1>C, <2>1, GoesOn, AnswerKeeps
       DEF Requests!LatestDocument, Requesting
  <2>3. Typed'
    BY <1>0, <2>1 DEF Typed
  <2> QED
    BY <1>0, <1>Q, <1>S, <2>1, <2>2, <2>3, BooksSame
<1>6. ASSUME NEW c \in Requests!Caller, Requests!InsertUser(c)
      PROVE  UsersInv'
  <2>1. UNCHANGED <<published, keys, token, raised, view>>
    BY <1>6 DEF Requests!InsertUser
  <2>2. PICK i \in Id : i = target[c]
    BY <1>0 DEF Requesting
  <2>3. CASE Requests!Answer(c) /\ UNCHANGED <<docs, gone>>
    <3>1. Typed' /\ Books' /\ Requesting'
      BY <1>0, <2>1, <2>3, BooksSame, AnswerKeeps DEF Typed, Requesting
    <3> QED
      BY <1>0, <1>Q, <1>S, <2>1, <2>3, <3>1
  <2>4. CASE /\ ~Requests!Taken(i, body[c].name) /\ ~(body[c].vcs >= ListLimit)
             /\ docs' = [docs EXCEPT ![i] = Requests!NewUser(c)]
             /\ gone' = gone \ {i}
             /\ \/ Requests!Go(c, "credential") \/ Requests!Go(c, "keys") \/ Requests!Answer(c)
    <3>1. body[c].vcs < ListLimit
      BY <1>0, <2>4, BodyAssumption, BoundAssumption DEF Requesting
    <3>2. PICK d \in Requests!Document :
            d = Requests!NewUser(c) /\ d.role = "User" /\ d.name = body[c].name
      BY <1>0, <3>1, DocTypes DEF Requesting
    <3>3. Typed' /\ Books'
      BY <1>0, <2>1, <2>4, <3>2, BooksKept
    <3>4. target[c] \in published
      BY <1>0, <1>6 DEF Requesting, Reserved, Requests!InsertUser, Requests!At
    <3>5. Requesting'
      <4>1. CASE Requests!Go(c, "credential")
        BY <1>0, <2>1, <4>1, GoesOn
      <4>2. CASE Requests!Go(c, "keys")
        BY <1>0, <2>1, <3>4, <4>2, GoesOn
      <4>3. CASE Requests!Answer(c)
        BY <1>0, <2>1, <4>3, AnswerKeeps DEF Requesting
      <4> QED
        BY <2>4, <4>1, <4>2, <4>3
    <3> QED
      BY <1>0, <1>Q, <1>S, <2>1, <2>4, <3>3, <3>5
  <2> QED
    BY <1>6, <2>2, <2>3, <2>4 DEF Requests!InsertUser
<1>7. ASSUME NEW c \in Requests!Caller, Requests!SaveKeys(c)
      PROVE  UsersInv'
  <2>1. UNCHANGED <<docs, published, token, raised, gone, view>>
    BY <1>7 DEF Requests!SaveKeys, Requests!history
  <2>2. keys' = keys \cup {target[c]} /\ target[c] \in published /\ Requests!Answer(c)
    BY <1>0, <1>7 DEF Requests!SaveKeys, Requests!At, Requesting, Reserved
  <2>3. published \subseteq published' /\ published' \subseteq Id /\ keys' \subseteq published'
    BY <1>0, <2>1, <2>2 DEF Requesting
  <2>4. Typed' /\ Books' /\ Requesting'
    BY <1>0, <2>1, <2>2, <2>3, BooksSame, AnswerKeeps DEF Typed
  <2> QED
    BY <1>0, <1>Q, <1>S, <2>1, <2>4
<1>8. CASE Requests!ToolCredential
  <2>1. UNCHANGED <<published, keys, token, raised, gone, view>>
    BY <1>8 DEF Requests!ToolCredential, Requests!history
  <2>2. PICK i \in Id : i = target[Tool]
    BY <1>0, <1>C DEF Requesting
  <2>3. CASE Requests!Answer(Tool) /\ UNCHANGED docs
    <3>1. Typed' /\ Books' /\ Requesting'
      BY <1>0, <1>C, <2>1, <2>3, BooksSame, AnswerKeeps DEF Typed, Requesting
    <3> QED
      BY <1>0, <1>Q, <1>S, <2>1, <3>1
  <2>4. CASE /\ i \in Requests!Docs => docs[i].vcs < ListLimit
             /\ docs' = [docs EXCEPT ![i] = Requests!Holder(i)]
             /\ Requests!Go(Tool, "role")
    <3>1. Requesting'
      BY <1>0, <1>C, <2>1, <2>4, GoesOn
    <3>2. CASE i \in Requests!Docs
      <4>1. PICK q \in Requests!Document : q = docs[i] /\ q.vcs < ListLimit
        BY <1>D, <2>4, <3>2 DEF Requests!Docs
      <4>2. PICK d \in Requests!Document : /\ d = [q EXCEPT !.vcs = @ + 1] /\ d.name = q.name
                                           /\ d.hasId = q.hasId /\ d.role = q.role
        BY <4>1, DocTypes
      <4>3. docs' = [docs EXCEPT ![i] = d]
        BY <2>4, <3>2, <4>1, <4>2 DEF Requests!Holder
      <4>4. d.role # "User" => i \in raised
        BY <1>0, <3>2, <4>1, <4>2 DEF Books
      <4>5. ~Requests!Taken(i, d.name) /\ (d.hasId => i \notin gone)
        BY <1>0, <3>2, <4>1, <4>2, SameName
      <4>6. Typed' /\ Books'
        BY <1>0, <2>1, <4>3, <4>4, <4>5, BooksKept
      <4> QED
        BY <1>0, <1>Q, <1>S, <2>1, <3>1, <4>6
    <3>3. CASE i \notin Requests!Docs
      <4>1. PICK d \in Requests!Document : /\ d = [Requests!NewGhost EXCEPT !.vcs = 1]
                                           /\ d.name = Unset /\ d.role = "User" /\ ~d.hasId
        BY DocTypes
      <4>2. docs' = [docs EXCEPT ![i] = d]
        BY <2>4, <3>3, <4>1 DEF Requests!Holder
      <4>3. ~Requests!Taken(i, d.name)
        BY <4>1 DEF Requests!Taken
      <4>4. Typed' /\ Books'
        BY <1>0, <2>1, <4>1, <4>2, <4>3, BooksKept
      <4> QED
        BY <1>0, <1>Q, <1>S, <2>1, <3>1, <4>4
    <3> QED
      BY <3>2, <3>3
  <2>5. i \in Requests!Docs /\ ~(docs[i].vcs >= ListLimit) => docs[i].vcs < ListLimit
    BY <1>D, BoundAssumption DEF Requests!Docs, Requests!Document
  <2>6. CASE i \in Requests!Docs /\ docs[i].vcs >= ListLimit
    BY <1>8, <2>2, <2>3, <2>6, Zenon DEF Requests!ToolCredential
  <2>7. CASE ~(i \in Requests!Docs /\ docs[i].vcs >= ListLimit)
    <3>1. docs' = [docs EXCEPT ![i] = Requests!Holder(i)] /\ Requests!Go(Tool, "role")
      BY <1>8, <2>2, <2>7 DEF Requests!ToolCredential
    <3> QED
      BY <2>4, <2>5, <2>7, <3>1
  <2> QED
    BY <2>6, <2>7
<1>9. CASE Requests!SetAdminRole
  <2>1. UNCHANGED <<published, keys, token, gone, view>> /\ Requests!Answer(Tool)
    BY <1>9 DEF Requests!SetAdminRole
  <2>2. PICK i \in Id : i = target[Tool]
    BY <1>0, <1>C DEF Requesting
  <2>3. Requesting'
    BY <1>0, <1>C, <2>1, AnswerKeeps DEF Requesting
  <2>4. CASE docs[i] = NoDoc
    <3>1. UNCHANGED <<docs, raised>>
      BY <1>9, <2>2, <2>4 DEF Requests!SetAdminRole
    <3>2. Typed' /\ Books'
      BY <1>0, <2>1, <3>1, BooksSame DEF Typed
    <3> QED
      BY <1>0, <1>Q, <1>S, <2>1, <2>3, <3>1, <3>2
  <2>5. CASE docs[i] # NoDoc
    <3>1. docs' = [docs EXCEPT ![i].role = "Admin"] /\ raised' = raised \cup {i}
      BY <1>9, <2>2, <2>5 DEF Requests!SetAdminRole
    <3>2. PICK q \in Requests!Document : q = docs[i]
      BY <1>D, <2>5
    <3>3. PICK d \in Requests!Document : /\ d = [q EXCEPT !.role = "Admin"] /\ d.name = q.name
                                         /\ d.hasId = q.hasId
      BY DocTypes
    <3>4. docs' = [docs EXCEPT ![i] = d]
      BY <3>1, <3>2, <3>3
    <3>5. ~Requests!Taken(i, d.name) /\ (d.hasId => i \notin gone)
      BY <1>0, <2>5, <3>2, <3>3, SameName DEF Requests!Docs
    <3>6. Typed' /\ Books'
      BY <1>0, <2>1, <3>1, <3>4, <3>5, BooksKept
    <3> QED
      BY <1>0, <1>Q, <1>S, <2>1, <2>3, <3>1, <3>6
  <2> QED
    BY <2>4, <2>5
<1>10. ASSUME NEW c \in Client, NEW i \in Id, NEW p \in Patch, Requests!UpdateUser(c, i, p)
       PROVE  UsersInv'
  <2>1. UNCHANGED <<published, keys, token, pc, body, target, gone, view>>
    BY <1>10 DEF Requests!UpdateUser, Requests!request
  <2>2. i \in Requests!Docs /\ ~Requests!Taken(i, p.name)
    BY <1>10 DEF Requests!UpdateUser
  <2>3. PICK q \in Requests!Document : q = docs[i]
    BY <1>D, <2>2 DEF Requests!Docs
  <2>4. PICK d \in Requests!Document :
          /\ d = Requests!Patched(q, p) /\ d.hasId = q.hasId /\ d.name \in {q.name, p.name}
          /\ p.role = Unset => d.role = q.role
    BY PatchedDoc
  <2>5. docs' = [docs EXCEPT ![i] = d]
    BY <1>10, <2>3, <2>4 DEF Requests!UpdateUser
  <2>6. /\ p.role = Unset => raised' = raised
        /\ p.role # Unset => raised' = raised \cup {i}
    BY <1>10 DEF Requests!UpdateUser
  <2>7. d.role # "User" => i \in raised'
    BY <1>0, <2>2, <2>3, <2>4, <2>6 DEF Books
  <2>8. ~Requests!Taken(i, q.name) /\ (q.hasId => i \notin gone)
    BY <1>0, <2>2, <2>3, SameName
  <2>9. Typed' /\ Books'
    <3>1. ~Requests!Taken(i, d.name) /\ (d.hasId => i \notin gone')
      BY <2>1, <2>2, <2>4, <2>8
    <3>2. raised \ {i} \subseteq raised' /\ gone' \subseteq gone \cup {i}
      BY <2>1, <2>6
    <3> QED
      BY <1>0, <2>5, <2>7, <3>1, <3>2, BooksKept
  <2>10. Requesting' /\ raised' \subseteq Id
    BY <1>0, <2>1, <2>6, SameKeeps
  <2> QED
    BY <1>0, <1>Q, <1>S, <2>1, <2>9, <2>10
<1>11. ASSUME NEW c \in Client, NEW i \in Id, Requests!DeleteStart(c, i)
       PROVE  UsersInv'
  <2>1. UNCHANGED <<docs, published, keys, token, body, raised, gone, view>>
    BY <1>11 DEF Requests!DeleteStart, Requests!store, Requests!history
  <2>2. pc' = [pc EXCEPT ![c] = "delete"] /\ target' = [target EXCEPT ![c] = i]
    BY <1>11 DEF Requests!DeleteStart
  <2>3. body[c] \in Body /\ body' = [body EXCEPT ![c] = body[c]]
    BY <1>0, <1>C, <2>1 DEF Requesting
  <2>4. Requesting'
    BY <1>0, <1>C, <2>1, <2>2, <2>3, GoKeeps DEF Requesting
  <2>5. Typed' /\ Books'
    BY <1>0, <2>1, BooksSame DEF Typed
  <2> QED
    BY <1>0, <1>Q, <1>S, <2>1, <2>4, <2>5
<1>12. ASSUME NEW c \in Client, Requests!DeleteUser(c)
       PROVE  UsersInv'
  <2>1. UNCHANGED <<published, keys, token, view>> /\ Requests!Answer(c)
    BY <1>12 DEF Requests!DeleteUser
  <2>2. PICK i \in Id : i = target[c]
    BY <1>0, <1>C DEF Requesting
  <2>3. /\ docs' = [docs EXCEPT ![i] = NoDoc] /\ raised' = raised \ {i}
        /\ gone' \subseteq gone \cup {i}
    BY <1>12, <2>2 DEF Requests!DeleteUser
  <2>4. Typed' /\ Books'
    BY <1>0, <2>3, BooksKept
  <2>5. Requesting'
    BY <1>0, <1>C, <2>1, AnswerKeeps DEF Requesting
  <2> QED
    BY <1>0, <1>Q, <1>S, <2>1, <2>3, <2>4, <2>5
<1>13. ASSUME NEW c \in Client, NEW i \in Id, Requests!GetUser(c, i)
       PROVE  UsersInv'
  <2>1. UNCHANGED <<docs, published, keys, token, pc, body, target, raised, gone>>
    BY <1>13 DEF Requests!GetUser, Requests!store, Requests!request
  <2>2. Requests!HiddenFromOthers'
    BY <1>13 DEF Requests!GetUser, Requests!Shows, Requests!IsAuthorized,
                 Requests!HiddenFromOthers
  <2>3. Typed' /\ Books' /\ Requesting'
    BY <1>0, <2>1, BooksSame, SameKeeps DEF Typed
  <2> QED
    BY <1>0, <1>Q, <2>1, <2>2, <2>3
<1>14. ASSUME NEW c \in Client, NEW n \in Name \cup {Unset}, Requests!SearchUsers(c, n)
       PROVE  UsersInv'
  <2>1. UNCHANGED <<docs, published, keys, token, pc, body, target, raised, gone>>
    BY <1>14 DEF Requests!SearchUsers, Requests!store, Requests!request
  <2>2. Requests!HiddenFromOthers'
    BY <1>14 DEF Requests!SearchUsers, Requests!HiddenFromOthers
  <2>3. Typed' /\ Books' /\ Requesting'
    BY <1>0, <2>1, BooksSame, SameKeeps DEF Typed
  <2> QED
    BY <1>0, <1>Q, <2>1, <2>2, <2>3
<1>15. CASE UNCHANGED Requests!vars
  <2>1. UNCHANGED <<docs, published, keys, token, pc, body, target, raised, gone, view>>
    BY <1>15 DEF Requests!vars, Requests!store, Requests!request, Requests!history
  <2>2. Typed' /\ Books' /\ Requesting'
    BY <1>0, <2>1, BooksSame, SameKeeps DEF Typed
  <2> QED
    BY <1>0, <1>Q, <1>S, <2>1, <2>2
<1>16. ASSUME NEW c \in Client, NEW b \in Body, Requests!CreateStart(c, b)
       PROVE  UsersInv'
  BY <1>16, <1>3, <1>C, NoBodyType DEF Requests!CreateStart
<1>17. ASSUME NEW c \in Client, NEW b \in Body, NEW i \in Id, Requests!AddStart(c, b, i)
       PROVE  UsersInv'
  BY <1>17, <1>3, <1>C DEF Requests!AddStart
<1>18. ASSUME NEW b \in Body, Requests!ToolStart(b)
       PROVE  UsersInv'
  BY <1>18, <1>3, <1>C, NoBodyType DEF Requests!ToolStart
<1> QED
  BY <1>1, <1>2, <1>4, <1>5, <1>6, <1>7, <1>8, <1>9, <1>10, <1>11, <1>12, <1>13, <1>14, <1>15,
     <1>16, <1>17, <1>18 DEF Requests!Next

\* A name finds one user at most, although it is looked at before a user is
\* inserted or changed; nobody is more than a User who was not made so; no
\* late request brings a deleted user back; nobody sees what is hidden.
THEOREM SpecUsersHold == Requests!Spec => []UsersHold
<1>1. UsersInv => UsersHold
  <2> SUFFICES ASSUME UsersInv PROVE UsersHold
    OBVIOUS
  <2>1. Requests!OneUserPerName
    <3> SUFFICES ASSUME NEW n \in Name PROVE Cardinality(Requests!Named(n)) <= 1
      BY UsersCardinality DEF Requests!OneUserPerName
    <3>1. n # Unset /\ NamesDiffer
      BY BodyAssumption DEF UsersInv, Books
    <3>2. \A i \in Requests!Named(n) : i \in Requests!Docs /\ docs[i].name = n
      BY DEF Requests!Named, Requests!Users
    <3>3. ASSUME NEW i \in Requests!Named(n), NEW j \in Requests!Named(n) PROVE i = j
      <4>1. docs[i].name = docs[j].name /\ docs[i].name # Unset
        BY <3>1, <3>2
      <4> QED
        BY <3>1, <3>2, <4>1 DEF NamesDiffer
    <3>4. Requests!Named(n) = {} \/ \E i : Requests!Named(n) = {i}
      BY <3>3
    <3>5. Cardinality(Requests!Named(n)) \in {0, 1}
      BY <3>4, FS_EmptySet, FS_Singleton
    <3> QED
      BY <3>5
  <2>2. Requests!RolesAreGiven
    BY DEF UsersInv, Books, Requests!RolesAreGiven, Requests!Users
  <2> QED
    BY <2>1, <2>2 DEF UsersInv, Books, UsersHold
<1> QED
  BY <1>1, UsersInit, UsersStep, PTL DEF Requests!Spec

-----------------------------------------------------------------------------
(* Logins.                                                                 *)

\* While a login is under way the role of its identity is one that it held,
\* and so is the role that the login has read.
Holding ==
  \A c \in Client :
    /\ Login!UnderWay(c) => Login!RoleOf(role[Owner[c]]) \in held[c]
    /\ phase[c] = "proving" => loaded[c] \in held[c]

\* Whose nonce was replaced knows that it was disturbed.
Replaced ==
  \A c \in Client :
    phase[c] \in {"signing", "sent", "proving"} /\ nonce[Owner[c]] # c => disturbed[c]

LoginInv == Login!TypeOK /\ Holding /\ Replaced /\ Login!RefusedForAReason

\* What the role of a token was before.
TokenWasHeld ==
  \A c \in Client : jwts'[c] \notin {jwts[c], "none"} => jwts'[c] \in held[c]

LEMMA LoginInit == Login!Init => LoginInv
<1> SUFFICES ASSUME Login!Init PROVE LoginInv
  OBVIOUS
<1> USE DEF Login!Init
<1>1. Login!TypeOK
  BY DEF Login!TypeOK, Login!Role, Login!Phase
<1>2. Holding /\ Replaced /\ Login!RefusedForAReason
  BY DEF Holding, Replaced, Login!RefusedForAReason, Login!UnderWay
<1> QED
  BY <1>1, <1>2 DEF LoginInv

\* A role changes: whoever is under way with the identity gets to hold it.
LEMMA SetRoleStep ==
  ASSUME LoginInv, NEW i \in Id, NEW r \in Login!Role \cup {"none"}, Login!SetRole(i, r)
  PROVE  LoginInv' /\ TokenWasHeld
<1> USE OwnerAssumption DEF LoginInv, Login!TypeOK
<1>1. Login!RoleOf(r) \in Login!Role
  BY DEF Login!RoleOf, Login!Role
<1>2. UNCHANGED <<nonce, phase, loaded, jwts, disturbed>> /\ role' = [role EXCEPT ![i] = r]
  BY DEF Login!SetRole
<1>3. \A c \in Client : /\ Owner[c] = i /\ Login!UnderWay(c) =>
                             held'[c] = held[c] \cup {Login!RoleOf(r)}
                        /\ ~(Owner[c] = i /\ Login!UnderWay(c)) => held'[c] = held[c]
  BY DEF Login!SetRole
<1>4. held' \in [Client -> SUBSET Login!Role]
  <2>1. held' = [c \in Client |->
                   IF Owner[c] = i /\ Login!UnderWay(c) THEN held[c] \cup {Login!RoleOf(r)}
                   ELSE held[c]]
    BY DEF Login!SetRole
  <2>2. \A c \in Client : held[c] \subseteq Login!Role
    OBVIOUS
  <2> QED
    BY <1>1, <2>1, <2>2
<1>5. Login!TypeOK'
  BY <1>2, <1>4
<1>6. Holding'
  BY <1>2, <1>3 DEF Holding, Login!UnderWay
<1>7. Replaced' /\ Login!RefusedForAReason'
  BY <1>2 DEF Replaced, Login!RefusedForAReason
<1> QED
  BY <1>2, <1>5, <1>6, <1>7 DEF TokenWasHeld

\* One step per action.
LEMMA LoginStep == LoginInv /\ [Login!Next]_Login!vars => LoginInv' /\ TokenWasHeld
<1> SUFFICES ASSUME LoginInv, [Login!Next]_Login!vars
             PROVE  LoginInv' /\ TokenWasHeld
  OBVIOUS
<1> USE OwnerAssumption DEF LoginInv, Login!TypeOK
<1>1. ASSUME NEW c \in Client, Login!GetNonce(c)
      PROVE  LoginInv' /\ TokenWasHeld
  <2>1. UNCHANGED <<role, loaded, jwts, held>> /\ phase[c] \in {"out", "in", "failed"}
    BY <1>1 DEF Login!GetNonce
  <2>2. PICK n \in {c, Nobody}, p \in {"signing", "out"} :
          /\ nonce' = [nonce EXCEPT ![Owner[c]] = n] /\ phase' = [phase EXCEPT ![c] = p]
          /\ p = "signing" => n = c
    BY <1>1 DEF Login!GetNonce
  <2>3. disturbed' = [d \in Client |->
          d # c /\ (disturbed[d] \/ (Owner[d] = Owner[c] /\ (phase[d] = "signing"
                                                              \/ Login!UnderWay(d))))]
    BY <1>1 DEF Login!GetNonce, Login!Disturb
  <2>4. Login!TypeOK'
    BY <2>1, <2>2, <2>3 DEF Login!Phase
  <2>5. Holding'
    BY <2>1, <2>2 DEF Holding, Login!UnderWay
  <2>6. Replaced'
    <3> SUFFICES ASSUME NEW d \in Client, phase'[d] \in {"signing", "sent", "proving"},
                        nonce'[Owner[d]] # d
                 PROVE  disturbed'[d]
      BY DEF Replaced
    <3>1. d # c
      BY <2>2
    <3>2. phase[d] \in {"signing", "sent", "proving"}
      BY <2>2, <3>1
    <3>3. disturbed[d] \/ Owner[d] = Owner[c]
      BY <2>2, <3>2 DEF Replaced
    <3> QED
      BY <2>3, <3>1, <3>2, <3>3, Zenon DEF Login!UnderWay
  <2>7. Login!RefusedForAReason'
    BY <2>2, <2>3 DEF Login!RefusedForAReason
  <2> QED
    BY <2>1, <2>4, <2>5, <2>6, <2>7 DEF TokenWasHeld
<1>2. ASSUME NEW c \in Client, Login!Send(c)
      PROVE  LoginInv' /\ TokenWasHeld
  <2>1. /\ UNCHANGED <<role, nonce, loaded, jwts, disturbed>> /\ phase[c] = "signing"
        /\ phase' = [phase EXCEPT ![c] = "sent"]
        /\ held' = [held EXCEPT ![c] = {Login!RoleOf(role[Owner[c]])}]
    BY <1>2 DEF Login!Send
  <2>2. Login!RoleOf(role[Owner[c]]) \in Login!Role
    BY DEF Login!RoleOf, Login!Role
  <2>3. Login!TypeOK'
    BY <2>1, <2>2 DEF Login!Phase
  <2>4. Holding'
    BY <2>1 DEF Holding, Login!UnderWay
  <2>5. Replaced' /\ Login!RefusedForAReason'
    BY <2>1 DEF Replaced, Login!RefusedForAReason
  <2> QED
    BY <2>1, <2>3, <2>4, <2>5 DEF TokenWasHeld
<1>3. ASSUME NEW c \in Client, Login!Load(c)
      PROVE  LoginInv' /\ TokenWasHeld
  <2>1. /\ UNCHANGED <<role, nonce, jwts, held, disturbed>> /\ phase[c] = "sent"
        /\ phase' = [phase EXCEPT ![c] = "proving"]
        /\ loaded' = [loaded EXCEPT ![c] = Login!RoleOf(role[Owner[c]])]
    BY <1>3 DEF Login!Load
  <2>2. Login!RoleOf(role[Owner[c]]) \in Login!Role
    BY DEF Login!RoleOf, Login!Role
  <2>3. Login!TypeOK'
    BY <2>1, <2>2 DEF Login!Phase
  <2>4. Holding'
    BY <2>1 DEF Holding, Login!UnderWay
  <2>5. Replaced' /\ Login!RefusedForAReason'
    BY <2>1 DEF Replaced, Login!RefusedForAReason
  <2> QED
    BY <2>1, <2>3, <2>4, <2>5 DEF TokenWasHeld
<1>4. ASSUME NEW c \in Client, Login!Prove(c)
      PROVE  LoginInv' /\ TokenWasHeld
  <2>1. /\ UNCHANGED <<role, nonce, disturbed>> /\ phase[c] = "proving"
        /\ loaded' = [loaded EXCEPT ![c] = "none"] /\ held' = [held EXCEPT ![c] = {}]
    BY <1>4 DEF Login!Prove, Login!Forget
  <2>2. PICK p \in {"in", "failed"} : phase' = [phase EXCEPT ![c] = p]
                                      /\ (p = "failed" => nonce[Owner[c]] # c)
    BY <1>4 DEF Login!Prove
  <2>3. jwts' \in {jwts, [jwts EXCEPT ![c] = loaded[c]]}
    BY <1>4 DEF Login!Prove
  <2>4. Login!TypeOK'
    BY <2>1, <2>2, <2>3 DEF Login!Phase
  <2>5. Holding'
    BY <2>1, <2>2 DEF Holding, Login!UnderWay
  <2>6. Replaced'
    BY <2>1, <2>2 DEF Replaced
  <2>7. Login!RefusedForAReason'
    BY <2>1, <2>2 DEF Replaced, Login!RefusedForAReason
  <2>8. TokenWasHeld
    BY <2>1, <2>3 DEF Holding, TokenWasHeld
  <2> QED
    BY <2>4, <2>5, <2>6, <2>7, <2>8
<1>5. ASSUME NEW c \in Client, Login!Expire(c)
      PROVE  LoginInv' /\ TokenWasHeld
  <2>1. /\ UNCHANGED <<role, nonce, phase, loaded, held, disturbed>>
        /\ jwts' = [jwts EXCEPT ![c] = "none"]
    BY <1>5 DEF Login!Expire
  <2>2. Login!TypeOK' /\ TokenWasHeld
    BY <2>1 DEF TokenWasHeld
  <2>3. Holding' /\ Replaced' /\ Login!RefusedForAReason'
    BY <2>1 DEF Holding, Replaced, Login!RefusedForAReason, Login!UnderWay
  <2> QED
    BY <2>2, <2>3
<1>6. ASSUME NEW i \in Id, Login!AddUser(i)
      PROVE  LoginInv' /\ TokenWasHeld
  BY <1>6, SetRoleStep DEF Login!AddUser, Login!Role
<1>7. ASSUME NEW c \in Client, NEW i \in Id, Login!DeleteUser(c, i)
      PROVE  LoginInv' /\ TokenWasHeld
  BY <1>7, SetRoleStep DEF Login!DeleteUser
<1>8. ASSUME NEW c \in Client, NEW i \in Id, NEW r \in Login!Role, Login!UpdateUser(c, i, r)
      PROVE  LoginInv' /\ TokenWasHeld
  BY <1>8, SetRoleStep DEF Login!UpdateUser
<1>9. CASE UNCHANGED Login!vars
  <2>1. UNCHANGED <<role, nonce, phase, loaded, jwts, held, disturbed>>
    BY <1>9 DEF Login!vars
  <2>2. Login!TypeOK' /\ TokenWasHeld
    BY <2>1 DEF TokenWasHeld
  <2>3. Holding' /\ Replaced' /\ Login!RefusedForAReason'
    BY <2>1 DEF Holding, Replaced, Login!RefusedForAReason, Login!UnderWay
  <2> QED
    BY <2>2, <2>3
<1> QED
  BY <1>1, <1>2, <1>3, <1>4, <1>5, <1>6, <1>7, <1>8, <1>9 DEF Login!Next, Login!Login

\* The role in a new JWT is one that the identity had while the login was
\* under way; a login fails only when another nonce was made for it.
THEOREM SpecLoginsHold == Login!Spec => LoginsHold
<1>1. LoginInv => Login!TypeOK /\ Login!RefusedForAReason
  BY DEF LoginInv
<1>2. LoginInv /\ [Login!Next]_Login!vars =>
        [\A c \in Client : jwts'[c] \notin {jwts[c], "none"} => jwts'[c] \in held[c]]_Login!vars
  BY LoginStep DEF TokenWasHeld
<1>3. LoginInv /\ [Login!Next]_Login!vars => LoginInv'
  BY LoginStep
<1> QED
  BY <1>1, <1>2, <1>3, LoginInit, PTL DEF Login!Spec, LoginsHold, Login!RoleWasHeld

-----------------------------------------------------------------------------
(* The root identity.                                                      *)

\* The types, with as many credentials as there may be.
Local ==
  /\ stage \in [Setup -> Rooting!Step] /\ found \in [Setup -> Id \cup {NoIdent}]
  /\ bare \in [Setup -> BOOLEAN] /\ next \in [Setup -> Nat]

Stored ==
  /\ unique \in BOOLEAN
  /\ root \subseteq Id /\ trusted \subseteq Id /\ service \subseteq Id
  /\ bitmap \subseteq Id /\ listed \subseteq Id
  /\ rootKeys \in [Id -> Secret \cup {NoKeys}]
  /\ issued \in [Id -> Nat]

Deployed == secret \in Secret /\ server \in {"up", "down"} /\ crashes \in 0 .. MaxCrashes

\* What a setup at a step has seen to.
Rest == {"off", "done"}
WithRoot == Rooting!Step \ {"off", "done", "look", "create"}
AfterBitmap == {"saving", "decide", "store", "list"}

Prepared ==
  \A s \in Setup :
    /\ stage[s] \in WithRoot => found[s] \in Id
    /\ stage[s] \notin Rest => unique
    /\ stage[s] \in AfterBitmap => found[s] \in service
    /\ stage[s] = "store" => bare[s]

\* The index on the names is older than any root.
RootIsUnique == (\A i, j \in root : i = j) /\ (root # {} => unique)

\* Setups that have issued a credential to a root without one, and those
\* that will not issue one to a root that has one.
Undecided == {"trust", "trusting", "bitmap", "publish", "saving", "decide", "store"}
WillIssue(i) == {s \in Setup : found[s] = i /\ bare[s] /\ stage[s] \in Undecided}
HasIssued(i) == {s \in Setup : found[s] = i /\ stage[s] = "list"}
Accounted(i) == IF i \in listed THEN Setup \ WillIssue(i) ELSE HasIssued(i)

\* For each credential there is such a setup, or one that died.
Bounded == \A i \in Id : issued[i] <= Cardinality(Accounted(i)) + crashes

RootInv ==
  /\ Local /\ Stored /\ Deployed
  /\ Prepared /\ RootIsUnique /\ Rooting!BitmapIsPublished /\ Bounded

\* What a step does to the setup that takes it.
Moves(s, t, i, b, n) ==
  /\ stage' = [stage EXCEPT ![s] = t] /\ found' = [found EXCEPT ![s] = i]
  /\ bare' = [bare EXCEPT ![s] = b] /\ next' = [next EXCEPT ![s] = n]

LEMMA MovesOn ==
  ASSUME Local, NEW s \in Setup, NEW t
  PROVE  /\ Rooting!Continue(s, t) => Moves(s, t, found[s], bare[s], next[s])
         /\ Rooting!Leave(s, t) => Moves(s, t, NoIdent, FALSE, 0)
  BY DEF Local, Moves, Rooting!Continue, Rooting!Leave, Rooting!Go

LEMMA LocalKept ==
  ASSUME Local, NEW s \in Setup, NEW t \in Rooting!Step, NEW i \in Id \cup {NoIdent},
         NEW b \in BOOLEAN, NEW n \in Nat, Moves(s, t, i, b, n)
  PROVE  /\ Local'
         /\ stage'[s] = t /\ found'[s] = i /\ bare'[s] = b /\ next'[s] = n
         /\ \A u \in Setup \ {s} : stage'[u] = stage[u] /\ found'[u] = found[u] /\ bare'[u] = bare[u]
  BY DEF Local, Moves

\* Whose setup moves on is prepared if it was before, and is now.
LEMMA PreparedKept ==
  ASSUME Local, Prepared, NEW s \in Setup, NEW t \in Rooting!Step, NEW i \in Id \cup {NoIdent},
         NEW b \in BOOLEAN, NEW n \in Nat, Moves(s, t, i, b, n),
         unique => unique', service \subseteq service',
         t \in WithRoot => i \in Id,
         t \notin Rest => unique',
         t \in AfterBitmap => i \in service',
         t = "store" => b
  PROVE  Prepared'
  BY LocalKept DEF Prepared

LEMMA AccountedFinite ==
  \A i \in Id : /\ Accounted(i) \subseteq Setup /\ IsFiniteSet(Accounted(i))
                /\ Cardinality(Accounted(i)) \in Nat
                /\ Cardinality(Accounted(i)) <= Cardinality(Setup)
<1> TAKE i \in Id
<1>1. Accounted(i) \subseteq Setup
  BY DEF Accounted, WillIssue, HasIssued
<1> QED
  BY <1>1, SetupAssumption, FS_Subset, FS_CardinalityType

\* The bound stays as long as nobody is forgotten.
LEMMA BoundedKept ==
  ASSUME Bounded, Stored, Deployed, UNCHANGED <<issued, crashes>>,
         \A i \in Id : Accounted(i) \subseteq Accounted(i)' /\ Accounted(i)' \subseteq Setup
  PROVE  Bounded'
<1> SUFFICES ASSUME NEW i \in Id
             PROVE  issued[i] <= Cardinality(Accounted(i)') + crashes
  BY DEF Bounded
<1>1. PICK old : old = Accounted(i)
  OBVIOUS
<1>2. PICK new : new = Accounted(i)'
  OBVIOUS
<1>3. old \subseteq new /\ new \subseteq Setup
  BY <1>1, <1>2
<1>4. /\ Cardinality(old) \in Nat /\ Cardinality(new) \in Nat
      /\ Cardinality(old) <= Cardinality(new)
  BY <1>3, SetupAssumption, FS_Subset, FS_CardinalityType
<1>5. issued[i] <= Cardinality(old) + crashes
  BY <1>1 DEF Bounded
<1>6. issued[i] <= Cardinality(new) + crashes
  BY <1>4, <1>5 DEF Stored, Deployed
<1> QED
  BY <1>2, <1>6

\* A step that neither issues nor lists a credential, nor decides to.
LEMMA QuietStep ==
  ASSUME RootInv, NEW s \in Setup, NEW t \in Rooting!Step, NEW i \in Id \cup {NoIdent},
         NEW b \in BOOLEAN, NEW n \in Nat, Moves(s, t, i, b, n),
         stage[s] # "list", UNCHANGED <<issued, listed, crashes>>,
         t \in Undecided /\ b /\ i \in listed =>
           stage[s] \in Undecided /\ i = found[s] /\ bare[s]
  PROVE  Bounded'
<1>1. ASSUME NEW j \in Id
      PROVE  Accounted(j) \subseteq Accounted(j)' /\ Accounted(j)' \subseteq Setup
  <2>1. /\ stage'[s] = t /\ found'[s] = i /\ bare'[s] = b
        /\ \A u \in Setup \ {s} : stage'[u] = stage[u] /\ found'[u] = found[u] /\ bare'[u] = bare[u]
    BY LocalKept DEF RootInv
  <2>2. j \in listed => WillIssue(j)' \subseteq WillIssue(j)
    BY <2>1 DEF WillIssue
  <2>3. HasIssued(j) \subseteq HasIssued(j)'
    BY <2>1 DEF HasIssued
  <2>4. HasIssued(j)' \subseteq Setup
    BY DEF HasIssued
  <2> QED
    BY <2>2, <2>3, <2>4 DEF Accounted
<1> QED
  BY <1>1, BoundedKept DEF RootInv

LEMMA RootInit == Rooting!Init => RootInv
<1> SUFFICES ASSUME Rooting!Init PROVE RootInv
  OBVIOUS
<1> USE DEF Rooting!Init
<1>1. Local /\ Stored /\ Deployed
  <2>1. Local
    BY DEF Local, Rooting!Step
  <2>2. Stored
    BY DEF Stored
  <2>3. Deployed
    BY BoundAssumption DEF Deployed
  <2> QED
    BY <2>1, <2>2, <2>3
<1>2. Prepared /\ RootIsUnique /\ Rooting!BitmapIsPublished
  BY DEF Prepared, Rest, WithRoot, AfterBitmap, RootIsUnique, Rooting!BitmapIsPublished
<1>3. Bounded
  BY AccountedFinite DEF Bounded
<1> QED
  BY <1>1, <1>2, <1>3 DEF RootInv

\* A quiet step that changes no more than the documents it names.
LEMMA QuietKeeps ==
  ASSUME RootInv, NEW s \in Setup, NEW t \in Rooting!Step, NEW i \in Id \cup {NoIdent},
         NEW b \in BOOLEAN, NEW n \in Nat, Moves(s, t, i, b, n),
         stage[s] # "list", UNCHANGED <<issued, listed, Rooting!deployment>>,
         t \in Undecided /\ b /\ i \in listed =>
           stage[s] \in Undecided /\ i = found[s] /\ bare[s],
         t \in WithRoot => i \in Id,
         t \notin Rest => unique',
         t \in AfterBitmap => i \in service',
         t = "store" => b,
         unique => unique', unique' \in BOOLEAN,
         root' = root \/ (unique' /\ root' \subseteq Id /\ \A j, k \in root' : j = k),
         rootKeys' \in [Id -> Secret \cup {NoKeys}], trusted' \subseteq Id,
         service \subseteq service', service' \subseteq Id, bitmap' \subseteq service'
  PROVE  RootInv'
<1>1. UNCHANGED <<secret, server, crashes>>
  BY DEF Rooting!deployment
<1>2. Bounded'
  BY <1>1, QuietStep
<1>3. Local' /\ Prepared'
  BY LocalKept, PreparedKept DEF RootInv
<1>4. Stored'
  BY DEF RootInv, Stored
<1>5. Deployed'
  BY <1>1 DEF RootInv, Deployed
<1>6. RootIsUnique'
  BY DEF RootInv, RootIsUnique
<1>7. Rooting!BitmapIsPublished'
  BY DEF RootInv, Rooting!BitmapIsPublished
<1> QED
  BY <1>2, <1>3, <1>4, <1>5, <1>6, <1>7 DEF RootInv

\* The steps of a setup that neither issue a credential nor list it.
LEMMA QuietSteps ==
  ASSUME RootInv, NEW s \in Setup, UNCHANGED Rooting!deployment,
         \/ Rooting!Seed(s) \/ Rooting!Look(s) \/ Rooting!Open(s) \/ Rooting!AddUser(s)
         \/ Rooting!SaveKeys(s) \/ Rooting!ReadUser(s) \/ Rooting!ReadRoots(s)
         \/ Rooting!AddRoot(s) \/ Rooting!ReadBitmap(s) \/ Rooting!PublishBitmap(s)
         \/ Rooting!SaveBitmap(s) \/ Rooting!Decide(s)
  PROVE  RootInv'
<1> USE DEF Rest, WithRoot, AfterBitmap, Undecided, Rooting!Step, Rooting!At
<1>1. /\ Local /\ Stored /\ Prepared /\ RootIsUnique /\ bitmap \subseteq service
      /\ found[s] \in Id \cup {NoIdent} /\ bare[s] \in BOOLEAN /\ next[s] \in Nat
      /\ stage[s] \in Rooting!Step
  BY DEF RootInv, Local, Rooting!BitmapIsPublished
<1>2. /\ unique \in BOOLEAN /\ root \subseteq Id /\ trusted \subseteq Id /\ service \subseteq Id
      /\ bitmap \subseteq Id /\ rootKeys \in [Id -> Secret \cup {NoKeys}]
      /\ issued \in [Id -> Nat] /\ secret \in Secret
  BY DEF RootInv, Stored, Deployed
<1>3. /\ stage[s] \in WithRoot => found[s] \in Id
      /\ stage[s] \notin Rest => unique
      /\ stage[s] \in AfterBitmap => found[s] \in service
  BY <1>1 DEF Prepared
\* The setup is over, or begins again.
<1>4. ASSUME stage[s] # "list", stage[s] # "off", NEW t \in Rest, Rooting!Leave(s, t),
             UNCHANGED Rooting!store
      PROVE  RootInv'
  <2>1. UNCHANGED <<unique, root, rootKeys, trusted, service, bitmap, issued, listed>>
    BY <1>4 DEF Rooting!store
  <2>2. Moves(s, t, NoIdent, FALSE, 0)
    BY <1>1, <1>4, MovesOn
  <2>3. /\ t \in Rooting!Step /\ t # "store"
        /\ t \notin Undecided /\ t \notin WithRoot /\ t \notin AfterBitmap
    OBVIOUS
  <2>4. /\ root' = root /\ (unique => unique') /\ unique' \in BOOLEAN
        /\ rootKeys' \in [Id -> Secret \cup {NoKeys}] /\ trusted' \subseteq Id
        /\ service \subseteq service' /\ service' \subseteq Id /\ bitmap' \subseteq service'
    BY <1>1, <1>2, <2>1
  <2> HIDE DEF Rest, WithRoot, AfterBitmap, Undecided, Rooting!Step
  <2> QED
    BY <1>4, <2>1, <2>2, <2>3, <2>4, QuietKeeps
\* It goes on with what it has read.
<1>5. ASSUME stage[s] \notin {"list", "off", "done"}, UNCHANGED Rooting!store,
             NEW t \in Rooting!Step \ {"off", "done", "store"}, Rooting!Continue(s, t),
             t \in WithRoot => stage[s] \in WithRoot,
             t \in Undecided => stage[s] \in Undecided,
             t \in AfterBitmap => found[s] \in service
      PROVE  RootInv'
  <2>1. UNCHANGED <<unique, root, rootKeys, trusted, service, bitmap, issued, listed>>
    BY <1>5 DEF Rooting!store
  <2>2. Moves(s, t, found[s], bare[s], next[s])
    BY <1>1, <1>5, MovesOn
  <2>3. /\ t \in Rooting!Step /\ t \notin Rest /\ t # "store" /\ unique' /\ stage[s] # "list"
        /\ t \in Undecided => stage[s] \in Undecided
        /\ t \in WithRoot => found[s] \in Id
        /\ t \in AfterBitmap => found[s] \in service'
    BY <1>3, <1>5, <2>1
  <2>4. /\ root' = root /\ unique' \in BOOLEAN
        /\ rootKeys' \in [Id -> Secret \cup {NoKeys}] /\ trusted' \subseteq Id
        /\ service \subseteq service' /\ service' \subseteq Id /\ bitmap' \subseteq service'
    BY <1>1, <1>2, <2>1
  <2>5. PICK b \in BOOLEAN, n \in Nat : b = bare[s] /\ n = next[s]
    BY <1>1
  <2>6. Moves(s, t, found[s], b, n)
    BY <2>2, <2>5
  <2>7. t \in Undecided /\ b /\ found[s] \in listed =>
          stage[s] \in Undecided /\ found[s] = found[s] /\ bare[s]
    BY <2>3, <2>5
  <2>8. PICK i \in Id \cup {NoIdent} : i = found[s]
    BY <1>1
  <2> HIDE DEF Rest, WithRoot, AfterBitmap, Undecided, Rooting!Step
  <2> QED
    BY <2>1, <2>3, <2>4, <2>6, <2>7, <2>8, QuietKeeps
<1>6. CASE Rooting!Seed(s)
  <2>1. /\ unique' = TRUE /\ stage[s] \in {"off", "done"}
        /\ UNCHANGED <<root, rootKeys, trusted, service, bitmap, issued, listed>>
    BY <1>6 DEF Rooting!Seed
  <2>2. Moves(s, "look", found[s], bare[s], next[s])
    BY <1>1, <1>6, MovesOn DEF Rooting!Seed
  <2>3. PICK b \in BOOLEAN, n \in Nat, i \in Id \cup {NoIdent} :
          b = bare[s] /\ n = next[s] /\ i = found[s]
    BY <1>1
  <2>4. Moves(s, "look", i, b, n)
    BY <2>2, <2>3
  <2>5. /\ unique' /\ unique' \in BOOLEAN /\ root' = root
        /\ rootKeys' \in [Id -> Secret \cup {NoKeys}] /\ trusted' \subseteq Id
        /\ service \subseteq service' /\ service' \subseteq Id /\ bitmap' \subseteq service'
    BY <1>1, <1>2, <2>1
  <2>6. UNCHANGED <<issued, listed>> /\ stage[s] # "list"
    BY <2>1
  <2> QED
    BY <2>4, <2>5, <2>6, QuietKeeps
<1>7. CASE Rooting!Look(s)
  <2>1. UNCHANGED Rooting!store /\ stage[s] = "look"
    BY <1>7 DEF Rooting!Look
  <2>2. \/ Rooting!Throw(s) \/ Rooting!Continue(s, "create")
        \/ \E i \in root : Moves(s, "open", i, bare[s], next[s])
    <3>1. CASE Rooting!Cardinality(root) > 1
      BY <1>7, <3>1, Zenon DEF Rooting!Look
    <3> QED
      BY <1>1, <1>7 DEF Rooting!Look, Moves, Local, Rooting!Go
  <2>3. CASE \E i \in root : Moves(s, "open", i, bare[s], next[s])
    <3>1. PICK i \in root : Moves(s, "open", i, bare[s], next[s])
      BY <2>3
    <3>2. UNCHANGED <<unique, root, rootKeys, trusted, service, bitmap, issued, listed>>
      BY <2>1 DEF Rooting!store
    <3> QED
      BY <1>1, <1>2, <1>3, <2>1, <3>1, <3>2, QuietKeeps
  <2> QED
    BY <1>4, <1>5, <2>1, <2>2, <2>3 DEF Rooting!Throw
<1>8. CASE Rooting!Open(s)
  BY <1>4, <1>5, <1>8 DEF Rooting!Open, Rooting!Return
<1>9. CASE Rooting!AddUser(s)
  <2>1. /\ stage[s] = "create" /\ unique
        /\ UNCHANGED <<unique, rootKeys, trusted, service, bitmap, issued, listed>>
    BY <1>3, <1>9 DEF Rooting!AddUser
  <2>2. CASE root # {}
    BY <1>4, <1>9, <2>1, <2>2 DEF Rooting!AddUser, Rooting!Throw, Rooting!store
  <2>3. CASE root = {}
    <3>1. PICK i \in Id : root' = {i} /\ Moves(s, "save", i, bare[s], next[s])
      BY <1>1, <1>9, <2>3 DEF Rooting!AddUser, Moves, Local, Rooting!Go
    <3> QED
      BY <1>1, <1>2, <2>1, <3>1, QuietKeeps
  <2> QED
    BY <2>2, <2>3
<1>10. CASE Rooting!SaveKeys(s)
  <2>1. /\ stage[s] = "save" /\ rootKeys' = [rootKeys EXCEPT ![found[s]] = secret]
        /\ UNCHANGED <<unique, root, trusted, service, bitmap, issued, listed>>
    BY <1>10 DEF Rooting!SaveKeys
  <2>2. Moves(s, "user", found[s], bare[s], next[s])
    BY <1>1, <1>10, MovesOn DEF Rooting!SaveKeys
  <2>3. rootKeys' \in [Id -> Secret \cup {NoKeys}]
    BY <1>2, <2>1
  <2> QED
    BY <1>1, <1>2, <1>3, <2>1, <2>2, <2>3, QuietKeeps
<1>11. CASE Rooting!ReadUser(s)
  <2>1. /\ stage[s] = "user" /\ UNCHANGED Rooting!store
        /\ bare' = [bare EXCEPT ![s] = found[s] \notin listed]
    BY <1>11 DEF Rooting!ReadUser
  <2>2. PICK b \in BOOLEAN : b = (found[s] \notin listed)
    OBVIOUS
  <2>3. Moves(s, "trust", found[s], b, next[s])
    BY <1>1, <1>11, <2>1, <2>2 DEF Rooting!ReadUser, Moves, Local, Rooting!Go
  <2>4. UNCHANGED <<unique, root, rootKeys, trusted, service, bitmap, issued, listed>>
    BY <2>1 DEF Rooting!store
  <2> QED
    BY <1>1, <1>2, <1>3, <2>1, <2>2, <2>3, <2>4, QuietKeeps
<1>12. CASE Rooting!ReadRoots(s)
  BY <1>3, <1>5, <1>12 DEF Rooting!ReadRoots
<1>13. CASE Rooting!AddRoot(s)
  <2>1. stage[s] = "trusting"
        /\ UNCHANGED <<unique, root, rootKeys, service, bitmap, issued, listed>>
    BY <1>13 DEF Rooting!AddRoot
  <2>2. CASE found[s] \in trusted
    BY <1>4, <1>13, <2>1, <2>2 DEF Rooting!AddRoot, Rooting!Throw, Rooting!store
  <2>3. CASE found[s] \notin trusted
    <3>1. trusted' = trusted \cup {found[s]} /\ Moves(s, "bitmap", found[s], bare[s], next[s])
      BY <1>1, <1>13, <2>3, MovesOn DEF Rooting!AddRoot
    <3> QED
      BY <1>1, <1>2, <1>3, <2>1, <3>1, QuietKeeps
  <2> QED
    BY <2>2, <2>3
<1>14. CASE Rooting!ReadBitmap(s)
  BY <1>1, <1>3, <1>5, <1>14 DEF Rooting!ReadBitmap
<1>15. CASE Rooting!PublishBitmap(s)
  <2>1. /\ stage[s] = "publish" /\ service' = service \cup {found[s]}
        /\ UNCHANGED <<unique, root, rootKeys, trusted, bitmap, issued, listed>>
    BY <1>15 DEF Rooting!PublishBitmap
  <2>2. Moves(s, "saving", found[s], bare[s], next[s])
    BY <1>1, <1>15, MovesOn DEF Rooting!PublishBitmap
  <2> QED
    BY <1>1, <1>2, <1>3, <2>1, <2>2, QuietKeeps
<1>16. CASE Rooting!SaveBitmap(s)
  <2>1. stage[s] = "saving"
        /\ UNCHANGED <<unique, root, rootKeys, trusted, service, issued, listed>>
    BY <1>16 DEF Rooting!SaveBitmap
  <2>2. CASE found[s] \in bitmap
    BY <1>4, <1>16, <2>1, <2>2 DEF Rooting!SaveBitmap, Rooting!Throw, Rooting!store
  <2>3. CASE found[s] \notin bitmap
    <3>1. bitmap' = bitmap \cup {found[s]} /\ Moves(s, "decide", found[s], bare[s], next[s])
      BY <1>1, <1>16, <2>3, MovesOn DEF Rooting!SaveBitmap
    <3> QED
      BY <1>1, <1>2, <1>3, <2>1, <3>1, QuietKeeps
  <2> QED
    BY <2>2, <2>3
<1>17. CASE Rooting!Decide(s)
  <2>1. stage[s] = "decide" /\ UNCHANGED Rooting!store
    BY <1>17 DEF Rooting!Decide
  <2>2. CASE ~bare[s]
    BY <1>4, <1>17, <2>1, <2>2 DEF Rooting!Decide, Rooting!Return
  <2>3. CASE bare[s]
    <3>1. PICK n \in Nat : n = issued[found[s]]
      BY <1>2, <1>3, <2>1
    <3>2. Moves(s, "store", found[s], bare[s], n)
      BY <1>1, <1>17, <2>3, <3>1 DEF Rooting!Decide, Moves, Local, Rooting!Go
    <3>3. UNCHANGED <<unique, root, rootKeys, trusted, service, bitmap, issued, listed>>
      BY <2>1 DEF Rooting!store
    <3> QED
      BY <1>1, <1>2, <1>3, <2>1, <2>3, <3>1, <3>2, <3>3, QuietKeeps
  <2> QED
    BY <2>2, <2>3
<1> QED
  BY <1>6, <1>7, <1>8, <1>9, <1>10, <1>11, <1>12, <1>13, <1>14, <1>15, <1>16, <1>17

\* A credential is stored: its setup is accounted for from now on.
LEMMA IssueStep ==
  ASSUME RootInv, NEW s \in Setup, Rooting!StoreCredential(s), UNCHANGED Rooting!deployment
  PROVE  RootInv'
<1> USE DEF Rest, WithRoot, AfterBitmap, Undecided, Rooting!Step, Rooting!At
<1>1. /\ stage[s] = "store" /\ found[s] \in Id /\ bare[s] /\ found[s] \in service /\ unique
      /\ Local /\ Stored /\ Prepared
  BY DEF RootInv, Prepared, Rooting!StoreCredential
<1>2. /\ UNCHANGED <<unique, root, rootKeys, trusted, service, bitmap, listed>>
      /\ UNCHANGED <<secret, server, crashes>>
  BY DEF Rooting!StoreCredential, Rooting!deployment
<1>3. CASE next[s] < issued[found[s]]
  <2>1. Rooting!Leave(s, "off") /\ UNCHANGED issued
    BY <1>3 DEF Rooting!StoreCredential, Rooting!Throw
  <2>2. Moves(s, "off", NoIdent, FALSE, 0)
    BY <1>1, <2>1, MovesOn
  <2> QED
    BY <1>1, <1>2, <2>1, <2>2, QuietKeeps
       DEF RootInv, Stored, Rooting!BitmapIsPublished, Rooting!deployment
<1>4. CASE ~(next[s] < issued[found[s]])
  <2>1. issued' = [issued EXCEPT ![found[s]] = @ + 1]
    BY <1>4 DEF Rooting!StoreCredential
  <2>2. Moves(s, "list", found[s], bare[s], next[s])
    BY <1>1, <1>4, MovesOn DEF Rooting!StoreCredential
  <2>3. PICK b \in BOOLEAN, n \in Nat : b = bare[s] /\ n = next[s]
    BY <1>1 DEF Local
  <2>4. Local' /\ Prepared'
    <3>1. Moves(s, "list", found[s], b, n)
      BY <2>2, <2>3
    <3>2. Local'
      BY <1>1, <3>1, LocalKept
    <3>3. Prepared'
      BY <1>1, <1>2, <3>1, PreparedKept
    <3> QED
      BY <3>2, <3>3
  <2>5. issued' \in [Id -> Nat] /\ \A i \in Id : issued'[i] > 0 => issued[i] > 0 \/ i = found[s]
    BY <1>1, <2>1 DEF Stored
  <2>6. Stored' /\ Deployed' /\ RootIsUnique'
    BY <1>2, <2>5 DEF RootInv, Stored, Deployed, RootIsUnique
  <2>7. Rooting!BitmapIsPublished'
    BY <1>1, <1>2, <2>5 DEF RootInv, Rooting!BitmapIsPublished
  <2>8. /\ stage'[s] = "list" /\ found'[s] = found[s]
        /\ \A u \in Setup \ {s} :
             stage'[u] = stage[u] /\ found'[u] = found[u] /\ bare'[u] = bare[u]
    <3>1. Moves(s, "list", found[s], b, n)
      BY <2>2, <2>3
    <3> QED
      BY <1>1, <3>1, LocalKept
  <2>9. ASSUME NEW i \in Id
        PROVE  issued'[i] <= Cardinality(Accounted(i)') + crashes'
    <3>1. PICK old : old = Accounted(i)
      OBVIOUS
    <3>2. PICK new : new = Accounted(i)'
      OBVIOUS
    <3>3. old \subseteq Setup /\ new \subseteq Setup
      BY <3>1, <3>2 DEF Accounted, WillIssue, HasIssued
    <3>4. IsFiniteSet(old) /\ Cardinality(old) \in Nat
      BY <3>3, SetupAssumption, FS_Subset, FS_CardinalityType
    <3>5. IsFiniteSet(new) /\ Cardinality(new) \in Nat
      BY <3>3, SetupAssumption, FS_Subset, FS_CardinalityType
    <3>6. issued[i] \in Nat /\ crashes' = crashes /\ crashes \in Nat
          /\ issued[i] <= Cardinality(old) + crashes
      BY <1>2, <3>1 DEF RootInv, Stored, Deployed, Bounded
    <3>7. CASE i = found[s]
      <4>1. s \notin old /\ old \cup {s} \subseteq new
        <5>1. s \in WillIssue(i) /\ s \notin HasIssued(i)
          BY <1>1, <3>7 DEF WillIssue, HasIssued
        <5>2. WillIssue(i)' \subseteq WillIssue(i) \ {s}
          BY <2>8 DEF WillIssue
        <5>3. HasIssued(i) \cup {s} \subseteq HasIssued(i)'
          BY <2>8, <3>7 DEF HasIssued
        <5> QED
          BY <1>2, <3>1, <3>2, <5>1, <5>2, <5>3 DEF Accounted
      <4>2. Cardinality(old \cup {s}) = Cardinality(old) + 1 /\ IsFiniteSet(old \cup {s})
        BY <3>4, <4>1, FS_AddElement
      <4>3. Cardinality(old \cup {s}) <= Cardinality(new)
        BY <3>5, <4>1, FS_Subset
      <4>4. issued'[i] = issued[i] + 1
        BY <1>1, <2>1, <3>7 DEF Stored
      <4>5. issued'[i] <= Cardinality(new) + crashes'
        BY <3>4, <3>5, <3>6, <4>2, <4>3, <4>4
      <4> QED
        BY <3>2, <4>5
    <3>8. CASE i # found[s]
      <4>1. old \subseteq new
        <5>1. WillIssue(i)' \subseteq WillIssue(i)
          BY <2>8 DEF WillIssue
        <5>2. HasIssued(i) \subseteq HasIssued(i)'
          BY <1>1, <2>8, <3>8 DEF HasIssued
        <5> QED
          BY <1>2, <3>1, <3>2, <5>1, <5>2 DEF Accounted
      <4>2. Cardinality(old) <= Cardinality(new)
        BY <3>5, <4>1, FS_Subset
      <4>3. issued'[i] = issued[i]
        BY <1>1, <2>1, <3>8 DEF Stored
      <4>4. issued'[i] <= Cardinality(new) + crashes'
        BY <3>4, <3>5, <3>6, <4>2, <4>3
      <4> QED
        BY <3>2, <4>4
    <3> QED
      BY <3>7, <3>8
  <2>10. Bounded'
    BY <2>9 DEF Bounded
  <2> QED
    BY <2>4, <2>6, <2>7, <2>10 DEF RootInv
<1> QED
  BY <1>3, <1>4

\* The credential is listed: no setup that looks now will issue another.
LEMMA ListStep ==
  ASSUME RootInv, NEW s \in Setup, Rooting!ListCredential(s), UNCHANGED Rooting!deployment
  PROVE  RootInv'
<1> USE DEF Rest, WithRoot, AfterBitmap, Undecided, Rooting!Step, Rooting!At
<1>1. /\ stage[s] = "list" /\ found[s] \in Id /\ Local /\ Stored /\ Prepared
  BY DEF RootInv, Prepared, Rooting!ListCredential
<1>2. /\ UNCHANGED <<unique, root, rootKeys, trusted, service, bitmap, issued>>
      /\ UNCHANGED <<secret, server, crashes>> /\ listed' = listed \cup {found[s]}
  BY DEF Rooting!ListCredential, Rooting!deployment
<1>3. Moves(s, "done", NoIdent, FALSE, 0)
  BY <1>1, MovesOn DEF Rooting!ListCredential, Rooting!Return
<1>4. Local' /\ Prepared'
  BY <1>1, <1>2, <1>3, LocalKept, PreparedKept
<1>5. Stored' /\ Deployed' /\ RootIsUnique' /\ Rooting!BitmapIsPublished'
  BY <1>1, <1>2 DEF RootInv, Stored, Deployed, RootIsUnique, Rooting!BitmapIsPublished
<1>6. /\ stage'[s] = "done"
      /\ \A u \in Setup \ {s} : stage'[u] = stage[u] /\ found'[u] = found[u] /\ bare'[u] = bare[u]
  BY <1>1, <1>3, LocalKept
<1>7. ASSUME NEW j \in Id
      PROVE  Accounted(j) \subseteq Accounted(j)' /\ Accounted(j)' \subseteq Setup
  <2>1. WillIssue(j)' \subseteq WillIssue(j)
    BY <1>6 DEF WillIssue
  <2>2. WillIssue(j) \cap HasIssued(j) = {}
    BY DEF WillIssue, HasIssued
  <2>3. j # found[s] => HasIssued(j)' = HasIssued(j)
    BY <1>1, <1>6 DEF HasIssued
  <2>4. HasIssued(j)' \subseteq Setup /\ HasIssued(j) \subseteq Setup
    BY DEF HasIssued
  <2>5. j = found[s] => j \in listed'
    BY <1>2
  <2>6. j # found[s] => (j \in listed' <=> j \in listed)
    BY <1>2
  <2>7. CASE j \in listed'
    BY <2>1, <2>2, <2>4, <2>7 DEF Accounted
  <2>8. CASE j \notin listed'
    BY <1>2, <2>3, <2>4, <2>5, <2>6, <2>8 DEF Accounted
  <2> QED
    BY <2>7, <2>8
<1>8. Bounded'
  BY <1>2, <1>7, BoundedKept DEF RootInv
<1> QED
  BY <1>4, <1>5, <1>8 DEF RootInv

\* A setup that dies is counted among the crashes.
LEMMA CrashStep ==
  ASSUME RootInv, NEW s \in Setup, Rooting!Crash(s)
  PROVE  RootInv'
<1> USE DEF Rest, WithRoot, AfterBitmap, Undecided, Rooting!Step, Rooting!At
<1>1. /\ Local /\ Stored /\ Prepared /\ Deployed /\ crashes < MaxCrashes /\ crashes' = crashes + 1
      /\ UNCHANGED <<secret, server>>
      /\ UNCHANGED <<unique, root, rootKeys, trusted, service, bitmap, issued, listed>>
  BY DEF RootInv, Rooting!Crash, Rooting!store
<1>2. Moves(s, "off", NoIdent, FALSE, 0)
  BY <1>1, MovesOn DEF Rooting!Crash, Rooting!Throw
<1>3. Local' /\ Prepared'
  BY <1>1, <1>2, LocalKept, PreparedKept
<1>4. Stored' /\ RootIsUnique' /\ Rooting!BitmapIsPublished'
  BY <1>1 DEF RootInv, Stored, RootIsUnique, Rooting!BitmapIsPublished
<1>5. Deployed'
  BY <1>1, BoundAssumption DEF Deployed
<1>6. /\ stage'[s] = "off"
      /\ \A u \in Setup \ {s} : stage'[u] = stage[u] /\ found'[u] = found[u] /\ bare'[u] = bare[u]
  BY <1>1, <1>2, LocalKept
<1>7. ASSUME NEW i \in Id
      PROVE  issued'[i] <= Cardinality(Accounted(i)') + crashes'
  <2>1. PICK old : old = Accounted(i)
    OBVIOUS
  <2>2. PICK new : new = Accounted(i)'
    OBVIOUS
  <2>3. old \subseteq Setup /\ new \subseteq Setup
    BY <2>1, <2>2 DEF Accounted, WillIssue, HasIssued
  <2>4. IsFiniteSet(old) /\ Cardinality(old) \in Nat
    BY <2>3, SetupAssumption, FS_Subset, FS_CardinalityType
  <2>5. IsFiniteSet(new) /\ Cardinality(new) \in Nat
    BY <2>3, SetupAssumption, FS_Subset, FS_CardinalityType
  <2>6. issued[i] \in Nat /\ issued[i] <= Cardinality(old) + crashes /\ issued'[i] = issued[i]
    BY <1>1, <2>1 DEF RootInv, Stored, Bounded
  <2>7. old \ {s} \subseteq new
    <3>1. WillIssue(i)' \subseteq WillIssue(i)
      BY <1>6 DEF WillIssue
    <3>2. HasIssued(i) \ {s} \subseteq HasIssued(i)'
      BY <1>6 DEF HasIssued
    <3> QED
      BY <1>1, <2>1, <2>2, <3>1, <3>2 DEF Accounted
  <2>8. Cardinality(old) <= Cardinality(old \ {s}) + 1 /\ Cardinality(old \ {s}) \in Nat
    <3>1. Cardinality(old \ {s}) = IF s \in old THEN Cardinality(old) - 1 ELSE Cardinality(old)
      BY <2>4, FS_RemoveElement
    <3>2. IsFiniteSet(old \ {s})
      BY <2>4, FS_RemoveElement
    <3>3. Cardinality(old \ {s}) \in Nat
      BY <3>2, FS_CardinalityType
    <3> QED
      BY <2>4, <3>1, <3>3
  <2>9. Cardinality(old \ {s}) <= Cardinality(new)
    BY <2>5, <2>7, FS_Subset
  <2>10. issued'[i] <= Cardinality(new) + crashes'
    BY <1>1, <2>4, <2>5, <2>6, <2>8, <2>9 DEF Deployed
  <2> QED
    BY <2>2, <2>10
<1>8. Bounded'
  BY <1>7 DEF Bounded
<1> QED
  BY <1>3, <1>4, <1>5, <1>8 DEF RootInv

\* The server starts, the deployment gets another secret, or nothing happens.
LEMMA DeployStep ==
  ASSUME RootInv, Rooting!StartServer \/ Rooting!Rotate \/ UNCHANGED Rooting!vars
  PROVE  RootInv'
<1>1. UNCHANGED <<unique, root, rootKeys, trusted, service, bitmap, issued, listed>>
  BY DEF Rooting!StartServer, Rooting!Rotate, Rooting!vars, Rooting!store
<1>2. UNCHANGED <<stage, found, bare, next, crashes>>
  BY DEF Rooting!StartServer, Rooting!Rotate, Rooting!vars, Rooting!local, Rooting!deployment
<1>3. secret' \in Secret /\ server' \in {"up", "down"}
  BY DEF RootInv, Deployed, Rooting!StartServer, Rooting!Rotate, Rooting!vars, Rooting!deployment
<1>4. Local' /\ Stored' /\ Deployed'
  BY <1>1, <1>2, <1>3 DEF RootInv, Local, Stored, Deployed
<1>5. Prepared' /\ RootIsUnique' /\ Rooting!BitmapIsPublished'
  BY <1>1, <1>2 DEF RootInv, Prepared, RootIsUnique, Rooting!BitmapIsPublished
<1>6. \A i \in Id : Accounted(i)' = Accounted(i)
  BY <1>1, <1>2 DEF Accounted, WillIssue, HasIssued
<1>7. Bounded'
  BY <1>1, <1>2, <1>6 DEF RootInv, Bounded
<1> QED
  BY <1>4, <1>5, <1>7 DEF RootInv

LEMMA RootStep == RootInv /\ [Rooting!Next]_Rooting!vars => RootInv'
<1> SUFFICES ASSUME RootInv, [Rooting!Next]_Rooting!vars
             PROVE  RootInv'
  OBVIOUS
<1>1. ASSUME NEW s \in Setup, Rooting!SetupStep(s)
      PROVE  RootInv'
  BY <1>1, QuietSteps, IssueStep, ListStep DEF Rooting!SetupStep
<1> QED
  BY <1>1, CrashStep, DeployStep DEF Rooting!Next

LEMMA RootingCardinality == \A S : Rooting!Cardinality(S) = Cardinality(S)
  BY DEF Rooting!Cardinality, Cardinality, Rooting!IsFiniteSet, IsFiniteSet

LEMMA RootImplies ==
  RootInv => Rooting!TypeOK /\ Rooting!OneRoot /\ Rooting!BitmapIsPublished
<1> SUFFICES ASSUME RootInv
             PROVE  Rooting!TypeOK /\ Rooting!OneRoot
  BY DEF RootInv
<1>1. Cardinality(Setup) \in Nat
  BY SetupAssumption, FS_CardinalityType
<1>2. issued \in [Id -> 0 .. (Cardinality(Setup) + MaxCrashes)]
  <2>1. \A i \in Id : issued[i] \in Nat /\ issued[i] <= Cardinality(Setup) + MaxCrashes
    BY <1>1, AccountedFinite, BoundAssumption DEF RootInv, Stored, Deployed, Bounded
  <2> QED
    BY <1>1, <2>1, BoundAssumption DEF RootInv, Stored
<1>3. Rooting!TypeOK
  BY <1>2, RootingCardinality DEF RootInv, Local, Stored, Deployed, Rooting!TypeOK
<1>4. root = {} \/ \E i : root = {i}
  BY DEF RootInv, RootIsUnique
<1>5. Cardinality(root) \in {0, 1}
  BY <1>4, FS_EmptySet, FS_Singleton
<1> QED
  BY <1>3, <1>5, RootingCardinality DEF Rooting!OneRoot

-----------------------------------------------------------------------------
(* The migration.                                                          *)

\* The collections that a tool at a step has gone through.
Behind(a) ==
  IF a \in {"users", "failed"} THEN {}
  ELSE IF a = "trusted-roots" THEN {"users"}
  ELSE IF a = "subscriptions" THEN {"users", "trusted-roots"}
  ELSE IF a = "channel-data" THEN {"users", "trusted-roots", "subscriptions"}
  ELSE Data!Collection

\* Once there is a collection of keys, its documents are new, or somebody is
\* about to see to it, or nobody can any more.
KeysSeenTo ==
  \/ \A i \in Id : keyDocs[i] = "new"
  \/ kills > 0 \/ \E u \in Migrator : migrating[u] = "convert"
  \/ exists /\ before # {}

DataInv ==
  /\ Data!TypeOK /\ exists \in BOOLEAN /\ kills \in Nat
  /\ before \in {Id, {}} /\ (before = {} => exists)
  /\ Data!KeysAreKept
  /\ \A t \in Migrator :
       /\ migrating[t] \in {"convert", "done"} => exists
       /\ \A c \in Behind(migrating[t]), i \in Id : collections[c][i] = "new"
  /\ exists => KeysSeenTo

LEMMA UpdatedDocs ==
  /\ \A f \in [Id -> {"old", "new"}] :
       /\ Data!Updated(f) \in [Id -> {"old", "new"}]
       /\ \A i \in Id : Data!Updated(f)[i] = "new"
  /\ \A f \in [Id -> {"old", "new", "none"}] :
       /\ Data!Updated(f) \in [Id -> {"old", "new", "none"}]
       /\ \A i \in Id : /\ f[i] # "none" => Data!Updated(f)[i] = "new"
                        /\ f[i] = "none" => Data!Updated(f)[i] = "none"
  BY DEF Data!Updated

LEMMA DataInit == Data!Init => DataInv
<1> SUFFICES ASSUME Data!Init PROVE DataInv
  OBVIOUS
<1> USE DEF Data!Init
<1>1. Data!TypeOK
  BY DEF Data!TypeOK, Data!All, Data!Collection
<1>2. Data!KeysAreKept /\ before # {}
  BY IdAssumption DEF Data!KeysAreKept
<1>3. \A t \in Migrator : migrating[t] = "users" /\ Behind(migrating[t]) = {}
  BY DEF Behind
<1> QED
  BY <1>1, <1>2, <1>3 DEF DataInv

\* A tool moves on, and leaves the keys alone.
LEMMA ToolMoves ==
  ASSUME DataInv, NEW t \in Migrator,
         NEW a \in Data!Collection \cup {"list", "rename", "done", "failed"},
         migrating' = [migrating EXCEPT ![t] = a],
         UNCHANGED <<before, keyDocs, exists>>, kills' \in Nat, kills' >= kills,
         migrating[t] = "convert" => kills' > 0,
         a = "done" => exists,
         collections' \in [Data!Collection -> [Id -> {"old", "new"}]],
         \A c \in Data!Collection, i \in Id :
           (collections[c][i] = "new" \/ c \in Behind(a)) => collections'[c][i] = "new"
  PROVE  DataInv'
<1> USE DEF DataInv
<1>1. Data!TypeOK'
  BY DEF Data!TypeOK
<1>2. Data!KeysAreKept'
  BY DEF Data!KeysAreKept
<1>3. migrating'[t] = a /\ \A u \in Migrator \ {t} : migrating'[u] = migrating[u]
  BY DEF Data!TypeOK
<1>4. \A b : Behind(b) \subseteq Data!Collection
  BY DEF Behind, Data!Collection
<1>5. ASSUME NEW u \in Migrator
      PROVE  /\ migrating'[u] \in {"convert", "done"} => exists'
             /\ \A c \in Behind(migrating'[u]), i \in Id : collections'[c][i] = "new"
  <2>1. CASE u = t
    BY <1>3, <1>4, <2>1 DEF Data!Collection
  <2>2. CASE u # t
    BY <1>3, <1>4, <2>2
  <2> QED
    BY <2>1, <2>2
<1>6. exists' => KeysSeenTo'
  <2> SUFFICES ASSUME exists PROVE KeysSeenTo'
    OBVIOUS
  <2>1. CASE \E u \in Migrator : migrating[u] = "convert"
    BY <1>3, <2>1 DEF KeysSeenTo
  <2>2. CASE ~\E u \in Migrator : migrating[u] = "convert"
    BY <2>2 DEF KeysSeenTo
  <2> QED
    BY <2>1, <2>2
<1>7. Behind(a)' = Behind(a)
  BY DEF Behind
<1> QED
  BY <1>1, <1>2, <1>5, <1>6 DEF Behind

LEMMA UpdateIdsStep ==
  ASSUME DataInv, NEW t \in Migrator, NEW n \in 1 .. 4, Data!UpdateIds(t, n)
  PROVE  DataInv'
<1>1. PICK c \in Data!Collection : c = Data!Order[n]
  <2>1. CASE n = 1
    BY <2>1 DEF Data!Order, Data!Collection
  <2>2. CASE n = 2
    BY <2>2 DEF Data!Order, Data!Collection
  <2>3. CASE n = 3
    BY <2>3 DEF Data!Order, Data!Collection
  <2>4. CASE n = 4
    BY <2>4 DEF Data!Order, Data!Collection
  <2> QED
    BY <2>1, <2>2, <2>3, <2>4
<1>2. PICK a \in Data!Collection \cup {"list"} :
        a = Data!Order[n + 1] /\ Behind(a) \subseteq Behind(c) \cup {c}
  <2>1. CASE n = 1
    BY <1>1, <2>1 DEF Data!Order, Data!Collection, Behind
  <2>2. CASE n = 2
    BY <1>1, <2>2 DEF Data!Order, Data!Collection, Behind
  <2>3. CASE n = 3
    BY <1>1, <2>3 DEF Data!Order, Data!Collection, Behind
  <2>4. CASE n = 4
    BY <1>1, <2>4 DEF Data!Order, Data!Collection, Behind
  <2> QED
    BY <2>1, <2>2, <2>3, <2>4
<1>3. /\ migrating[t] = c /\ migrating' = [migrating EXCEPT ![t] = a]
      /\ collections' = [collections EXCEPT ![c] = Data!Updated(collections[c])]
      /\ UNCHANGED <<before, keyDocs, exists, kills>>
  BY <1>1, <1>2 DEF Data!UpdateIds, Data!Go
<1>4. collections \in [Data!Collection -> [Id -> {"old", "new"}]]
  BY DEF DataInv, Data!TypeOK
<1>5. PICK d \in [Id -> {"old", "new"}] : d = Data!Updated(collections[c])
                                          /\ \A i \in Id : d[i] = "new"
  BY <1>4, UpdatedDocs
<1>6. /\ collections' \in [Data!Collection -> [Id -> {"old", "new"}]]
      /\ collections'[c] = d /\ \A b \in Data!Collection \ {c} : collections'[b] = collections[b]
  BY <1>3, <1>4, <1>5
<1>7. \A b \in Data!Collection, i \in Id :
        (collections[b][i] = "new" \/ b \in Behind(a)) => collections'[b][i] = "new"
  BY <1>2, <1>3, <1>5, <1>6 DEF DataInv
<1>8. kills' \in Nat /\ kills' >= kills /\ migrating[t] # "convert" /\ a # "done"
  BY <1>3 DEF DataInv, Data!Collection
<1> QED
  BY <1>3, <1>6, <1>7, <1>8, ToolMoves

\* A step that leaves the tools where they are.
LEMMA KeysStep ==
  ASSUME DataInv, UNCHANGED <<before, migrating, kills>>,
         keyDocs' \in [Id -> {"old", "new", "none"}], exists',
         collections' \in [Data!Collection -> [Id -> {"old", "new"}]],
         \A c \in Data!Collection, i \in Id :
           collections[c][i] = "new" => collections'[c][i] = "new",
         \A i \in Id : /\ keyDocs[i] # "none" => keyDocs'[i] # "none"
                       /\ keyDocs[i] = "new" => keyDocs'[i] = "new",
         ~exists => before # {}
  PROVE  DataInv'
<1> USE DEF DataInv
<1>1. Data!TypeOK'
  BY DEF Data!TypeOK
<1>2. Data!KeysAreKept'
  BY DEF Data!KeysAreKept
<1>3. \A b : Behind(b) \subseteq Data!Collection
  BY DEF Behind, Data!Collection
<1>4. \A t \in Migrator : \A c \in Behind(migrating[t]), i \in Id : collections'[c][i] = "new"
  BY <1>3
<1>5. KeysSeenTo'
  BY DEF KeysSeenTo
<1> QED
  BY <1>1, <1>2, <1>4, <1>5 DEF Behind

\* The tool that renames the collection has its keys to convert.
LEMMA RenameStep ==
  ASSUME DataInv, NEW t \in Migrator, Data!RenameDocs(t)
  PROVE  DataInv'
<1>1. migrating[t] = "rename" /\ UNCHANGED <<collections, kills>>
  BY DEF Data!RenameDocs
<1>2. CASE before = {} \/ exists
  <2>1. migrating' = [migrating EXCEPT ![t] = "failed"] /\ UNCHANGED <<before, keyDocs, exists>>
    BY <1>2 DEF Data!RenameDocs, Data!Go
  <2>2. collections' \in [Data!Collection -> [Id -> {"old", "new"}]]
    BY <1>1 DEF DataInv, Data!TypeOK
  <2>3. Behind("failed") = {}
    BY DEF Behind
  <2>4. \A c \in Data!Collection, i \in Id :
          (collections[c][i] = "new" \/ c \in Behind("failed")) => collections'[c][i] = "new"
    BY <1>1, <2>3
  <2>5. kills' \in Nat /\ kills' >= kills /\ migrating[t] # "convert"
    BY <1>1 DEF DataInv
  <2>6. PICK a \in Data!Collection \cup {"list", "rename", "done", "failed"} : a = "failed"
    OBVIOUS
  <2>7. /\ migrating' = [migrating EXCEPT ![t] = a] /\ a # "done"
        /\ \A c \in Data!Collection, i \in Id :
             (collections[c][i] = "new" \/ c \in Behind(a)) => collections'[c][i] = "new"
    BY <2>1, <2>4, <2>6
  <2> QED
    BY <2>1, <2>2, <2>5, <2>7, ToolMoves
<1>3. CASE ~(before = {} \/ exists)
  <2> USE DEF DataInv
  <2>1. /\ keyDocs' = [i \in Id |-> IF i \in before THEN "old" ELSE "none"]
        /\ exists' = TRUE /\ before' = {} /\ migrating' = [migrating EXCEPT ![t] = "convert"]
    BY <1>3 DEF Data!RenameDocs, Data!Go
  <2>2. \A i \in Id : i \in before /\ keyDocs'[i] = "old"
    BY <1>3, <2>1
  <2>3. /\ Data!TypeOK' /\ Data!KeysAreKept'
    BY <1>1, <2>1, <2>2 DEF Data!TypeOK, Data!KeysAreKept
  <2>4. migrating'[t] = "convert" /\ \A u \in Migrator \ {t} : migrating'[u] = migrating[u]
    BY <2>1 DEF Data!TypeOK
  <2>5. Behind("convert") = Behind("rename")
    BY DEF Behind
  <2>6. \A u \in Migrator : \A c \in Behind(migrating'[u]), i \in Id : collections'[c][i] = "new"
    <3> TAKE u \in Migrator
    <3>1. Behind(migrating'[u]) = Behind(migrating[u])
      BY <1>1, <2>4, <2>5
    <3> QED
      BY <1>1, <3>1
  <2>7. KeysSeenTo'
    BY <2>4 DEF KeysSeenTo
  <2> QED
    BY <1>1, <2>1, <2>3, <2>6, <2>7 DEF Behind
<1> QED
  BY <1>2, <1>3

\* It does so, and every key that was kept is new.
LEMMA ConvertStep ==
  ASSUME DataInv, NEW t \in Migrator, Data!UpdateKeys(t)
  PROVE  DataInv'
<1> USE DEF DataInv
<1>1. /\ migrating[t] = "convert" /\ migrating' = [migrating EXCEPT ![t] = "done"]
      /\ keyDocs' = Data!Updated(keyDocs) /\ exists
      /\ UNCHANGED <<collections, before, exists, kills>>
  BY DEF Data!UpdateKeys, Data!Go
<1>2. /\ keyDocs' \in [Id -> {"old", "new", "none"}]
      /\ \A i \in Id : keyDocs[i] # "none" => keyDocs'[i] = "new"
  BY <1>1, UpdatedDocs DEF Data!TypeOK
<1>3. Data!TypeOK' /\ Data!KeysAreKept'
  BY <1>1, <1>2 DEF Data!TypeOK, Data!KeysAreKept
<1>4. migrating'[t] = "done" /\ \A u \in Migrator \ {t} : migrating'[u] = migrating[u]
  BY <1>1 DEF Data!TypeOK
<1>5. Behind("convert") = Behind("done")
  BY DEF Behind
<1>6. \A u \in Migrator : \A c \in Behind(migrating'[u]), i \in Id : collections'[c][i] = "new"
  <2> TAKE u \in Migrator
  <2>1. Behind(migrating'[u]) = Behind(migrating[u])
    BY <1>1, <1>4, <1>5
  <2> QED
    BY <1>1, <2>1
<1>7. KeysSeenTo'
  BY <1>1, <1>2 DEF KeysSeenTo, Data!KeysAreKept
<1> QED
  BY <1>1, <1>3, <1>4, <1>6, <1>7 DEF Behind

\* One step per action.
LEMMA DataStep == DataInv /\ [Data!Next]_Data!vars => DataInv'
<1> SUFFICES ASSUME DataInv, [Data!Next]_Data!vars
             PROVE  DataInv'
  OBVIOUS
<1>0. /\ collections \in [Data!Collection -> [Id -> {"old", "new"}]]
      /\ keyDocs \in [Id -> {"old", "new", "none"}] /\ kills \in Nat
      /\ migrating \in [Migrator -> Data!Collection \cup {"list", "rename", "convert", "done",
                                                          "failed"}]
  BY DEF DataInv, Data!TypeOK
<1>1. ASSUME NEW t \in Migrator, Data!ListCollections(t)
      PROVE  DataInv'
  <2>1. PICK a \in {"rename", "done"} : /\ migrating' = [migrating EXCEPT ![t] = a]
                                        /\ a = "done" => before = {} \/ exists
    BY <1>1 DEF Data!ListCollections, Data!Go, Data!MustRename
  <2>2. /\ migrating[t] = "list" /\ UNCHANGED <<collections, before, keyDocs, exists, kills>>
        /\ Behind("list") = Behind(a)
    BY <1>1 DEF Data!ListCollections, Behind
  <2>3. \A c \in Data!Collection, i \in Id :
          (collections[c][i] = "new" \/ c \in Behind(a)) => collections'[c][i] = "new"
    BY <2>2 DEF DataInv
  <2>4. kills' \in Nat /\ kills' >= kills /\ migrating[t] # "convert" /\ (a = "done" => exists)
    BY <1>0, <2>1, <2>2 DEF DataInv
  <2>5. collections' \in [Data!Collection -> [Id -> {"old", "new"}]]
    BY <1>0, <2>2
  <2>6. a \in Data!Collection \cup {"list", "rename", "done", "failed"}
    OBVIOUS
  <2> QED
    BY <2>1, <2>2, <2>3, <2>4, <2>5, <2>6, ToolMoves
<1>2. ASSUME NEW t \in Migrator, Data!RunAgain(t)
      PROVE  DataInv'
  <2>1. /\ migrating' = [migrating EXCEPT ![t] = "users"] /\ Behind("users") = {}
        /\ UNCHANGED <<collections, before, keyDocs, exists>>
    BY <1>2 DEF Data!RunAgain, Data!Go, Behind
  <2>2. kills' \in Nat /\ kills' >= kills /\ (migrating[t] = "convert" => kills' > 0)
    BY <1>0, <1>2 DEF Data!RunAgain
  <2>3. "users" \in Data!Collection
    BY DEF Data!Collection
  <2> QED
    BY <1>0, <2>1, <2>2, <2>3, ToolMoves
<1>3. ASSUME NEW i \in Id, Data!SaveKeys(i)
      PROVE  DataInv'
  <2>1. /\ keyDocs[i] = "none" /\ keyDocs' = [keyDocs EXCEPT ![i] = "new"] /\ exists' = TRUE
        /\ UNCHANGED <<collections, before, migrating, kills>>
    BY <1>3 DEF Data!SaveKeys
  <2>2. /\ keyDocs' \in [Id -> {"old", "new", "none"}] /\ exists' /\ (~exists => before # {})
        /\ \A j \in Id : /\ keyDocs[j] # "none" => keyDocs'[j] # "none"
                         /\ keyDocs[j] = "new" => keyDocs'[j] = "new"
    BY <1>0, <2>1 DEF DataInv
  <2> QED
    BY <1>0, <2>1, <2>2, KeysStep
<1>4. CASE Data!RunScript
  <2>1. /\ collections' = [c \in Data!Collection |-> Data!Updated(collections[c])]
        /\ keyDocs' = Data!Updated(Data!Copied) /\ exists' = TRUE
        /\ UNCHANGED <<before, migrating, kills>>
    BY <1>4 DEF Data!RunScript
  <2>2. /\ Data!Copied \in [Id -> {"old", "new", "none"}]
        /\ \A i \in Id : keyDocs[i] # "none" => Data!Copied[i] # "none"
    BY <1>0 DEF Data!Copied
  <2>3. \A i \in Id : keyDocs[i] = "new" /\ keyDocs'[i] # "new" => FALSE
    BY <2>1, <2>2, UpdatedDocs
  <2>4. /\ keyDocs' \in [Id -> {"old", "new", "none"}] /\ exists' /\ (~exists => before # {})
        /\ \A i \in Id : /\ keyDocs[i] # "none" => keyDocs'[i] # "none"
                         /\ keyDocs[i] = "new" => keyDocs'[i] = "new"
    BY <2>1, <2>2, <2>3, UpdatedDocs DEF DataInv
  <2>5. \A c \in Data!Collection : /\ collections'[c] \in [Id -> {"old", "new"}]
                                   /\ \A i \in Id : collections'[c][i] = "new"
    BY <1>0, <2>1, UpdatedDocs
  <2>6. collections' \in [Data!Collection -> [Id -> {"old", "new"}]]
    BY <2>1, <2>5
  <2> QED
    BY <2>1, <2>4, <2>5, <2>6, KeysStep
<1>5. CASE UNCHANGED Data!vars
  <2>1. UNCHANGED <<collections, before, keyDocs, exists, migrating, kills>>
    BY <1>5 DEF Data!vars
  <2>2. Data!TypeOK' /\ Data!KeysAreKept' /\ (exists' => KeysSeenTo')
    BY <2>1 DEF DataInv, Data!TypeOK, Data!KeysAreKept, KeysSeenTo
  <2> QED
    BY <2>1, <2>2 DEF DataInv, Behind
<1> QED
  BY <1>1, <1>2, <1>3, <1>4, <1>5, UpdateIdsStep, RenameStep, ConvertStep
     DEF Data!Next, Data!Migrate

LEMMA DataImplies == DataInv => Data!TypeOK /\ Data!KeysAreKept /\ Data!EndsMigrated
<1> SUFFICES ASSUME DataInv, NEW t \in Migrator, migrating[t] = "done"
             PROVE  /\ \A c \in Data!Collection, i \in Id : collections[c][i] = "new"
                    /\ \/ keyDocs = Data!All("new")
                       \/ kills > 0 \/ \E u \in Migrator : migrating[u] = "convert"
                       \/ exists /\ before # {}
  BY DEF DataInv, Data!EndsMigrated
<1>1. \A c \in Data!Collection, i \in Id : collections[c][i] = "new"
  BY DEF DataInv, Behind
<1>2. KeysSeenTo
  BY DEF DataInv
<1>3. (\A i \in Id : keyDocs[i] = "new") => keyDocs = Data!All("new")
  BY DEF DataInv, Data!TypeOK, Data!All
<1> QED
  BY <1>1, <1>2, <1>3 DEF KeysSeenTo

\* However many setups run and wherever they die, there is one root at most,
\* its bitmap is published before it is used, and it has few credentials;
\* however the tools interleave and are interrupted, no keys are lost and
\* whoever ends has migrated what it could.
THEOREM SpecRootHolds == Rooting!Spec /\ Data!Spec => []RootHolds
<1>1. RootInv /\ DataInv => RootHolds
  BY RootImplies, DataImplies DEF RootHolds
<1> QED
  BY <1>1, RootInit, RootStep, DataInit, DataStep, PTL DEF Rooting!Spec, Data!Spec

-----------------------------------------------------------------------------
(* The checkout of the e-shop, for any items, credentials and answers that *)
(* are awaited.                                                            *)

\* What an order relies on.
Proven == VerdictIsOfCredential /\ AuthenticatedHasToken /\ OrderHasProof

\* The inductive invariant joins the properties: an order has a proof because
\* the verdict is of the credential and because whoever is authenticated has
\* a token, and late answers keep both.
CheckoutInv == TypeOK /\ Proven

\* A page begins with an empty cart and nothing proved.
LEMMA CheckoutInit == Init => CheckoutInv
BY ItemAssumption, CredentialAssumption, NoneAssumption
   DEF Init, CheckoutInv, Proven, TypeOK, VerdictIsOfCredential, AuthenticatedHasToken,
       OrderHasProof, Mounted

\* Every click and every answer keeps the types; the file is there only as
\* long as the component that shows it.
LEMMA TypeInv ==
  ASSUME TypeOK, [Next]_vars PROVE TypeOK'
<1> USE ItemAssumption, CredentialAssumption, NoneAssumption
    DEF TypeOK, Mounted, user
<1>1. ASSUME NEW i \in Item, AddToCart(i) PROVE TypeOK'
  BY <1>1 DEF AddToCart
<1>2. ASSUME NEW i \in Item, RemoveFromCart(i) PROVE TypeOK'
  BY <1>2 DEF RemoveFromCart, KeepIfMounted
<1>3. ASSUME NEW p \in {"shop", "checkout"}, GoTo(p) PROVE TypeOK'
  BY <1>3 DEF GoTo, KeepIfMounted
<1>4. ASSUME NEW c \in Demo \cup {None}, Select(c) PROVE TypeOK'
  BY <1>4 DEF Select
<1>5. ASSUME NEW c \in Credential, Upload(c) PROVE TypeOK'
  BY <1>5 DEF Upload
<1>6. ASSUME NEW c \in Credential, Revoke(c) PROVE TypeOK'
  BY <1>6 DEF Revoke
<1>7. CASE Verify
  BY <1>7 DEF Verify
<1>8. CASE Authenticate
  BY <1>8 DEF Authenticate
<1>9. CASE Logout
  BY <1>9 DEF Logout
<1>10. CASE Checkout
  BY <1>10 DEF Checkout
<1>11. CASE Reload
  BY <1>11 DEF Reload
<1>12. ASSUME NEW c \in verifying, NEW verdict \in BOOLEAN \cup {None}, Verdict(c, verdict)
       PROVE TypeOK'
  BY <1>12 DEF Verdict
<1>13. ASSUME NEW a \in authenticating, NEW ok \in BOOLEAN, Token(a, ok) PROVE TypeOK'
  BY <1>13 DEF Token, HasKey
<1>14. CASE UNCHANGED vars
  BY <1>14 DEF vars
<1> QED
  BY <1>1, <1>2, <1>3, <1>4, <1>5, <1>6, <1>7, <1>8, <1>9, <1>10, <1>11, <1>12, <1>13, <1>14
  DEF Next

\* What is proved is never taken back, and orders are made from the verdict
\* and the token of the page.
LEMMA ProvenInv ==
  ASSUME TypeOK, Proven, [Next]_vars PROVE Proven'
<1> USE ItemAssumption, CredentialAssumption, NoneAssumption
    DEF Proven, VerdictIsOfCredential, AuthenticatedHasToken, OrderHasProof, user
<1>1. ASSUME NEW i \in Item, AddToCart(i) PROVE Proven'
  BY <1>1 DEF AddToCart
<1>2. ASSUME NEW i \in Item, RemoveFromCart(i) PROVE Proven'
  BY <1>2 DEF RemoveFromCart
<1>3. ASSUME NEW p \in {"shop", "checkout"}, GoTo(p) PROVE Proven'
  BY <1>3 DEF GoTo
<1>4. ASSUME NEW c \in Demo \cup {None}, Select(c) PROVE Proven'
  BY <1>4 DEF Select
<1>5. ASSUME NEW c \in Credential, Upload(c) PROVE Proven'
  BY <1>5 DEF Upload
<1>6. ASSUME NEW c \in Credential, Revoke(c) PROVE Proven'
  BY <1>6 DEF Revoke
<1>7. CASE Verify
  BY <1>7 DEF Verify
<1>8. CASE Authenticate
  BY <1>8 DEF Authenticate
<1>9. CASE Logout
  BY <1>9 DEF Logout
<1>10. CASE Checkout
  <2>1. order' = [items |-> items, credential |-> credential, jwt |-> jwt]
    BY <1>10 DEF Checkout
  <2>2. ASSUME items \cap Restricted # {} PROVE credential \in proved /\ jwt # None
    BY <1>10, <2>2 DEF Checkout, CanCheckOut
  <2>3. OrderHasProof'
    BY <1>10, <2>1, <2>2 DEF Checkout
  <2> QED  BY <1>10, <2>3 DEF Checkout
<1>11. CASE Reload
  BY <1>11 DEF Reload
<1>12. ASSUME NEW c \in verifying, NEW verdict \in BOOLEAN \cup {None}, Verdict(c, verdict)
       PROVE Proven'
  BY <1>12 DEF Verdict
<1>13. ASSUME NEW a \in authenticating, NEW ok \in BOOLEAN, Token(a, ok) PROVE Proven'
  BY <1>13 DEF Token, HasKey
<1>14. CASE UNCHANGED vars
  BY <1>14 DEF vars
<1> QED
  BY <1>1, <1>2, <1>3, <1>4, <1>5, <1>6, <1>7, <1>8, <1>9, <1>10, <1>11, <1>12, <1>13, <1>14
  DEF Next

\* The invariant of the page, whatever is clicked and answered.
THEOREM SpecCheckoutInv == Spec => []CheckoutInv
<1>1. CheckoutInv /\ [Next]_vars => CheckoutInv'
  BY TypeInv, ProvenInv DEF CheckoutInv
<1> QED  BY CheckoutInit, <1>1, PTL DEF Spec

\* The page keeps its types; a file is selected only where it is shown.
THEOREM SpecTypeOK == Spec => []TypeOK
<1>1. CheckoutInv => TypeOK
  BY DEF CheckoutInv
<1> QED  BY SpecCheckoutInv, <1>1, PTL

\* Restricted items are ordered with a credential that was found valid, by
\* somebody with a token, for any number of credentials and late answers.
THEOREM SpecOrderHasProof == Spec => []OrderHasProof
<1>1. CheckoutInv => OrderHasProof
  BY DEF CheckoutInv, Proven
<1> QED  BY SpecCheckoutInv, <1>1, PTL

\* What counts as verified was found valid, and who is authenticated has a
\* token.
THEOREM SpecVerdict == Spec => [](VerdictIsOfCredential /\ AuthenticatedHasToken)
<1>1. CheckoutInv => VerdictIsOfCredential /\ AuthenticatedHasToken
  BY DEF CheckoutInv, Proven
<1> QED  BY SpecCheckoutInv, <1>1, PTL
===============================================================================
