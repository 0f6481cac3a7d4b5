-------------------------- MODULE CredentialRegistry --------------------------
(***************************************************************************)
(* What the bridge promises of its credentials, whatever its databases and *)
(* its identity document go through: a credential is issued once, and its  *)
(* revocation, which was asked for, is for good.                           *)
(***************************************************************************)
CONSTANT Credential    \* what the bridge can issue
VARIABLES standing,    \* "none", "valid" or "revoked"
          wanted       \* the credentials whose revocation was asked for

Init == /\ standing = [c \in Credential |-> "none"]
        /\ wanted = {}

Issue(c) == /\ standing[c] = "none"
            /\ standing' = [standing EXCEPT ![c] = "valid"]
            /\ UNCHANGED wanted

\* Only an issued credential can be named in a request.
Ask(c) == /\ standing[c] # "none"
          /\ wanted' = wanted \cup {c}
          /\ UNCHANGED standing

Revoke(c) == /\ standing[c] = "valid"
             /\ c \in wanted
             /\ standing' = [standing EXCEPT ![c] = "revoked"]
             /\ UNCHANGED wanted

Next == \E c \in Credential : Issue(c) \/ Ask(c) \/ Revoke(c)

Spec == Init /\ [][Next]_<<standing, wanted>>
===============================================================================
