------------------------------ MODULE SecantDemo ------------------------------
(***************************************************************************)
(* The demo of an accident: devices in ambulances and the operator of an   *)
(* emergency service write to one channel.  Their programs keep an         *)
(* identity in a file, log in when a request is refused, swallow most      *)
(* errors, and are started again by somebody.                              *)
(***************************************************************************)
EXTENDS Naturals

CONSTANTS Device,      \* devices in ambulances
          Operator,    \* the operator of the emergency service
          MaxChannel,  \* the operator makes so many channels at most
          MaxFaults    \* requests without an answer, programs that are killed

Program == Device \cup {Operator}

VARIABLES file,      \* the identity in a program's file, 0: no file
          made,      \* how many identities a program has created
          channels,  \* how many channels the operator has created
          note,      \* the channel in Channel.json, 0: no file
          env,       \* CHANNEL_ADDRESS of a device, 0: not inserted yet
          subs,      \* subscriptions <<device, identity, channel>>
          granted,   \* those that are authorized
          logs,      \* <<channel, program, which of its logs>>
          header,    \* axiosClient has the token of the identity in the file
          retried,   \* the request under way is the second try
          at,        \* what a program is doing
          faults     \* how often something failed

vars == <<file, made, channels, note, env, subs, granted, logs, header, retried, at, faults>>

Logging == {"first log", "log 1", "log 2"}
Asking == Logging \cup {"state", "request", "channel"}
Setup == {"identity", "messages"}

Init ==
  /\ file = [p \in Program |-> 0] /\ made = [p \in Program |-> 0]
  /\ channels = 0 /\ note = 0 /\ env = [d \in Device |-> 0]
  /\ subs = {} /\ granted = {} /\ logs = {}
  /\ header = [p \in Program |-> FALSE] /\ retried = [p \in Program |-> FALSE]
  /\ at = [p \in Program |-> "off"]
  /\ faults = 0

Go(p, next) ==
  /\ at' = [at EXCEPT ![p] = next]
  /\ retried' = [retried EXCEPT ![p] = FALSE]

server == <<made, channels, subs, granted, logs>>

-----------------------------------------------------------------------------
(* Starting, and the identity of a program.                                *)

\* index.ts of both, and write-messages.ts of the operator; setup-ems.ts is
\* the operator's index.ts again.
Start(p) ==
  /\ at[p] = "off"
  /\ p \in Device \/ channels < MaxChannel
  /\ Go(p, "identity")
  /\ header' = [header EXCEPT ![p] = FALSE]
  /\ UNCHANGED <<file, server, note, env, faults>>

WriteMessages ==
  /\ at[Operator] = "off"
  /\ Go(Operator, "messages")
  /\ header' = [header EXCEPT ![Operator] = FALSE]
  /\ UNCHANGED <<file, server, note, env, faults>>

\* What follows; without a channel address the device exits.
AfterSetup(p) ==
  CASE at[p] = "messages" -> "log 1"
    [] at[p] = "identity" /\ p = Operator -> "channel"
    [] at[p] = "identity" /\ p \in Device -> IF env[p] = 0 THEN "off" ELSE "state"

\* Variant that a property must tell apart: the file is not looked at.
AlwaysNew(p) == TRUE

MustCreate(p) == file[p] = 0

\* createIdentity, createDoctorIdentity.
FindIdentity(p) ==
  /\ at[p] \in Setup /\ ~MustCreate(p)
  /\ Go(p, AfterSetup(p))
  /\ UNCHANGED <<file, server, note, env, header, faults>>

CreateIdentity(p) ==
  /\ at[p] \in Setup /\ MustCreate(p)
  /\ made' = [made EXCEPT ![p] = @ + 1]
  /\ file' = [file EXCEPT ![p] = made[p] + 1]
  /\ Go(p, AfterSetup(p))
  /\ UNCHANGED <<channels, note, env, subs, granted, logs, header, faults>>

\* The answer is lost, or the program is killed before it writes the file.
LoseIdentity(p) ==
  /\ faults < MaxFaults /\ faults' = faults + 1
  /\ at[p] \in Setup /\ MustCreate(p)
  /\ made' \in {made, [made EXCEPT ![p] = @ + 1]}
  /\ \E next \in {"off", AfterSetup(p)} : Go(p, next)
  /\ UNCHANGED <<file, channels, note, env, subs, granted, logs, header>>

-----------------------------------------------------------------------------
(* Requests.  An error of the first try is swallowed: there is no answer.  *)
(* One of the login or of the second try is thrown, and ends the program,  *)
(* or in writeChannel is caught.                                           *)

AfterLog(p) == IF at[p] = "log 1" THEN "log 2" ELSE "off"

Without(p) == CASE at[p] \in Logging -> AfterLog(p)
                [] at[p] = "request" -> "off"
                [] at[p] = "state" -> "log 1"
                [] at[p] = "channel" -> "first log"

Thrown(p) == IF at[p] \in Logging THEN AfterLog(p) ELSE "off"

\* fetchAuth throws without an identity in the file.
CanLogIn(p) == file[p] # 0

\* errFunc: an answer 401 makes the program log in with the keys in its file.
LogIn(p) ==
  /\ at[p] \in Asking /\ ~header[p]
  /\ IF CanLogIn(p)
     THEN /\ header' = [header EXCEPT ![p] = TRUE]
          /\ retried' = [retried EXCEPT ![p] = TRUE]
          /\ UNCHANGED at
     ELSE Go(p, Thrown(p)) /\ UNCHANGED header
  /\ UNCHANGED <<file, server, note, env, faults>>

LoseLogin(p) ==
  /\ faults < MaxFaults /\ faults' = faults + 1
  /\ at[p] \in Asking /\ ~header[p]
  /\ \E next \in {Thrown(p), Without(p)} : Go(p, next)
  /\ UNCHANGED <<file, server, note, env, header>>

Answering(p) == at[p] \in Asking /\ header[p]

\* A request fails before the service has done anything; whether it fails
\* afterwards makes a difference to LoseChannel only.
LoseRequest(p) ==
  /\ faults < MaxFaults /\ faults' = faults + 1
  /\ Answering(p)
  /\ Go(p, IF retried[p] THEN Thrown(p) ELSE Without(p))
  /\ UNCHANGED <<file, server, note, env, header>>

Mine(d) == <<d, file[d], env[d]>>

\* checkSubscriptionState.
AskState(d) ==
  /\ at[d] = "state" /\ Answering(d)
  /\ Go(d, IF Mine(d) \in granted THEN "log 1"
           ELSE IF Mine(d) \in subs THEN "off" ELSE "request")
  /\ UNCHANGED <<file, server, note, env, header, faults>>

\* requestSubscription, then the device exits.
RequestSubscription(d) ==
  /\ at[d] = "request" /\ Answering(d)
  /\ subs' = subs \cup {Mine(d)}
  /\ Go(d, "off")
  /\ UNCHANGED <<file, made, channels, note, env, granted, logs, header, faults>>

\* createStreamChannel.
CreateChannel ==
  /\ at[Operator] = "channel" /\ Answering(Operator)
  /\ channels' = channels + 1 /\ note' = channels + 1
  /\ Go(Operator, "first log")
  /\ UNCHANGED <<file, made, env, subs, granted, logs, header, faults>>

\* The answer is lost, or the program is killed before it writes the file.
LoseChannel ==
  /\ faults < MaxFaults /\ faults' = faults + 1
  /\ at[Operator] = "channel" /\ Answering(Operator)
  /\ channels' = channels + 1
  /\ \E next \in {"off", "first log"} : Go(Operator, next)
  /\ UNCHANGED <<file, made, note, env, subs, granted, logs, header>>

\* writeChannel; the operator takes the channel in its file, not the one it
\* is given.  Who has no subscription is refused.
MayWrite(p) == IF p = Operator THEN note # 0 ELSE Mine(p) \in granted

WriteChannel(p) ==
  /\ at[p] \in Logging /\ Answering(p)
  /\ logs' = IF MayWrite(p)
             THEN logs \cup {<<IF p = Operator THEN note ELSE env[p], p, at[p]>>} ELSE logs
  /\ Go(p, AfterLog(p))
  /\ UNCHANGED <<file, made, channels, note, env, subs, granted, header, faults>>

Kill(p) ==
  /\ faults < MaxFaults /\ faults' = faults + 1
  /\ at[p] # "off"
  /\ Go(p, "off")
  /\ UNCHANGED <<file, server, note, env, header>>

-----------------------------------------------------------------------------
(* By hand: the address is put into .env, the device is authorized.        *)

InsertAddress(d) ==
  /\ at[d] = "off" /\ env[d] = 0 /\ note # 0
  /\ env' = [env EXCEPT ![d] = note]
  /\ UNCHANGED <<file, server, note, header, retried, at, faults>>

AuthorizeDevice(s) ==
  /\ granted' = granted \cup {s}
  /\ UNCHANGED <<file, made, channels, note, env, subs, logs, header, retried, at, faults>>

-----------------------------------------------------------------------------
Progress(p) ==
  \/ Start(p) \/ FindIdentity(p) \/ CreateIdentity(p) \/ LogIn(p) \/ WriteChannel(p)
  \/ p \in Device /\ (AskState(p) \/ RequestSubscription(p))
  \/ p = Operator /\ CreateChannel

Fault(p) ==
  \/ LoseIdentity(p) \/ LoseLogin(p) \/ LoseRequest(p) \/ Kill(p)
  \/ p = Operator /\ LoseChannel

Next ==
  \/ \E p \in Program : Progress(p) \/ Fault(p)
  \/ \E d \in Device : InsertAddress(d)
  \/ \E s \in subs \ granted : AuthorizeDevice(s)
  \/ WriteMessages

Spec == Init /\ [][Next]_vars

\* Programs go on and are started again; whoever reads what they print does
\* what they ask for, in the end.
FairSpec ==
  /\ Spec
  /\ \A p \in Program : WF_vars(Progress(p))
  /\ SF_vars(Start(Operator)) /\ \A d \in Device : SF_vars(InsertAddress(d))
  /\ WF_vars(\E s \in subs \ granted : AuthorizeDevice(s))

-----------------------------------------------------------------------------
(* Properties.                                                             *)

TypeOK ==
  /\ \A p \in Program : made[p] \in 0..MaxFaults + 1 /\ file[p] \in 0..made[p]
  /\ channels \in 0..MaxChannel /\ note \in 0..channels
  /\ env \in [Device -> 0..note]
  /\ granted \subseteq subs
  /\ at \in [Program -> Asking \cup Setup \cup {"off"}]

\* However often a device is killed and started again, a channel has one
\* subscription of it, made with the keys the device still has.
OneSubscription ==
  \A s \in subs : s[2] = file[s[1]] /\ \A t \in subs : s[1] = t[1] => s = t

\* Only those logs are there that a device wrote after it was authorized.
LogsAreGranted ==
  \A l \in logs : l[2] \in Device => <<l[2], file[l[2]], l[1]>> \in granted

\* If the programs are started again, every device gets its logs to the
\* channel, although each run of it may lose them.
LogsArrive ==
  \A d \in Device : <>({<<env[d], d, "log 1">>, <<env[d], d, "log 2">>} \subseteq logs)
===============================================================================
