--------------------------- MODULE BarbicanClient ----------------------------
(***************************************************************************)
(* The Barbican states of salt-formula-barbican (_states/barbicanv1.py)    *)
(* that barbican.client applies, with the client functions of              *)
(* _modules/barbicanv1 they call: secrets, their ACLs, and the signature   *)
(* of an image with the certificate in a secret.                           *)
(*                                                                         *)
(* `send` tries a call again whenever no answer comes, which may well mean *)
(* that Barbican has obeyed; and if the call is refused, or was tried      *)
(* often enough, `send` returns {} as if there were nothing to report.     *)
(* Secrets are looked up by name, but Barbican has any number of secrets   *)
(* of one name.                                                            *)
(*                                                                         *)
(* Abstractions: a secret is created together with its payload; the        *)
(* payload of an existing secret is not modelled, only the calls that ask  *)
(* for it.  The ACL of a name is that of its first secret.  An image is    *)
(* named by the secret whose certificate signs it.                         *)
(***************************************************************************)
EXTENDS SaltStages

CONSTANTS
  Secrets,      \* the secrets of the pillar
  WithPayload,  \* those of them with a payload
  Users,        \* the users that the pillar gives access to the secrets
  Retries       \* how often `send` tries a call (30 in the code)

ASSUME BarbicanAssumption ==
  WithPayload \subseteq Secrets /\ Users # {} /\ Retries \in Nat \ {0}

VARIABLES
  copies,     \* copies[s]: how many secrets have the name s
  acl,        \* acl[s]: the users with access to s
  signed,     \* the secrets whose certificate has signed the image
  missing,    \* missing[m]: the users that m puts
  tried,      \* tried[m]: how often m has tried the call it makes
  hidden,     \* history: a failure was reported as a success
  partial     \* history: an ACL was found to have some of the users only

barbicanVars == <<copies, acl, signed, missing, tried, hidden, partial>>

\* What a state goes on with: it has to create, to ask for the payload, to set
\* it, to get the ACL, to put the users it lacks, to update the image.
BarbicanSeen == {"create", "payload", "set", "acl", "put", "image"}

BarbicanTypeOK ==
  /\ copies \in [Secrets -> Nat]
  /\ acl \in [Secrets -> SUBSET Users]
  /\ signed \subseteq Secrets
  /\ missing \in [Minions -> SUBSET Users]
  /\ tried \in [Minions -> 0 .. Retries - 1]
  /\ hidden \in BOOLEAN /\ partial \in BOOLEAN

\* A new cloud, or one that has the secret, with the ACL of an earlier pillar.
BarbicanInit ==
  /\ copies \in [Secrets -> {0, 1}]
  /\ acl \in [Secrets -> SUBSET Users]
  /\ \A s \in Secrets : copies[s] = 0 => acl[s] = {}
  /\ signed = {}
  /\ missing = [m \in Minions |-> {}]
  /\ tried = [m \in Minions |-> 0]
  /\ hidden = FALSE /\ partial = FALSE

Name(m) == Current(m).name

\* A mutant of Found: the first of several secrets will do.
FoundFirst(s) == IF copies[s] = 0 THEN "none" ELSE "one"

\* get_by_name_or_uuid: a secret; ResourceNotFound, MultipleResourcesFound; or
\* an exception of another kind, if Barbican gave no answer for long.
Found(s) == IF copies[s] = 0 THEN "none" ELSE IF copies[s] = 1 THEN "one" ELSE "many"

Answers == {"none", "one", "many", "no answer"}

\* The secret of the name is looked up, with answer n.
LookUp(m, n) ==
  \/ NoFault /\ n = Found(Name(m))
  \/ Fault /\ n = "no answer"

Report(m, ok, isHidden) ==
  /\ Return(m, ok)
  /\ tried' = [tried EXCEPT ![m] = 0]
  /\ missing' = [missing EXCEPT ![m] = {}]
  /\ hidden' = (hidden \/ isHidden)
  /\ UNCHANGED partial

\* The call is tried again, or `send` gives up, and the state has succeeded.
NextTry(m) ==
  \/ /\ tried[m] + 1 < Retries
     /\ tried' = [tried EXCEPT ![m] = @ + 1]
     /\ UNCHANGED <<stage, at, seen, failed, tries, phase, missing, hidden, partial>>
  \/ /\ tried[m] + 1 = Retries
     /\ Report(m, TRUE, TRUE)

(***************************************************************************)
(* A call of `send` that changes something: it works; it is obeyed and the *)
(* answer is lost; it does not get there; or it is refused.  Before the    *)
(* first try a client is made, and if that fails so does the state.        *)
(***************************************************************************)
Send(m, Effect, NoEffect) ==
  \/ Effect /\ Report(m, TRUE, FALSE) /\ NoFault
  \/ Effect /\ NextTry(m) /\ Fault
  \/ NoEffect /\ NextTry(m) /\ Fault
  \/ NoEffect /\ Report(m, TRUE, TRUE) /\ Fault
  \/ tried[m] = 0 /\ NoEffect /\ Report(m, FALSE, FALSE) /\ Fault

SameSecrets == UNCHANGED <<copies, acl, signed>>
GoOn(m, v)  == See(m, v) /\ UNCHANGED <<missing, tried, hidden, partial>>

(***************************************************************************)
(* secret_present.  An exception that says neither "not found" nor         *)
(* "multiple" is ignored.                                                  *)
(***************************************************************************)
SeekSecret(m) ==
  /\ Begins(m, "secret")
  /\ \E n \in Answers : LookUp(m, n) /\
       \/ n = "none" /\ GoOn(m, "create")
       \/ n = "many" /\ Report(m, FALSE, FALSE)
       \/ n \in {"one", "no answer"} /\ Name(m) \in WithPayload /\ GoOn(m, "payload")
       \/ n \in {"one", "no answer"} /\ Name(m) \notin WithPayload
            /\ Report(m, TRUE, n = "no answer")
  /\ SameSecrets

\* Barbican takes any number of secrets of one name.
CreateSecret(m) ==
  /\ Continues(m, "secret") /\ seen[m] = "create"
  /\ Send(m, copies' = [copies EXCEPT ![Name(m)] = @ + 1], UNCHANGED copies)
  /\ UNCHANGED <<acl, signed>>

\* secret_payload_get succeeds whenever the secret is found.
GetPayload(m) ==
  /\ Continues(m, "secret") /\ seen[m] = "payload"
  /\ \E n \in Answers : LookUp(m, n) /\
       \/ n = "one" /\ Report(m, TRUE, FALSE)
       \/ n # "one" /\ GoOn(m, "set")
  /\ SameSecrets

SetPayload(m) ==
  /\ Continues(m, "secret") /\ seen[m] = "set"
  /\ \E n \in Answers : LookUp(m, n) /\ Report(m, n = "one", FALSE)
  /\ SameSecrets

(***************************************************************************)
(* secret_acl_present.  A secret that is absent counts as a success.       *)
(***************************************************************************)
SeekForAcl(m) ==
  /\ Begins(m, "acl")
  /\ \E n \in Answers : LookUp(m, n) /\
       \/ n = "none" /\ Report(m, TRUE, TRUE)
       \/ n = "many" /\ Report(m, FALSE, FALSE)
       \/ n \in {"one", "no answer"} /\ GoOn(m, "acl")
  /\ SameSecrets

WillPut(m, users) ==
  /\ See(m, "put")
  /\ missing' = [missing EXCEPT ![m] = users]
  /\ partial' = (partial \/ users # Users)
  /\ UNCHANGED <<tried, hidden>>

\* The users that the ACL lacks are put.  An answer of {} is a KeyError.
GetAcl(m) ==
  /\ Continues(m, "acl") /\ seen[m] = "acl"
  /\ \E n \in Answers : LookUp(m, n) /\
       LET lacking == Users \ acl[Name(m)] IN
       \/ n = "one" /\ lacking = {} /\ Report(m, TRUE, FALSE)
       \/ n = "one" /\ lacking # {} /\ WillPut(m, lacking)
       \/ n = "none" /\ WillPut(m, Users)
       \/ n \in {"many", "no answer"} /\ Report(m, FALSE, FALSE)
  /\ SameSecrets

\* The PUT replaces the users of the ACL.  It needs the secret, which is looked
\* up once for all tries; an exception of the look-up is that of the state.
PutAcl(m) ==
  /\ Continues(m, "acl") /\ seen[m] = "put"
  /\ \/ /\ tried[m] > 0 \/ copies[Name(m)] = 1
        /\ Send(m, acl' = [acl EXCEPT ![Name(m)] = missing[m]], UNCHANGED acl)
     \/ /\ tried[m] = 0
        /\ \E n \in Answers \ {"one"} : LookUp(m, n) /\ Report(m, FALSE, FALSE)
        /\ UNCHANGED acl
  /\ UNCHANGED <<copies, signed>>

(***************************************************************************)
(* glance_image_signed.  Calls to Glance that fail are failures.           *)
(***************************************************************************)
ReadImage(m) ==
  /\ Begins(m, "signature")
  /\ \/ NoFault /\ Name(m) \in signed /\ Report(m, TRUE, FALSE)
     \/ NoFault /\ Name(m) \notin signed /\ GoOn(m, "image")
     \/ Fault /\ Report(m, FALSE, FALSE)
  /\ SameSecrets

SignImage(m) ==
  /\ Continues(m, "signature")
  /\ \/ /\ LookUp(m, "one")
        /\ signed' = signed \union {Name(m)} /\ Report(m, TRUE, FALSE)
     \/ /\ \E n \in Answers \ {"one"} : LookUp(m, n)
        /\ UNCHANGED signed /\ Report(m, FALSE, FALSE)
     \/ /\ copies[Name(m)] = 1 /\ Fault /\ Report(m, FALSE, FALSE)
        /\ signed' \in {signed, signed \union {Name(m)}}
  /\ UNCHANGED <<copies, acl>>

BarbicanStep(m) ==
  \/ SeekSecret(m) \/ CreateSecret(m) \/ GetPayload(m) \/ SetPayload(m)
  \/ SeekForAcl(m) \/ GetAcl(m) \/ PutAcl(m)
  \/ ReadImage(m) \/ SignImage(m)
===============================================================================
