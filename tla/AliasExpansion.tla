--------------------------- MODULE AliasExpansion ---------------------------
(***************************************************************************)
(* What the filter promises of every mail the MTA delivers through it: an  *)
(* authenticated mail gains the members of the list its sender address     *)
(* names, except the addresses of the account itself; every other mail is  *)
(* left as it is.  Mails the promise does not cover are out of sight.      *)
(* Nothing of the filter's own state appears here.                         *)
(***************************************************************************)
EXTENDS Integers

CONSTANTS Session,        \* SMTP connections to the filter
          Sender,         \* envelope senders
          Account,        \* accounts users authenticate with
          NoAccount,      \* the account of an unauthenticated session
          NoMail,         \* no mail transaction
          ListAnswers,    \* sender -> possible sets of members the directory answers
          OwnAnswers,     \* account -> possible sets of its own addresses
          AddMayFail      \* TRUE when the MTA may refuse an added recipient

Mail == [sender : Sender, acct : Account \cup {NoAccount}]

\* The recipients a mail may gain.  The directory may change between queries.
Expansions(m) ==
  IF m.acct = NoAccount THEN {{}}
  ELSE {L \ O : L \in ListAnswers[m.sender], O \in OwnAnswers[m.acct]}

Promised(m) ==
  IF AddMayFail THEN UNION {SUBSET E : E \in Expansions(m)} ELSE Expansions(m)

VARIABLES mail,       \* session -> its mail transaction
          delivered   \* the last mail delivered and what it gained

vars == <<mail, delivered>>

Init ==
  /\ mail = [s \in Session |-> NoMail]
  /\ delivered = NoMail

Begin(s) ==
  /\ mail[s] = NoMail
  /\ \E m \in Mail : mail' = [mail EXCEPT ![s] = m]
  /\ UNCHANGED delivered

Deliver(s) ==
  /\ mail[s] # NoMail
  /\ \E B \in Promised(mail[s]) : delivered' = [mail |-> mail[s], bcc |-> B]
  /\ mail' = [mail EXCEPT ![s] = NoMail]

Drop(s) == mail' = [mail EXCEPT ![s] = NoMail] /\ UNCHANGED delivered

\* A mail the promise does not cover is delivered.
Uncovered == delivered' = NoMail /\ UNCHANGED mail

\* The filter dies and the mails are out of its hands.
Crash == mail' = [s \in Session |-> NoMail] /\ UNCHANGED delivered

Next == Crash \/ Uncovered \/ \E s \in Session : Begin(s) \/ Deliver(s) \/ Drop(s)

Spec == Init /\ [][Next]_vars
=============================================================================
