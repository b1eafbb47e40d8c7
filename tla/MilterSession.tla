---------------------------- MODULE MilterSession ---------------------------
(***************************************************************************)
(* The callbacks of src/smfi_cb.c over the private data of                 *)
(* src/priv_data.c and the two searches of src/extldap.c.                  *)
(*                                                                         *)
(* libmilter runs the callbacks of a connection one after the other and    *)
(* those of different connections concurrently, so the steps of the end-   *)
(* of-message callbacks of two sessions interleave.  They share the heap   *)
(* and the fate of the process.  The MTA, libmilter and the LDAP server    *)
(* are external: mail, login, gone, abandoned, bcc and delivered are       *)
(* theirs.                                                                 *)
(***************************************************************************)
EXTENDS Integers, FiniteSets

CONSTANTS Session, Sender, Account, NoAccount, NoMail, ListAnswers, OwnAnswers,
          AddMayFail,     \* these as in AliasExpansion
          Id,             \* bound: priv_data_t objects alive at once
          NULL,           \* the null pointer
          Free,           \* content of an object that is not allocated
          MayAbort,       \* TRUE when a client may give up a mail it has begun
          MayHangUp,      \* TRUE when it may hang up during end of message
          AuthMayLapse,   \* TRUE when a connection may lose its authentication
          LdapMayFail,    \* TRUE when a search may return NULL
          AllocMayFail    \* TRUE when malloc and realloc may fail

Members == UNION UNION {ListAnswers[x] : x \in Sender}

Mail == [sender : Sender, acct : Account \cup {NoAccount}]
Delivery == [mail : Mail, bcc : SUBSET Members, abandoned : BOOLEAN]
PrivData == [sender : Sender \cup {NULL}, acct : Account \cup {NULL}]

ASSUME AccountsAssumption == NoAccount \notin Account
ASSUME NullsAssumption ==
  /\ NoMail \notin Mail \cup Delivery /\ Free \notin PrivData
  /\ NULL \notin Id \cup Sender \cup Account
ASSUME AnswersAssumption ==
  /\ \A x \in Sender : ListAnswers[x] \subseteq SUBSET Int
  /\ \A a \in Account : OwnAnswers[a] # {}
ASSUME OptionsAssumption ==
  {AddMayFail, MayAbort, MayHangUp, AuthMayLapse, LdapMayFail, AllocMayFail} \subseteq BOOLEAN

VARIABLES alive,      \* the process runs
          login,      \* session -> {auth_authen} of the connection
          mail,       \* session -> its mail transaction
          gone,       \* session -> the MTA has hung up during the callback
          abandoned,  \* session -> its last authenticated mail was given up, and
                      \*            none has been delivered since
          priv,       \* session -> smfi_getpriv: an object or NULL
          heap,       \* object -> envelope_sender and auth_acct, or Free
          pc,         \* session -> where its end-of-message callback is
          list,       \* session -> list_addresses, what is still to be added
          bcc,        \* session -> recipients added to its mail
          delivered   \* the last mail delivered and what it gained

external == <<login, mail, gone, abandoned, bcc, delivered>>
vars == <<alive, priv, heap, pc, list, external>>

\* No MTA is connected.
NoSession ==
  /\ login = [s \in Session |-> NoAccount]
  /\ mail = [s \in Session |-> NoMail]
  /\ gone = [s \in Session |-> FALSE]
  /\ abandoned = [s \in Session |-> FALSE]
  /\ priv = [s \in Session |-> NULL]
  /\ heap = [d \in Id |-> Free]
  /\ pc = [s \in Session |-> "idle"]
  /\ list = [s \in Session |-> {}]
  /\ bcc = [s \in Session |-> {}]
  /\ delivered = NoMail

Init == alive = TRUE /\ NoSession

-----------------------------------------------------------------------------

\* A null pointer is dereferenced: every session dies with the process, and
\* the MTA treats their mails as if there were no filter.  That the process is
\* dead tells the end of a callback from its return.
Crash ==
  /\ alive' = FALSE
  /\ login' = [t \in Session |-> NoAccount]
  /\ mail' = [t \in Session |-> NoMail]
  /\ gone' = [t \in Session |-> FALSE]
  /\ abandoned' = [t \in Session |-> FALSE]
  /\ priv' = [t \in Session |-> NULL]
  /\ heap' = [d \in Id |-> Free]
  /\ pc' = [t \in Session |-> "idle"]
  /\ list' = [t \in Session |-> {}]
  /\ bcc' = [t \in Session |-> {}]
  /\ UNCHANGED delivered

-----------------------------------------------------------------------------
(* The connection: what the MTA does between mails.                        *)

Between(s) == alive /\ pc[s] = "idle" /\ mail[s] = NoMail

Authenticate(s) ==
  /\ Between(s) /\ login[s] = NoAccount
  /\ \E a \in Account : login' = [login EXCEPT ![s] = a]
  /\ UNCHANGED <<alive, mail, gone, abandoned, priv, heap, pc, list, bcc, delivered>>

Lapse(s) ==
  /\ Between(s) /\ AuthMayLapse
  /\ login' = [login EXCEPT ![s] = NoAccount]
  /\ UNCHANGED <<alive, mail, gone, abandoned, priv, heap, pc, list, bcc, delivered>>

\* No abort callback is registered: the private data stays.
Abort(s) ==
  /\ alive /\ MayAbort /\ pc[s] = "idle" /\ mail[s] # NoMail
  /\ mail' = [mail EXCEPT ![s] = NoMail]
  /\ abandoned' = [abandoned EXCEPT ![s] = @ \/ mail[s].acct # NoAccount]
  /\ UNCHANGED <<alive, login, gone, priv, heap, pc, list, bcc, delivered>>

\* Nor is a close callback: the next connection gets a fresh context.
Close(s) ==
  /\ alive /\ pc[s] = "idle" /\ (MayAbort \/ mail[s] = NoMail)
  /\ mail' = [mail EXCEPT ![s] = NoMail]
  /\ login' = [login EXCEPT ![s] = NoAccount]
  /\ abandoned' = [abandoned EXCEPT ![s] = FALSE]
  /\ priv' = [priv EXCEPT ![s] = NULL]
  /\ UNCHANGED <<alive, gone, heap, pc, list, bcc, delivered>>

\* The MTA times out or drops the connection while the callback runs.
HangUp(s) ==
  /\ alive /\ MayHangUp /\ pc[s] # "idle" /\ ~gone[s]
  /\ gone' = [gone EXCEPT ![s] = TRUE]
  /\ mail' = [mail EXCEPT ![s] = NoMail]
  /\ UNCHANGED <<alive, login, abandoned, priv, heap, pc, list, bcc, delivered>>

-----------------------------------------------------------------------------
(* mlfi_envfrom_cb: MAIL FROM.                                             *)

EnvfromUnauthenticated(s, x) ==
  /\ Between(s) /\ login[s] = NoAccount
  /\ mail' = [mail EXCEPT ![s] = [sender |-> x, acct |-> NoAccount]]
  /\ UNCHANGED <<alive, login, gone, abandoned, priv, heap, pc, list, bcc, delivered>>

\* What the setters store of a mail: a copy that cannot be had stays NULL, and
\* their results are ignored.
Recorded(m) ==
  IF AllocMayFail THEN [sender : {m.sender, NULL}, acct : {m.acct, NULL}] ELSE {m}

\* Mutants: one object for all; the data of an earlier mail is kept.
EnvfromAuthenticated_Shared(s, x) ==
  /\ Between(s) /\ login[s] # NoAccount
  /\ LET m == [sender |-> x, acct |-> login[s]] IN
     \E d \in Id : /\ mail' = [mail EXCEPT ![s] = m]
                   /\ heap' = [heap EXCEPT ![d] = m]
                   /\ priv' = [priv EXCEPT ![s] = d]
  /\ abandoned' = [abandoned EXCEPT ![s] = FALSE]
  /\ UNCHANGED <<alive, login, gone, pc, list, bcc, delivered>>
EnvfromAuthenticated_KeepsOld(s, x) ==
  /\ Between(s) /\ login[s] # NoAccount
  /\ LET m == [sender |-> x, acct |-> login[s]] IN
     /\ mail' = [mail EXCEPT ![s] = m]
     /\ IF priv[s] # NULL
        THEN UNCHANGED <<heap, priv>>
        ELSE \E d \in Id : /\ heap[d] = Free
                           /\ heap' = [heap EXCEPT ![d] = m]
                           /\ priv' = [priv EXCEPT ![s] = d]
  /\ abandoned' = [abandoned EXCEPT ![s] = FALSE]
  /\ UNCHANGED <<alive, login, gone, pc, list, bcc, delivered>>
EnvfromAuthenticated(s, x) ==
  /\ Between(s) /\ login[s] # NoAccount
  /\ LET m == [sender |-> x, acct |-> login[s]] IN
     \E d \in Id, r \in Recorded(m) :
       /\ heap[d] = Free
       /\ mail' = [mail EXCEPT ![s] = m]
       /\ heap' = [heap EXCEPT ![d] = r]
       /\ priv' = [priv EXCEPT ![s] = d]
  /\ abandoned' = [abandoned EXCEPT ![s] = FALSE]
  /\ UNCHANGED <<alive, login, gone, pc, list, bcc, delivered>>

\* No memory for the object or for the normalised address.
EnvfromNoMemory(s) ==
  /\ Between(s) /\ login[s] # NoAccount /\ AllocMayFail
  /\ Crash

-----------------------------------------------------------------------------
(* mlfi_eom_cb: end of message.                                            *)

Eom(s) == alive /\ pc[s] = "idle" /\ mail[s] # NoMail

\* The callback has returned SMFIS_CONTINUE and the MTA delivers the mail.
Deliver(s, added) ==
  /\ delivered' = [mail |-> mail[s], bcc |-> added, abandoned |-> abandoned[s]]
  /\ mail' = [mail EXCEPT ![s] = NoMail]
  /\ abandoned' = [abandoned EXCEPT ![s] = FALSE]

\* No private data: the mail goes on unchanged.
EomPass(s) ==
  /\ Eom(s) /\ priv[s] = NULL
  /\ Deliver(s, {})
  /\ UNCHANGED <<alive, login, gone, priv, heap, pc, list, bcc>>

EomSearch(s) ==
  /\ Eom(s) /\ priv[s] # NULL
  /\ pc' = [pc EXCEPT ![s] = "list"]
  /\ UNCHANGED <<alive, priv, heap, list, external>>

\* What a search returns of the possible answers: one value is missing when the
\* last push onto the array failed.  Any push after a failed realloc writes behind
\* the block, where module LdapSearch stops, and a hole that a failed copy leaves
\* kills the process in sort_string_array, unless the array has no other entry.
Returned(answers) ==
  IF AllocMayFail THEN answers \cup UNION {{B \ {b} : b \in B} : B \in answers} ELSE answers

\* search_mail_addresses_of_list returns; an empty list ends the work.
ListAnswered(s) ==
  /\ alive /\ pc[s] = "list" /\ heap[priv[s]].sender # NULL
  /\ \E L \in Returned(ListAnswers[heap[priv[s]].sender]) :
       /\ list' = [list EXCEPT ![s] = L]
       /\ pc' = [pc EXCEPT ![s] = IF L = {} THEN "add" ELSE "own"]
  /\ UNCHANGED <<alive, priv, heap, external>>

\* search_mail_addresses_by_account returns; both arrays are sorted and the
\* second is subtracted from the first (module SubstractStringArray).
\* Mutant: the difference is not taken.
OwnAnswered_Unsubtracted(s) ==
  /\ alive /\ pc[s] = "own"
  /\ pc' = [pc EXCEPT ![s] = "add"]
  /\ UNCHANGED <<alive, priv, heap, list, external>>
OwnAnswered(s) ==
  /\ alive /\ pc[s] = "own" /\ heap[priv[s]].acct # NULL
  /\ \E O \in Returned(OwnAnswers[heap[priv[s]].acct]) :
       list' = [list EXCEPT ![s] = @ \ O]
  /\ pc' = [pc EXCEPT ![s] = "add"]
  /\ UNCHANGED <<alive, priv, heap, external>>

\* A search returned NULL, which get_string_array_size or sort_string_array
\* dereferences, or ran out of memory; or what it is to look for is NULL, which
\* strchrnul dereferences.
SearchFailed(s) ==
  /\ alive
  /\ \/ (LdapMayFail \/ AllocMayFail) /\ pc[s] \in {"list", "own"}
     \/ pc[s] = "list" /\ heap[priv[s]].sender = NULL
     \/ pc[s] = "own" /\ heap[priv[s]].acct = NULL
  /\ Crash

\* smfi_addrcpt in the order of the array; its result is ignored, and nobody
\* listens after the MTA has hung up.
\* Mutant: the loop does not advance.
AddRecipient_Stuck(s) ==
  /\ alive /\ pc[s] = "add"
  /\ \E a \in list[s] : /\ \A b \in list[s] : a <= b
                        /\ bcc' = [bcc EXCEPT ![s] = @ \cup {a}]
  /\ UNCHANGED <<alive, priv, heap, pc, list, login, mail, gone, abandoned, delivered>>
AddRecipient(s) ==
  /\ alive /\ pc[s] = "add"
  /\ \E a \in list[s] :
       /\ \A b \in list[s] : a <= b
       /\ list' = [list EXCEPT ![s] = @ \ {a}]
       /\ \/ ~gone[s] /\ bcc' = [bcc EXCEPT ![s] = @ \cup {a}]
          \/ (gone[s] \/ AddMayFail) /\ UNCHANGED bcc
  /\ UNCHANGED <<alive, priv, heap, pc, login, mail, gone, abandoned, delivered>>

\* free_priv_data, smfi_setpriv( ctx, NULL ), return; nobody but this thread looks
\* at the context in between.  The MTA delivers the mail; when it has hung up, the
\* connection ends.
\* Mutants: the object is not freed; nor is the pointer reset.
Release_Skipped(s) == UNCHANGED <<heap, priv>>
Release_Unfreed(s) ==
  /\ priv' = [priv EXCEPT ![s] = NULL]
  /\ UNCHANGED heap
Release(s) ==
  /\ heap' = [heap EXCEPT ![priv[s]] = Free]
  /\ priv' = [priv EXCEPT ![s] = NULL]

Finished(s) ==
  /\ alive /\ pc[s] = "add" /\ list[s] = {}
  /\ Release(s)
  /\ pc' = [pc EXCEPT ![s] = "idle"]
  /\ bcc' = [bcc EXCEPT ![s] = {}]
  /\ UNCHANGED <<alive, list>>

EomAnswered(s) ==
  /\ Finished(s) /\ ~gone[s]
  /\ Deliver(s, bcc[s])
  /\ UNCHANGED <<login, gone>>

EomUnheard(s) ==
  /\ Finished(s) /\ gone[s]
  /\ gone' = [gone EXCEPT ![s] = FALSE]
  /\ login' = [login EXCEPT ![s] = NoAccount]
  /\ abandoned' = [abandoned EXCEPT ![s] = FALSE]
  /\ UNCHANGED <<mail, delivered>>

Callback(s) ==
  \/ EomPass(s) \/ EomSearch(s) \/ ListAnswered(s) \/ OwnAnswered(s)
  \/ AddRecipient(s) \/ EomAnswered(s) \/ EomUnheard(s)

Connection(s) ==
  \/ Authenticate(s) \/ Lapse(s) \/ Abort(s) \/ Close(s) \/ HangUp(s)
  \/ \E x \in Sender : EnvfromUnauthenticated(s, x) \/ EnvfromAuthenticated(s, x)

Fatal(s) == EnvfromNoMemory(s) \/ SearchFailed(s)

Next == \E s \in Session : Connection(s) \/ Callback(s) \/ Fatal(s)

Spec == Init /\ [][Next]_vars

-----------------------------------------------------------------------------
(* Properties.                                                             *)

TypeOK ==
  /\ alive \in BOOLEAN
  /\ login \in [Session -> Account \cup {NoAccount}]
  /\ mail \in [Session -> Mail \cup {NoMail}]
  /\ gone \in [Session -> BOOLEAN] /\ abandoned \in [Session -> BOOLEAN]
  /\ priv \in [Session -> Id \cup {NULL}]
  /\ heap \in [Id -> PrivData \cup {Free}]
  /\ pc \in [Session -> {"idle", "list", "own", "add"}]
  /\ list \in [Session -> SUBSET Members]
  /\ bcc \in [Session -> SUBSET Members]
  /\ delivered \in Delivery \cup {NoMail}

\* No context points to freed private data, and no two contexts to the same:
\* no callback reads what another session's callback frees.
DataPrivate ==
  /\ \A s \in Session : priv[s] # NULL => heap[priv[s]] # Free
  /\ \A s, t \in Session : priv[s] = priv[t] /\ priv[s] # NULL => s = t

\* While the MTA has a mail open that is authenticated, the private data is that
\* mail's, or lacks what could not be stored: never that of an earlier mail, however
\* many of them were given up.  When it is not authenticated there is none, unless a
\* mail that was given up has left its own.
DataOfThisMail ==
  \A s \in Session : mail[s] # NoMail =>
    IF mail[s].acct = NoAccount THEN priv[s] # NULL => abandoned[s]
    ELSE priv[s] # NULL /\ heap[priv[s]] \in Recorded(mail[s])

\* Every object can still be reached and freed: none is left over by an
\* earlier mail.  Whoever clears priv must have freed the object.
NothingLeaked == \A d \in Id : heap[d] # Free => \E s \in Session : priv[s] = d

\* The mails the promise covers: all but those that are not authenticated and come
\* after one that was authenticated and given up.
Covers(m, given_up) == m = NoMail \/ m.acct # NoAccount \/ ~given_up
Covered == [s \in Session |-> IF Covers(mail[s], abandoned[s]) THEN mail[s] ELSE NoMail]
LastCovered ==
  IF delivered = NoMail \/ ~Covers(delivered.mail, delivered.abandoned) THEN NoMail
  ELSE [mail |-> delivered.mail, bcc |-> delivered.bcc]

\* An authenticated mail is delivered with all the members of its list but the
\* addresses of its account, as far as memory sufficed to collect them, and with
\* nobody else; other mails gain nobody.
Promise ==
  INSTANCE AliasExpansion WITH
    ListAnswers <- [x \in Sender |-> Returned(ListAnswers[x])],
    OwnAnswers <- [a \in Account |-> Returned(OwnAnswers[a])],
    mail <- Covered, delivered <- LastCovered
ImplementsExpansion == Promise!Spec

\* A mail that is not authenticated gains nobody (comment in mlfi_envfrom_cb).
UnauthenticatedUntouched ==
  delivered # NoMail /\ delivered.mail.acct = NoAccount => delivered.bcc = {}
=============================================================================
