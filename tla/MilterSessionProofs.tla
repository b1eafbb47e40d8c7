------------------------ MODULE MilterSessionProofs -------------------------
(***************************************************************************)
(* Proofs about the callbacks, for any number of connections, senders,     *)
(* accounts and directory answers.                                         *)
(***************************************************************************)
EXTENDS MilterSession, TLAPS

\* A callback runs on private data of its own, for a mail or for nobody.
Running ==
  \A s \in Session :
    /\ pc[s] # "idle" => priv[s] # NULL /\ (gone[s] \/ mail[s] # NoMail)
    /\ gone[s] => mail[s] = NoMail /\ pc[s] # "idle"

\* Data belongs to an authenticated mail, open or hung up on, or is left from one
\* that was given up.
Settled ==
  \A s \in Session :
    /\ priv[s] # NULL =>
         gone[s] \/ abandoned[s] \/ (mail[s] # NoMail /\ mail[s].acct # NoAccount)
    /\ MayAbort \/ ~abandoned[s]

Attributed == DataOfThisMail /\ Settled

\* What has been added and what is still to be added make up an expansion of
\* the mail.
MakesUp(m, added, todo) ==
  \E E \in Promise!Expansions(m) :
    added \cup todo \subseteq E /\ (AddMayFail \/ added \cup todo = E)

\* The callback works for an authenticated mail the MTA still waits for.
Expanding(s) == ~gone[s] /\ mail[s].acct # NoAccount

Progressed ==
  \A s \in Session :
    /\ pc[s] # "add" => bcc[s] = {}
    /\ pc[s] = "own" /\ Expanding(s) => list[s] \in Returned(ListAnswers[mail[s].sender])
    /\ pc[s] = "add" /\ Expanding(s) => MakesUp(mail[s], bcc[s], list[s])

MemInv == TypeOK /\ DataPrivate /\ Running

-----------------------------------------------------------------------------

\* What a search may return consists of members.
LEMMA AnswersAreMembers ==
  \A x \in Sender : \A L \in Returned(ListAnswers[x]) : L \subseteq Members
<1> SUFFICES ASSUME NEW x \in Sender, NEW L \in Returned(ListAnswers[x]) PROVE L \subseteq Members
  OBVIOUS
<1>1. PICK B \in ListAnswers[x] : L \subseteq B
  <2>1. CASE L \in ListAnswers[x]
    BY <2>1
  <2>2. CASE L \in UNION {{B \ {b} : b \in B} : B \in ListAnswers[x]}
    BY <2>2
  <2> QED
    BY <2>1, <2>2 DEF Returned
<1>2. B \subseteq Members
  BY <1>1 DEF Members
<1> QED
  BY <1>1, <1>2

\* Whatever memory there is, a search may return something.
LEMMA SomethingReturned == \A S : S # {} => Returned(S) # {}
BY DEF Returned

\* Whatever could not be stored, private data holds a sender and an account of
\* the mail or NULL.
LEMMA RecordedIsData ==
  ASSUME NEW m \in Mail, m.acct \in Account, NEW r \in Recorded(m)
  PROVE  /\ r \in PrivData
         /\ r.sender # NULL => r.sender = m.sender
         /\ r.acct # NULL => r.acct = m.acct
<1>1. CASE AllocMayFail
  BY <1>1 DEF Recorded, PrivData, Mail
<1>2. CASE ~AllocMayFail
  <2>1. r = m
    BY <1>2 DEF Recorded
  <2> QED
    BY <2>1 DEF PrivData, Mail
<1> QED
  BY <1>1, <1>2

\* Memory is in order initially.
LEMMA InitMemInv == Init => MemInv
<1> SUFFICES ASSUME Init PROVE MemInv
  OBVIOUS
<1>1. TypeOK
  BY DEF Init, NoSession, TypeOK
<1>2. DataPrivate /\ Running
  BY DEF Init, NoSession, DataPrivate, Running
<1> QED
  BY <1>1, <1>2 DEF MemInv

\* Every step keeps memory in order.
LEMMA NextMemInv == MemInv /\ [Next]_vars => MemInv'
<1> SUFFICES ASSUME MemInv, [Next]_vars PROVE MemInv'
  OBVIOUS
<1> USE DEF MemInv
<1>0. /\ NoAccount \notin Account /\ NoMail \notin Mail
      /\ NULL \notin Id /\ Free \notin PrivData
  BY AccountsAssumption, NullsAssumption
<1>1. ASSUME NEW s \in Session, Authenticate(s) PROVE MemInv'
  BY <1>1 DEF Authenticate, Between, TypeOK, DataPrivate, Running
<1>2. ASSUME NEW s \in Session, Lapse(s) PROVE MemInv'
  BY <1>2 DEF Lapse, Between, TypeOK, DataPrivate, Running
<1>3. ASSUME NEW s \in Session, Abort(s) PROVE MemInv'
  BY <1>3 DEF Abort, TypeOK, DataPrivate, Running
<1>4. ASSUME NEW s \in Session, Close(s) PROVE MemInv'
  BY <1>4 DEF Close, TypeOK, DataPrivate, Running
<1>5. ASSUME NEW s \in Session, HangUp(s) PROVE MemInv'
  BY <1>5 DEF HangUp, TypeOK, DataPrivate, Running
<1>6. ASSUME NEW s \in Session, NEW x \in Sender, EnvfromUnauthenticated(s, x)
      PROVE  MemInv'
  <2> DEFINE m == [sender |-> x, acct |-> NoAccount]
  <2>1. m \in Mail /\ m # NoMail
    BY <1>0 DEF Mail
  <2>2. mail' = [mail EXCEPT ![s] = m]
    BY <1>6 DEF EnvfromUnauthenticated
  <2> HIDE DEF m
  <2>3. /\ pc[s] = "idle" /\ mail[s] = NoMail
        /\ UNCHANGED <<alive, login, gone, abandoned, priv, heap, pc, list, bcc, delivered>>
    BY <1>6 DEF EnvfromUnauthenticated, Between
  <2>4. gone[s] = FALSE
    BY <1>6, <2>3 DEF Running, TypeOK
  <2> QED
    BY <2>1, <2>2, <2>3, <2>4 DEF TypeOK, DataPrivate, Running
<1>7. ASSUME NEW s \in Session, NEW x \in Sender, EnvfromAuthenticated(s, x)
      PROVE  MemInv'
  <2> DEFINE m == [sender |-> x, acct |-> login[s]]
  <2>1. m \in Mail /\ m.acct \in Account /\ m # NoMail
    BY <1>0, <1>7 DEF Mail, TypeOK, EnvfromAuthenticated
  <2>2. PICK d \in Id, r \in Recorded(m) : /\ heap[d] = Free
                                         /\ mail' = [mail EXCEPT ![s] = m]
                                         /\ heap' = [heap EXCEPT ![d] = r]
                                         /\ priv' = [priv EXCEPT ![s] = d]
    BY <1>7 DEF EnvfromAuthenticated
  <2> HIDE DEF m
  <2>r. r \in PrivData /\ r # Free
    BY <1>0, <2>1, <2>2, RecordedIsData
  <2>3. /\ pc[s] = "idle" /\ mail[s] = NoMail
        /\ abandoned' = [abandoned EXCEPT ![s] = FALSE]
        /\ UNCHANGED <<alive, login, gone, pc, list, bcc, delivered>>
    BY <1>7 DEF EnvfromAuthenticated, Between
  <2>4. gone[s] = FALSE
    BY <1>7, <2>3 DEF Running, TypeOK
  <2>5. TypeOK'
    BY <2>1, <2>2, <2>3, <2>r DEF TypeOK
  <2>6. \A t \in Session : priv[t] # d
    BY <1>0, <2>2 DEF DataPrivate
  <2>7. DataPrivate'
    BY <1>0, <2>2, <2>6, <2>r DEF DataPrivate, TypeOK
  <2>8. Running'
    BY <1>0, <2>1, <2>2, <2>3, <2>4 DEF Running, TypeOK
  <2> QED
    BY <2>5, <2>7, <2>8
<1>8. ASSUME NEW s \in Session, EomPass(s) PROVE MemInv'
  BY <1>8 DEF EomPass, Eom, Deliver, Delivery, TypeOK, DataPrivate, Running
<1>9. ASSUME NEW s \in Session, EomSearch(s) PROVE MemInv'
  BY <1>9 DEF EomSearch, Eom, external, TypeOK, DataPrivate, Running
<1>10. ASSUME NEW s \in Session, ListAnswered(s) PROVE MemInv'
  <2>1. PICK L \in Returned(ListAnswers[heap[priv[s]].sender]) :
          /\ list' = [list EXCEPT ![s] = L]
          /\ pc' = [pc EXCEPT ![s] = IF L = {} THEN "add" ELSE "own"]
    BY <1>10 DEF ListAnswered
  <2>2. /\ pc[s] = "list" /\ heap[priv[s]].sender # NULL
        /\ UNCHANGED <<alive, priv, heap, login, mail, gone, abandoned, bcc, delivered>>
    BY <1>10 DEF ListAnswered, external
  <2>3. heap[priv[s]] \in PrivData
    BY <2>2 DEF Running, TypeOK, DataPrivate
  <2>4. L \subseteq Members
    <3>1. heap[priv[s]].sender \in Sender
      BY <2>2, <2>3 DEF PrivData
    <3> QED
      BY <3>1, AnswersAreMembers
  <2> QED
    BY <2>1, <2>2, <2>4 DEF TypeOK, DataPrivate, Running
<1>11. ASSUME NEW s \in Session, OwnAnswered(s) PROVE MemInv'
  BY <1>11 DEF OwnAnswered, external, TypeOK, DataPrivate, Running
<1>12. ASSUME NEW s \in Session, Fatal(s) PROVE MemInv'
  <2>1. Crash
    BY <1>12 DEF Fatal, EnvfromNoMemory, SearchFailed
  <2> QED
    BY <2>1 DEF Crash, TypeOK, DataPrivate, Running
<1>13. ASSUME NEW s \in Session, AddRecipient(s) PROVE MemInv'
  BY <1>13 DEF AddRecipient, TypeOK, DataPrivate, Running
<1>14. ASSUME NEW s \in Session, EomAnswered(s) PROVE MemInv'
  BY <1>0, <1>14 DEF EomAnswered, Deliver, Delivery, Finished, Release, TypeOK, DataPrivate, Running
<1>15. ASSUME NEW s \in Session, EomUnheard(s) PROVE MemInv'
  BY <1>0, <1>15 DEF EomUnheard, Finished, Release, TypeOK, DataPrivate, Running
<1>16. CASE UNCHANGED vars
  BY <1>16 DEF vars, external, TypeOK, DataPrivate, Running
<1> QED
  BY <1>1, <1>2, <1>3, <1>4, <1>5, <1>6, <1>7, <1>8, <1>9, <1>10, <1>11, <1>12,
     <1>13, <1>14, <1>15, <1>16 DEF Next, Connection, Callback

\* Memory is in order in every execution.
LEMMA MemInvAlways == Spec => []MemInv
BY InitMemInv, NextMemInv, PTL DEF Spec

\* The state has its type in every execution, whatever fails.
THEOREM TypeCorrect == Spec => []TypeOK
<1>1. MemInv => TypeOK
  BY DEF MemInv
<1> QED
  BY <1>1, MemInvAlways, PTL

\* However many callbacks interleave, none reads data another one frees.
THEOREM DataStaysPrivate == Spec => []DataPrivate
<1>1. MemInv => DataPrivate
  BY DEF MemInv
<1> QED
  BY <1>1, MemInvAlways, PTL

-----------------------------------------------------------------------------
(* The data is that of the current mail.                                   *)

\* Initially there is no mail and no data.
LEMMA InitAttributed == Init => Attributed
BY DEF Init, NoSession, Attributed, Settled, DataOfThisMail

\* Every step keeps the data that of the current mail, or of one given up before it.
LEMMA NextAttributed == MemInv /\ Attributed /\ [Next]_vars => Attributed'
<1> SUFFICES ASSUME MemInv, Attributed, [Next]_vars PROVE Attributed'
  OBVIOUS
<1> USE DEF MemInv, Attributed, Settled, DataOfThisMail
<1>0. /\ NoAccount \notin Account /\ NoMail \notin Mail
      /\ NULL \notin Id /\ Free \notin PrivData
  BY AccountsAssumption, NullsAssumption
<1>1. ASSUME NEW s \in Session, Authenticate(s) \/ Lapse(s) \/ EomSearch(s) PROVE Attributed'
  BY <1>1 DEF Authenticate, Lapse, EomSearch, external, Recorded
<1>2. ASSUME NEW s \in Session, ListAnswered(s) \/ OwnAnswered(s) \/ AddRecipient(s)
      PROVE  Attributed'
  BY <1>2 DEF ListAnswered, OwnAnswered, AddRecipient, external, Recorded
<1>3. ASSUME NEW s \in Session, Abort(s) PROVE Attributed'
  BY <1>3 DEF Abort, TypeOK, Running, Recorded
<1>4. ASSUME NEW s \in Session, Close(s) PROVE Attributed'
  BY <1>4 DEF Close, TypeOK, Recorded
<1>5. ASSUME NEW s \in Session, HangUp(s) PROVE Attributed'
  BY <1>5 DEF HangUp, TypeOK, Recorded
<1>6. ASSUME NEW s \in Session, NEW x \in Sender, EnvfromUnauthenticated(s, x)
      PROVE  Attributed'
  <2>1. /\ mail[s] = NoMail /\ gone[s] = FALSE
        /\ mail' = [mail EXCEPT ![s] = [sender |-> x, acct |-> NoAccount]]
        /\ UNCHANGED <<gone, abandoned, priv, heap>>
    BY <1>6 DEF EnvfromUnauthenticated, Between, Running, TypeOK
  <2>2. priv[s] # NULL => abandoned[s]
    BY <2>1
  <2> QED
    BY <1>0, <2>1, <2>2 DEF TypeOK, Recorded
<1>7. ASSUME NEW s \in Session, NEW x \in Sender, EnvfromAuthenticated(s, x)
      PROVE  Attributed'
  <2> DEFINE m == [sender |-> x, acct |-> login[s]]
  <2>1. m.acct # NoAccount /\ m # NoMail
    BY <1>0, <1>7 DEF EnvfromAuthenticated, Mail, TypeOK
  <2>2. PICK d \in Id, r \in Recorded(m) : /\ heap[d] = Free
                                         /\ mail' = [mail EXCEPT ![s] = m]
                                         /\ heap' = [heap EXCEPT ![d] = r]
                                         /\ priv' = [priv EXCEPT ![s] = d]
    BY <1>7 DEF EnvfromAuthenticated
  <2> HIDE DEF m
  <2>3. UNCHANGED gone /\ abandoned' = [abandoned EXCEPT ![s] = FALSE]
    BY <1>7 DEF EnvfromAuthenticated
  <2>4. \A t \in Session : priv[t] # NULL => priv[t] # d /\ priv[t] \in Id
    BY <1>0, <2>2 DEF DataPrivate, TypeOK
  <2>5. Settled'
    BY <2>1, <2>2, <2>3 DEF TypeOK
  <2>6. DataOfThisMail'
    <3> SUFFICES ASSUME NEW t \in Session, mail'[t] # NoMail
                 PROVE  IF mail'[t].acct = NoAccount THEN priv'[t] # NULL => abandoned'[t]
                        ELSE priv'[t] # NULL /\ heap'[priv'[t]] \in Recorded(mail'[t])
      BY DEF Recorded
    <3>1. CASE t = s
      BY <1>0, <2>1, <2>2, <3>1 DEF TypeOK
    <3>2. CASE t # s
      BY <1>0, <2>2, <2>3, <2>4, <3>2 DEF TypeOK
    <3> QED
      BY <3>1, <3>2
  <2> QED
    BY <2>5, <2>6
<1>8. ASSUME NEW s \in Session, EomPass(s) PROVE Attributed'
  BY <1>8 DEF EomPass, Eom, Deliver, TypeOK, Recorded
<1>12. ASSUME NEW s \in Session, Fatal(s) PROVE Attributed'
  BY <1>12 DEF Fatal, EnvfromNoMemory, SearchFailed, Crash
<1>14. ASSUME NEW s \in Session, Finished(s), mail'[s] = NoMail, abandoned'[s] = FALSE,
              \A t \in Session \ {s} : /\ mail'[t] = mail[t] /\ gone'[t] = gone[t]
                                       /\ abandoned'[t] = abandoned[t]
       PROVE  Attributed'
  <2>1. /\ priv[s] # NULL /\ priv[s] \in Id
        /\ heap' = [heap EXCEPT ![priv[s]] = Free] /\ priv' = [priv EXCEPT ![s] = NULL]
    BY <1>14 DEF Finished, Release, Running, TypeOK
  <2>2. priv'[s] = NULL
    BY <2>1 DEF TypeOK
  <2>3. ASSUME NEW t \in Session \ {s}
        PROVE  /\ priv'[t] = priv[t]
               /\ priv[t] # NULL => heap'[priv[t]] = heap[priv[t]]
    BY <2>1 DEF TypeOK, DataPrivate
  <2>4. DataOfThisMail'
    <3> SUFFICES ASSUME NEW t \in Session, mail'[t] # NoMail
                 PROVE  IF mail'[t].acct = NoAccount THEN priv'[t] # NULL => abandoned'[t]
                        ELSE priv'[t] # NULL /\ heap'[priv'[t]] \in Recorded(mail'[t])
      BY DEF Recorded
    <3>1. t \in Session \ {s} /\ mail'[t] = mail[t] /\ abandoned'[t] = abandoned[t]
      BY <1>14
    <3>2. priv'[t] = priv[t] /\ (priv[t] # NULL => heap'[priv[t]] = heap[priv[t]])
      BY <2>3, <3>1
    <3> QED BY <3>1, <3>2
  <2>5. Settled'
    BY <1>14, <2>2, <2>3
  <2> QED BY <2>4, <2>5
<1>15. ASSUME NEW s \in Session, EomAnswered(s) PROVE Attributed'
  <2>1. /\ mail'[s] = NoMail /\ abandoned'[s] = FALSE
        /\ \A t \in Session \ {s} : /\ mail'[t] = mail[t] /\ gone'[t] = gone[t]
                                     /\ abandoned'[t] = abandoned[t]
    BY <1>15 DEF EomAnswered, Deliver, TypeOK
  <2> QED
    BY <1>14, <1>15, <2>1 DEF EomAnswered
<1>16. ASSUME NEW s \in Session, EomUnheard(s) PROVE Attributed'
  <2>1. /\ mail'[s] = NoMail /\ abandoned'[s] = FALSE
        /\ \A t \in Session \ {s} : /\ mail'[t] = mail[t] /\ gone'[t] = gone[t]
                                     /\ abandoned'[t] = abandoned[t]
    BY <1>16 DEF EomUnheard, TypeOK, Running
  <2> QED
    BY <1>14, <1>16, <2>1 DEF EomUnheard
<1>17. CASE UNCHANGED vars
  BY <1>17 DEF vars, external, Recorded
<1> QED
  BY <1>1, <1>2, <1>3, <1>4, <1>5, <1>6, <1>7, <1>8, <1>12, <1>15, <1>16, <1>17
  DEF Next, Connection, Callback

\* An authenticated mail is never processed with the data of another, and one that
\* is not authenticated only with that of a mail given up before it, however many
\* connections interleave, give up mails and lose their authentication.
THEOREM DataIsOfThisMail == Spec => []DataOfThisMail
<1>1. Attributed => DataOfThisMail
  BY DEF Attributed
<1> QED
  BY <1>1, InitAttributed, NextAttributed, MemInvAlways, PTL DEF Spec

\* When no mail is given up, every step leaves every object within reach.
LEMMA NextNothingLeaked ==
  ASSUME ~MayAbort
  PROVE  MemInv /\ Attributed /\ NothingLeaked /\ [Next]_vars => NothingLeaked'
<1> SUFFICES ASSUME MemInv, Attributed, NothingLeaked, [Next]_vars PROVE NothingLeaked'
  OBVIOUS
<1> USE DEF MemInv, NothingLeaked
<1>0. NULL \notin Id
  BY NullsAssumption
<1>1. ASSUME NEW s \in Session, Close(s) PROVE NothingLeaked'
  <2>1. priv[s] = NULL /\ UNCHANGED heap /\ priv' = [priv EXCEPT ![s] = NULL]
    BY <1>1 DEF Close, Attributed, Settled, Running
  <2> QED
    BY <1>0, <2>1 DEF TypeOK
<1>2. ASSUME NEW s \in Session, NEW x \in Sender, EnvfromAuthenticated(s, x)
      PROVE  NothingLeaked'
  <2>1. priv[s] = NULL
    BY <1>2 DEF EnvfromAuthenticated, Between, Attributed, Settled, Running
  <2>2. PICK d \in Id : /\ \E r : heap' = [heap EXCEPT ![d] = r]
                        /\ priv' = [priv EXCEPT ![s] = d]
    BY <1>2 DEF EnvfromAuthenticated
  <2> QED
    BY <1>0, <2>1, <2>2 DEF TypeOK
<1>3. ASSUME NEW s \in Session, Fatal(s) PROVE NothingLeaked'
  BY <1>3 DEF Fatal, EnvfromNoMemory, SearchFailed, Crash
<1>4. ASSUME NEW s \in Session, EomAnswered(s) \/ EomUnheard(s) PROVE NothingLeaked'
  <2>1. /\ heap' = [heap EXCEPT ![priv[s]] = Free] /\ priv' = [priv EXCEPT ![s] = NULL]
    BY <1>4 DEF EomAnswered, EomUnheard, Finished, Release
  <2>2. ASSUME NEW d \in Id, heap'[d] # Free PROVE \E t \in Session : priv'[t] = d
    <3>1. d # priv[s] /\ heap[d] # Free
      BY <2>1, <2>2 DEF TypeOK
    <3> QED
      BY <2>1, <3>1 DEF TypeOK
  <2> QED
    BY <2>2
<1>5. ASSUME UNCHANGED <<heap, priv>> PROVE NothingLeaked'
  BY <1>5
<1> QED
  BY <1>1, <1>2, <1>3, <1>4, <1>5
  DEF Next, Connection, Callback, Authenticate, Lapse, Abort, HangUp,
      EnvfromUnauthenticated, EomPass, EomSearch, ListAnswered, OwnAnswered,
      AddRecipient, vars, external

\* Unless a client gives up a mail before its end, no private data is leaked,
\* whatever else fails.
THEOREM NoDataLeaked == ASSUME ~MayAbort PROVE Spec => []NothingLeaked
<1>1. Init => NothingLeaked
  BY DEF Init, NoSession, NothingLeaked
<1> QED
  BY <1>1, InitAttributed, NextAttributed, NextNothingLeaked, MemInvAlways, PTL DEF Spec

-----------------------------------------------------------------------------
(* The callbacks keep the promise of AliasExpansion.                       *)

\* The difference of two answers is an expansion, of which nothing is added yet.
LEMMA DifferenceExpands ==
  ASSUME NEW m, m.acct \in Account, m.sender \in Sender,
         NEW L \in Returned(ListAnswers[m.sender]), NEW O \in Returned(OwnAnswers[m.acct])
  PROVE  MakesUp(m, {}, L \ O)
<1>1. L \ O \in Promise!Expansions(m)
  BY AccountsAssumption DEF Promise!Expansions
<1>2. {} \cup (L \ O) = L \ O
  OBVIOUS
<1>3. \E E \in Promise!Expansions(m) :
        {} \cup (L \ O) \subseteq E /\ (AddMayFail \/ {} \cup (L \ O) = E)
  BY <1>1, <1>2
<1> QED
  BY <1>3 DEF MakesUp

\* A step of one session leaves the progress of the others alone.
LEMMA ProgressLocal ==
  ASSUME Progressed, NEW s \in Session,
         \A t \in Session \ {s} :
           /\ pc'[t] = pc[t] /\ list'[t] = list[t] /\ bcc'[t] = bcc[t]
           /\ gone'[t] = gone[t]
           /\ pc[t] # "idle" => mail'[t] = mail[t],
         pc'[s] # "add" => bcc'[s] = {},
         pc'[s] = "own" /\ Expanding(s)' => list'[s] \in Returned(ListAnswers[mail'[s].sender]),
         pc'[s] = "add" /\ Expanding(s)' => MakesUp(mail'[s], bcc'[s], list'[s])
  PROVE  Progressed'
<1> SUFFICES ASSUME NEW t \in Session
             PROVE  /\ pc'[t] # "add" => bcc'[t] = {}
                    /\ pc'[t] = "own" /\ Expanding(t)' =>
                         list'[t] \in Returned(ListAnswers[mail'[t].sender])
                    /\ pc'[t] = "add" /\ Expanding(t)' => MakesUp(mail'[t], bcc'[t], list'[t])
  BY DEF Progressed, MakesUp, Returned
<1>1. CASE t = s
  BY <1>1
<1>2. CASE t # s
  <2>1. /\ pc'[t] = pc[t] /\ list'[t] = list[t] /\ bcc'[t] = bcc[t]
        /\ gone'[t] = gone[t]
        /\ pc[t] # "idle" => mail'[t] = mail[t]
    BY <1>2
  <2> QED
    BY <2>1 DEF Progressed, Expanding
<1> QED
  BY <1>1, <1>2

\* Initially nothing has been added.
LEMMA InitProgressed == Init => Progressed
BY DEF Init, NoSession, Progressed

\* Every step keeps what has been added in line with the mail it works on.
LEMMA NextProgressed == MemInv /\ Attributed /\ Progressed /\ [Next]_vars => Progressed'
<1> SUFFICES ASSUME MemInv, Attributed, Progressed, [Next]_vars PROVE Progressed'
  OBVIOUS
<1>0. ASSUME NEW t \in Session, pc[t] # "idle", Expanding(t)
      PROVE  /\ mail[t].acct \in Account /\ mail[t].sender \in Sender
             /\ heap[priv[t]].sender # NULL => heap[priv[t]].sender = mail[t].sender
             /\ heap[priv[t]].acct # NULL => heap[priv[t]].acct = mail[t].acct
  <2>1. mail[t] \in Mail /\ mail[t] # NoMail /\ mail[t].acct # NoAccount
    BY <1>0 DEF MemInv, TypeOK, Running, Expanding
  <2>2. heap[priv[t]] \in Recorded(mail[t])
    BY <2>1 DEF Attributed, DataOfThisMail
  <2>3. mail[t].acct \in Account /\ mail[t].sender \in Sender
    BY <2>1 DEF Mail
  <2> QED
    BY <2>1, <2>2, <2>3, RecordedIsData
<1>t. /\ pc \in [Session -> {"idle", "list", "own", "add"}]
      /\ gone \in [Session -> BOOLEAN] /\ mail \in [Session -> Mail \cup {NoMail}]
      /\ list \in [Session -> SUBSET Members] /\ bcc \in [Session -> SUBSET Members]
  BY DEF MemInv, TypeOK
<1>p. \A s \in Session :
        /\ pc[s] # "add" => bcc[s] = {}
        /\ pc[s] = "own" /\ Expanding(s) => list[s] \in Returned(ListAnswers[mail[s].sender])
        /\ pc[s] = "add" /\ Expanding(s) => MakesUp(mail[s], bcc[s], list[s])
  BY DEF Progressed
<1>1. ASSUME NEW s \in Session, UNCHANGED <<pc, list, bcc>>, pc[s] = "idle" \/ gone'[s],
             \A t \in Session \ {s} : gone'[t] = gone[t] /\ mail'[t] = mail[t]
      PROVE  Progressed'
  <2>1. pc'[s] # "idle" => ~Expanding(s)'
    BY <1>1 DEF Expanding
  <2> QED
    BY <1>1, <1>p, <2>1, ProgressLocal
<1>2. ASSUME NEW s \in Session,
             Authenticate(s) \/ Lapse(s) \/ Abort(s) \/ Close(s) \/ HangUp(s) \/ EomPass(s)
               \/ \E x \in Sender : EnvfromUnauthenticated(s, x) \/ EnvfromAuthenticated(s, x)
      PROVE  Progressed'
  <2>1. /\ UNCHANGED <<pc, list, bcc>>
        /\ \/ pc[s] = "idle" /\ UNCHANGED gone /\ \E m : mail' = [mail EXCEPT ![s] = m]
           \/ pc[s] = "idle" /\ UNCHANGED <<gone, mail>>
           \/ gone' = [gone EXCEPT ![s] = TRUE] /\ mail' = [mail EXCEPT ![s] = NoMail]
    BY <1>2
    DEF Authenticate, Lapse, Abort, Close, HangUp, EomPass, Eom, Deliver, Between,
        EnvfromUnauthenticated, EnvfromAuthenticated
  <2>2. \A t \in Session \ {s} : gone'[t] = gone[t] /\ mail'[t] = mail[t]
    BY <1>t, <2>1
  <2>3. pc[s] = "idle" \/ gone'[s]
    BY <1>t, <2>1
  <2>4. UNCHANGED <<pc, list, bcc>>
    BY <2>1
  <2> QED
    BY <1>1, <2>2, <2>3, <2>4
<1>5. ASSUME NEW s \in Session, EomSearch(s) PROVE Progressed'
  <2>1. /\ pc[s] = "idle" /\ pc' = [pc EXCEPT ![s] = "list"]
        /\ UNCHANGED <<mail, list, bcc, gone>>
    BY <1>5 DEF EomSearch, Eom, external
  <2> QED
    BY <2>1, <1>t, <1>p, ProgressLocal
<1>6. ASSUME NEW s \in Session, ListAnswered(s) PROVE Progressed'
  <2>1. PICK L \in Returned(ListAnswers[heap[priv[s]].sender]) :
          /\ list' = [list EXCEPT ![s] = L]
          /\ pc' = [pc EXCEPT ![s] = IF L = {} THEN "add" ELSE "own"]
    BY <1>6 DEF ListAnswered
  <2>2. /\ pc[s] = "list" /\ UNCHANGED <<mail, bcc, gone>> /\ bcc[s] = {}
        /\ heap[priv[s]].sender # NULL
    BY <1>6, <1>p DEF ListAnswered, external
  <2>3. Expanding(s) => L \in Returned(ListAnswers[mail[s].sender])
    BY <1>0, <2>1, <2>2
  <2>4. ASSUME L = {}, Expanding(s) PROVE MakesUp(mail[s], {}, {})
    <3>1. mail[s].acct \in Account /\ mail[s].sender \in Sender
      BY <1>0, <2>2, <2>4
    <3>2. PICK O \in Returned(OwnAnswers[mail[s].acct]) : TRUE
      BY <3>1, AnswersAssumption, SomethingReturned
    <3>3. {} = L \ O
      BY <2>4
    <3> QED
      BY <2>3, <2>4, <3>1, <3>3, DifferenceExpands
  <2>5. list'[s] = L /\ pc'[s] = IF L = {} THEN "add" ELSE "own"
    BY <2>1, <1>t
  <2>6. \A t \in Session \ {s} : pc'[t] = pc[t] /\ list'[t] = list[t]
    BY <2>1, <1>t
  <2>7. Expanding(s)' <=> Expanding(s)
    BY <2>2 DEF Expanding
  <2> QED
    BY <2>2, <2>3, <2>4, <2>5, <2>6, <2>7, ProgressLocal
<1>7. ASSUME NEW s \in Session, OwnAnswered(s) PROVE Progressed'
  <2>1. PICK O \in Returned(OwnAnswers[heap[priv[s]].acct]) : list' = [list EXCEPT ![s] = @ \ O]
    BY <1>7 DEF OwnAnswered
  <2>2. /\ pc[s] = "own" /\ pc' = [pc EXCEPT ![s] = "add"]
        /\ UNCHANGED <<mail, bcc, gone>> /\ heap[priv[s]].acct # NULL /\ bcc[s] = {}
        /\ Expanding(s) => list[s] \in Returned(ListAnswers[mail[s].sender])
    BY <1>7, <1>p DEF OwnAnswered, external
  <2>3. Expanding(s) => MakesUp(mail[s], {}, list[s] \ O)
    <3>1. Expanding(s) => /\ mail[s].acct \in Account /\ mail[s].sender \in Sender
                          /\ O \in Returned(OwnAnswers[mail[s].acct])
      BY <1>0, <2>1, <2>2
    <3> QED
      BY <2>2, <3>1, DifferenceExpands
  <2>4. list'[s] = list[s] \ O /\ pc'[s] = "add" /\ (Expanding(s)' <=> Expanding(s))
    BY <2>1, <2>2, <1>t DEF Expanding
  <2>5. \A t \in Session \ {s} : pc'[t] = pc[t] /\ list'[t] = list[t]
    BY <2>1, <2>2, <1>t
  <2> QED
    BY <2>2, <2>3, <2>4, <2>5, ProgressLocal
<1>8. ASSUME NEW s \in Session, Fatal(s) PROVE Progressed'
  BY <1>8 DEF Fatal, EnvfromNoMemory, SearchFailed, Crash, Progressed
<1>9. ASSUME NEW s \in Session, AddRecipient(s) PROVE Progressed'
  <2>1. PICK a \in list[s] :
          /\ list' = [list EXCEPT ![s] = @ \ {a}]
          /\ \/ ~gone[s] /\ bcc' = [bcc EXCEPT ![s] = @ \cup {a}]
             \/ (gone[s] \/ AddMayFail) /\ UNCHANGED bcc
    BY <1>9 DEF AddRecipient
  <2>2. pc[s] = "add" /\ UNCHANGED <<mail, pc, gone>>
    BY <1>9 DEF AddRecipient
  <2>3. \A t \in Session \ {s} : list'[t] = list[t] /\ bcc'[t] = bcc[t]
    BY <2>1, <1>t
  <2>4. /\ bcc'[s] \cup list'[s] \subseteq bcc[s] \cup list[s]
        /\ gone[s] \/ AddMayFail \/ bcc'[s] \cup list'[s] = bcc[s] \cup list[s]
    BY <2>1, <1>t
  <2>5. Expanding(s) => MakesUp(mail[s], bcc'[s], list'[s])
    <3> SUFFICES ASSUME Expanding(s) PROVE MakesUp(mail[s], bcc'[s], list'[s])
      OBVIOUS
    <3>1. PICK E \in Promise!Expansions(mail[s]) :
            /\ bcc[s] \cup list[s] \subseteq E
            /\ AddMayFail \/ bcc[s] \cup list[s] = E
      BY <1>p, <2>2 DEF MakesUp
    <3>2. /\ bcc'[s] \cup list'[s] \subseteq E
          /\ AddMayFail \/ bcc'[s] \cup list'[s] = E
      BY <2>4, <3>1 DEF Expanding
    <3> QED
      BY <3>2 DEF MakesUp
  <2>6. Expanding(s)' <=> Expanding(s)
    BY <2>2 DEF Expanding
  <2> QED
    BY <2>2, <2>3, <2>5, <2>6, ProgressLocal
<1>10. ASSUME NEW s \in Session, Finished(s),
              \A t \in Session \ {s} : gone'[t] = gone[t] /\ mail'[t] = mail[t]
       PROVE  Progressed'
  <2>1. /\ pc' = [pc EXCEPT ![s] = "idle"] /\ bcc' = [bcc EXCEPT ![s] = {}]
        /\ list' = list
    BY <1>10 DEF Finished
  <2>2. pc'[s] = "idle" /\ bcc'[s] = {}
    BY <2>1, <1>t
  <2>3. \A t \in Session \ {s} : pc'[t] = pc[t] /\ bcc'[t] = bcc[t]
    BY <1>t, <2>1
  <2> QED
    BY <1>10, <2>1, <2>2, <2>3, ProgressLocal
<1>11. ASSUME NEW s \in Session, EomAnswered(s) PROVE Progressed'
  BY <1>10, <1>11, <1>t DEF EomAnswered, Deliver
<1>12. ASSUME NEW s \in Session, EomUnheard(s) PROVE Progressed'
  BY <1>10, <1>12, <1>t DEF EomUnheard
<1>13. CASE UNCHANGED vars
  <2>1. UNCHANGED <<pc, list, bcc, mail, gone>>
    BY <1>13 DEF vars, external
  <2> SUFFICES ASSUME NEW t \in Session
               PROVE  /\ pc'[t] # "add" => bcc'[t] = {}
                      /\ pc'[t] = "own" /\ Expanding(t)' =>
                           list'[t] \in Returned(ListAnswers[mail'[t].sender])
                      /\ pc'[t] = "add" /\ Expanding(t)' => MakesUp(mail'[t], bcc'[t], list'[t])
    BY DEF Progressed, MakesUp, Returned
  <2> QED
    BY <2>1 DEF Progressed, Expanding
<1> QED
  BY <1>2, <1>5, <1>6, <1>7, <1>8, <1>9, <1>11, <1>12, <1>13
  DEF Next, Connection, Callback

\* How what the promise sees of one connection changes.
LEMMA CoveredChanges ==
  ASSUME MemInv, NEW s \in Session, NEW m, NEW b,
         mail' = [mail EXCEPT ![s] = m], abandoned' = [abandoned EXCEPT ![s] = b]
  PROVE  Covered' = [Covered EXCEPT ![s] = IF Covers(m, b) THEN m ELSE NoMail]
<1> DEFINE C(t) == IF Covers(mail[t], abandoned[t]) THEN mail[t] ELSE NoMail
           D(t) == IF Covers(mail'[t], abandoned'[t]) THEN mail'[t] ELSE NoMail
           v == IF Covers(m, b) THEN m ELSE NoMail
<1>1. D(s) = v /\ \A t \in Session \ {s} : D(t) = C(t)
  BY DEF MemInv, TypeOK
<1>2. Covered = [t \in Session |-> C(t)] /\ Covered' = [t \in Session |-> D(t)]
  BY DEF Covered, Covers
<1> HIDE DEF C, D, v
<1>3. Covered' = [Covered EXCEPT ![s] = v]
  BY <1>1, <1>2
<1> QED
  BY <1>3 DEF v

\* What it sees of the last delivery.
LEMMA LastCoveredIs ==
  ASSUME NEW m \in Mail, NEW B \in SUBSET Members, NEW g \in BOOLEAN,
         delivered' = [mail |-> m, bcc |-> B, abandoned |-> g]
  PROVE  LastCovered' = IF Covers(m, g) THEN [mail |-> m, bcc |-> B] ELSE NoMail
<1>1. delivered' # NoMail
  BY NullsAssumption DEF Delivery
<1> QED
  BY <1>1 DEF LastCovered, Covers

\* Delivering a mail keeps the promise when the mail is not covered or gained what
\* was promised.
LEMMA DeliverPromised ==
  ASSUME MemInv, NEW s \in Session, NEW B \in SUBSET Members, Deliver(s, B), mail[s] # NoMail,
         Covers(mail[s], abandoned[s]) => B \in Promise!Promised(mail[s])
  PROVE  Promise!Next
<1>0. mail[s] \in Mail /\ abandoned[s] \in BOOLEAN
  BY DEF MemInv, TypeOK
<1>1. Covered' = [Covered EXCEPT ![s] = NoMail]
  BY CoveredChanges DEF Deliver, Covers
<1>2. LastCovered' = IF Covers(mail[s], abandoned[s]) THEN [mail |-> mail[s], bcc |-> B] ELSE NoMail
  BY <1>0, LastCoveredIs DEF Deliver
<1>3. Covered[s] = IF Covers(mail[s], abandoned[s]) THEN mail[s] ELSE NoMail
  BY DEF Covered
<1>4. CASE Covers(mail[s], abandoned[s])
  <2>1. Promise!Deliver(s)
    BY <1>1, <1>2, <1>3, <1>4 DEF Promise!Deliver
  <2> QED
    BY <2>1 DEF Promise!Next
<1>5. CASE ~Covers(mail[s], abandoned[s])
  <2>1. Covered' = Covered
    BY <1>1, <1>3, <1>5 DEF Covered
  <2> QED
    BY <1>2, <1>5, <2>1 DEF Promise!Next, Promise!Uncovered
<1> QED
  BY <1>4, <1>5

\* Every step is a step of the promise or leaves what it speaks of alone.
LEMMA NextPromise ==
  MemInv /\ Attributed /\ Progressed /\ [Next]_vars => [Promise!Next]_(Promise!vars)
<1> SUFFICES ASSUME MemInv, Attributed, Progressed, [Next]_vars
             PROVE  [Promise!Next]_(Promise!vars)
  OBVIOUS
<1>0. /\ abandoned \in [Session -> BOOLEAN]
      /\ \A s \in Session : abandoned = [abandoned EXCEPT ![s] = abandoned[s]]
  BY DEF MemInv, TypeOK
<1>l. UNCHANGED delivered => LastCovered' = LastCovered
  BY DEF LastCovered, Covers
<1>1. ASSUME NEW s \in Session, NEW x \in Sender,
             EnvfromUnauthenticated(s, x) \/ EnvfromAuthenticated(s, x)
      PROVE  Promise!Next \/ UNCHANGED Promise!vars
  <2>1. mail[s] = NoMail /\ UNCHANGED delivered /\ login[s] \in Account \cup {NoAccount}
    BY <1>1 DEF EnvfromUnauthenticated, EnvfromAuthenticated, Between, MemInv, TypeOK
  <2>2. PICK a \in Account \cup {NoAccount}, b \in BOOLEAN :
          /\ mail' = [mail EXCEPT ![s] = [sender |-> x, acct |-> a]]
          /\ abandoned' = [abandoned EXCEPT ![s] = b]
    BY <1>0, <1>1, <2>1 DEF EnvfromUnauthenticated, EnvfromAuthenticated
  <2> DEFINE m == [sender |-> x, acct |-> a]
  <2>3. m \in Promise!Mail
    BY DEF Promise!Mail
  <2>4. Covered' = [Covered EXCEPT ![s] = IF Covers(m, b) THEN m ELSE NoMail]
    BY <2>2, CoveredChanges
  <2> HIDE DEF m
  <2>5. Covered[s] = NoMail
    BY <2>1 DEF Covered
  <2>6. CASE Covers(m, b)
    <3>1. Promise!Begin(s)
      BY <1>l, <2>1, <2>3, <2>4, <2>5, <2>6 DEF Promise!Begin
    <3> QED
      BY <3>1 DEF Promise!Next
  <2>7. CASE ~Covers(m, b)
    <3>1. Covered' = Covered
      BY <2>4, <2>5, <2>7 DEF Covered
    <3> QED
      BY <1>l, <2>1, <3>1 DEF Promise!vars
  <2> QED
    BY <2>6, <2>7
<1>2. ASSUME NEW s \in Session, Abort(s) \/ Close(s) \/ HangUp(s)
      PROVE  Promise!Next
  <2>1. /\ mail' = [mail EXCEPT ![s] = NoMail] /\ UNCHANGED delivered
        /\ \E b : abandoned' = [abandoned EXCEPT ![s] = b]
    BY <1>0, <1>2 DEF Abort, Close, HangUp
  <2>2. Covered' = [Covered EXCEPT ![s] = NoMail]
    BY <2>1, CoveredChanges DEF Covers
  <2>3. Promise!Drop(s)
    BY <1>l, <2>1, <2>2 DEF Promise!Drop
  <2> QED
    BY <2>3 DEF Promise!Next
<1>3. ASSUME NEW s \in Session, EomPass(s) PROVE Promise!Next
  <2>1. mail[s].acct = NoAccount /\ mail[s] # NoMail
    BY <1>3 DEF EomPass, Eom, Attributed, DataOfThisMail
  <2>2. {} \in Promise!Promised(mail[s])
    BY <2>1 DEF Promise!Promised, Promise!Expansions
  <2>3. {} \in SUBSET Members /\ Deliver(s, {})
    BY <1>3 DEF EomPass
  <2> QED
    BY <2>1, <2>2, <2>3, DeliverPromised
<1>4. ASSUME NEW s \in Session, EomAnswered(s) PROVE Promise!Next
  <2>1. /\ pc[s] = "add" /\ list[s] = {} /\ ~gone[s] /\ priv[s] # NULL /\ mail[s] # NoMail
        /\ Deliver(s, bcc[s])
    BY <1>4 DEF EomAnswered, Finished, MemInv, Running
  <2>2. bcc[s] \in SUBSET Members
    BY DEF MemInv, TypeOK
  <2>3. ASSUME Covers(mail[s], abandoned[s]) PROVE bcc[s] \in Promise!Promised(mail[s])
    <3>0. Expanding(s)
      BY <2>1, <2>3 DEF Covers, Expanding, Attributed, DataOfThisMail
    <3>1. MakesUp(mail[s], bcc[s], {})
      BY <2>1, <3>0 DEF Progressed
    <3>2. PICK E \in Promise!Expansions(mail[s]) :
            bcc[s] \cup {} \subseteq E /\ (AddMayFail \/ bcc[s] \cup {} = E)
      BY <3>1 DEF MakesUp
    <3>3. bcc[s] \cup {} = bcc[s]
      OBVIOUS
    <3> QED
      BY <3>2, <3>3 DEF Promise!Promised
  <2> QED
    BY <2>1, <2>2, <2>3, DeliverPromised
<1>5. ASSUME NEW s \in Session, Fatal(s) PROVE Promise!Next
  <2>1. Crash
    BY <1>5 DEF Fatal, EnvfromNoMemory, SearchFailed
  <2>2. Covered' = [t \in Session |-> NoMail]
    BY <2>1 DEF Crash, Covered
  <2> QED
    BY <1>l, <2>1, <2>2 DEF Crash, Promise!Next, Promise!Crash
<1>6. ASSUME UNCHANGED <<mail, abandoned, delivered>> PROVE UNCHANGED Promise!vars
  BY <1>6, <1>l DEF Covered, Covers, Promise!vars
<1>7. ASSUME NEW s \in Session, EomUnheard(s) PROVE UNCHANGED Promise!vars
  <2>1. /\ mail[s] = NoMail /\ UNCHANGED delivered
        /\ mail' = [mail EXCEPT ![s] = NoMail]
        /\ abandoned' = [abandoned EXCEPT ![s] = FALSE]
    BY <1>7 DEF EomUnheard, MemInv, TypeOK, Running
  <2>2. Covered' = [Covered EXCEPT ![s] = NoMail] /\ Covered[s] = NoMail
    BY <2>1, CoveredChanges DEF Covers, Covered
  <2>3. Covered' = Covered
    BY <2>2 DEF Covered
  <2> QED
    BY <1>l, <2>1, <2>3 DEF Promise!vars
<1>8. ASSUME NEW s \in Session,
             Authenticate(s) \/ Lapse(s) \/ EomSearch(s) \/ ListAnswered(s)
               \/ OwnAnswered(s) \/ AddRecipient(s)
      PROVE  UNCHANGED Promise!vars
  <2>1. UNCHANGED <<mail, abandoned, delivered>>
    BY <1>8 DEF Authenticate, Lapse, EomSearch, ListAnswered, OwnAnswered, AddRecipient, external
  <2> QED
    BY <1>6, <2>1
<1>9. CASE UNCHANGED vars
  BY <1>6, <1>9 DEF vars, external
<1> QED
  BY <1>1, <1>2, <1>3, <1>4, <1>5, <1>7, <1>8, <1>9 DEF Next, Connection, Callback

\* The callbacks implement the promise of AliasExpansion, for every directory and
\* any number of sessions that give up mails, hang up and lose their authentication,
\* and even if memory runs out.
THEOREM KeepsPromise == Spec => ImplementsExpansion
<1>1. Init => Promise!Init
  BY DEF Init, NoSession, Promise!Init, Covered, LastCovered
<1> QED
  BY <1>1, NextPromise, MemInvAlways, InitAttributed, NextAttributed,
     InitProgressed, NextProgressed, PTL
  DEF Spec, ImplementsExpansion, Promise!Spec
=============================================================================
