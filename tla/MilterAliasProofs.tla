-------------------------- MODULE MilterAliasProofs -------------------------
(***************************************************************************)
(* Proofs about Lifecycle and MilterAlias, for any number of processes,    *)
(* failures, connections and mails.  Of main alone: its types, what the    *)
(* service manager hears, and what the PID file says.  Of the program:     *)
(* no callback searches without a directory connection, every mail gains   *)
(* what was promised, and no private data is left behind.                  *)
(***************************************************************************)
EXTENDS MilterAlias, TLAPS

\* A step of the specification is one of these.
Steps(p) ==
  \/ Start(p) \/ Succeed(p) \/ SmfiMainFails(p) \/ Stop(p) \/ Fail(p)

USE DEF Gone

-----------------------------------------------------------------------------
(* Types.                                                                  *)

LEMMA InitTypeOK == Init => TypeOK
<1> SUFFICES ASSUME Init PROVE TypeOK
  OBVIOUS
<1>1. told \in [Proc -> Seq(Notes)]
  BY DEF Init
<1> QED BY <1>1, BoundsAssumption DEF Init, TypeOK, Places, Codes

\* What telling does to the history.
LEMMA TellType ==
  ASSUME TypeOK, NEW p \in Proc, NEW n \in Notes, Tell(p, n)
  PROVE  told' \in [Proc -> Seq(Notes)]
<1>1. Append(told[p], n) \in Seq(Notes)
  BY DEF TypeOK
<1> QED BY <1>1 DEF Tell, TypeOK

\* Calls that only move on.
LEMMA MoveType ==
  ASSUME TypeOK, NEW p \in Proc, Start(p) \/ Refuse(p) \/ Fork(p) \/ ForkFails(p) \/ Detach(p)
                                 \/ SetupSmfi(p) \/ ConnectLdap(p) \/ Serve(p) \/ Stop(p)
                                 \/ DisconnectLdap(p) \/ CleanupSmfi(p) \/ CleanupDaemon(p)
                                 \/ CreatePidFile(p) \/ Kill(p)
  PROVE  TypeOK'
<1> USE BoundsAssumption DEF TypeOK, Goto, NoFault, Fault, config, files, Places, Codes
<1>1. CASE Start(p)
  <2>1. told' \in [Proc -> Seq(Notes)]
    BY <1>1 DEF Start, Renewed
  <2> QED BY <1>1, <2>1 DEF Start, Renewed
<1>2. CASE Refuse(p)       BY <1>2 DEF Refuse
<1>3. CASE Fork(p)         BY <1>3 DEF Fork
<1>4. CASE ForkFails(p)    BY <1>4 DEF ForkFails
<1>5. CASE Detach(p)       BY <1>5 DEF Detach
<1>6. CASE SetupSmfi(p)    BY <1>6 DEF SetupSmfi
<1>7. CASE ConnectLdap(p)  BY <1>7 DEF ConnectLdap
<1>8. CASE Serve(p)        BY <1>8 DEF Serve
<1>9. CASE Stop(p)         BY <1>9 DEF Stop
<1>10. CASE DisconnectLdap(p)  BY <1>10 DEF DisconnectLdap
<1>11. CASE CleanupSmfi(p)     BY <1>11 DEF CleanupSmfi
<1>12. CASE CleanupDaemon(p)   BY <1>12 DEF CleanupDaemon
<1>13. CASE CreatePidFile(p)   BY <1>13 DEF CreatePidFile
<1>14. CASE Kill(p)            BY <1>14 DEF Kill, Die
<1> QED BY <1>1, <1>2, <1>3, <1>4, <1>5, <1>6, <1>7, <1>8, <1>9, <1>10, <1>11, <1>12, <1>13, <1>14

\* The two ways in which a failure is told of.
LEMMA ReturnType ==
  ASSUME TypeOK, NEW p \in Proc, NEW c \in Codes, ReturnFailure(p, c)
  PROVE  /\ told' \in [Proc -> Seq(Notes)]
         /\ code' \in [Proc -> Codes]
         /\ pc' \in [Proc -> Places]
<1>1. Note("failed", c) \in Notes
  BY DEF Note, Notes
<1>2. told' \in [Proc -> Seq(Notes)]
  BY <1>1, TellType DEF ReturnFailure
<1> QED BY <1>2 DEF ReturnFailure, Goto, TypeOK, Places

LEMMA GoOnType ==
  ASSUME TypeOK, NEW p \in Proc, NEW c \in Codes, NEW there \in Places,
         GoOnAfterFailure(p, c, there)
  PROVE  /\ told' \in [Proc -> Seq(Notes)]
         /\ code' \in [Proc -> Codes]
         /\ pc' \in [Proc -> Places]
<1>1. Note("failed", c) \in Notes
  BY DEF Note, Notes
<1>2. told' \in [Proc -> Seq(Notes)]
  BY <1>1, TellType DEF GoOnAfterFailure
<1> QED BY <1>2 DEF GoOnAfterFailure, Goto, TypeOK

LEMMA FailType ==
  ASSUME TypeOK, NEW p \in Proc,
         DetachFails(p) \/ CreatePidFileFails(p) \/ SetupSmfiFails(p) \/ ConnectLdapFails(p)
         \/ SmfiMainFails(p) \/ DisconnectLdapFails(p) \/ CleanupSmfiFails(p)
         \/ CleanupDaemonFails(p)
  PROVE  TypeOK'
<1>0. /\ {"EX_OSERR", "-1", "EX_UNAVAILABLE", "EX_SOFTWARE", "EX_IOERR"} \subseteq Codes
      /\ {"disconnect_ldap", "cleanup_smfi", "cleanup_daemon", "terminate"} \subseteq Places
  BY DEF Codes, Places
<1>1. CASE DetachFails(p)
  <2>1. ReturnFailure(p, "EX_OSERR")  BY <1>1 DEF DetachFails
  <2> QED BY <1>0, <1>1, <2>1, ReturnType, BoundsAssumption DEF DetachFails, TypeOK, Fault, config, files
<1>2. CASE CreatePidFileFails(p)
  <2>1. ReturnFailure(p, "EX_OSERR")  BY <1>2 DEF CreatePidFileFails
  <2> QED BY <1>0, <1>2, <2>1, ReturnType, BoundsAssumption DEF CreatePidFileFails, TypeOK, Fault, config
<1>3. CASE SetupSmfiFails(p)
  <2>1. PICK c \in {"-1", "EX_UNAVAILABLE"} : ReturnFailure(p, c)  BY <1>3 DEF SetupSmfiFails
  <2> QED BY <1>0, <1>3, <2>1, ReturnType, BoundsAssumption DEF SetupSmfiFails, TypeOK, Fault, config, files
<1>4. CASE ConnectLdapFails(p)
  <2>1. PICK c \in {"EX_SOFTWARE", "EX_IOERR"} : ReturnFailure(p, c)  BY <1>4 DEF ConnectLdapFails
  <2> QED BY <1>0, <1>4, <2>1, ReturnType, BoundsAssumption DEF ConnectLdapFails, TypeOK, Fault, config, files
<1>5. CASE SmfiMainFails(p)
  <2>1. GoOnAfterFailure(p, "EX_SOFTWARE", "disconnect_ldap")  BY <1>5 DEF SmfiMainFails
  <2> QED BY <1>0, <1>5, <2>1, GoOnType, BoundsAssumption DEF SmfiMainFails, TypeOK, Fault, NoFault, config, files
<1>6. CASE DisconnectLdapFails(p)
  <2>1. GoOnAfterFailure(p, "EX_IOERR", "cleanup_smfi")  BY <1>6 DEF DisconnectLdapFails
  <2> QED BY <1>0, <1>6, <2>1, GoOnType, BoundsAssumption DEF DisconnectLdapFails, TypeOK, Fault, config, files
<1>7. CASE CleanupSmfiFails(p)
  <2>1. GoOnAfterFailure(p, "EX_SOFTWARE", "cleanup_daemon")  BY <1>7 DEF CleanupSmfiFails
  <2> QED BY <1>0, <1>7, <2>1, GoOnType, BoundsAssumption DEF CleanupSmfiFails, TypeOK, Fault, config, files
<1>8. CASE CleanupDaemonFails(p)
  <2>1. GoOnAfterFailure(p, "EX_SOFTWARE", "terminate")  BY <1>8 DEF CleanupDaemonFails
  <2> QED BY <1>0, <1>8, <2>1, GoOnType, BoundsAssumption DEF CleanupDaemonFails, TypeOK, Fault, config, files
<1> QED BY <1>1, <1>2, <1>3, <1>4, <1>5, <1>6, <1>7, <1>8

LEMMA NextTypeOK == TypeOK /\ [Next]_vars => TypeOK'
<1> SUFFICES ASSUME TypeOK, [Next]_vars PROVE TypeOK'
  OBVIOUS
<1>1. CASE UNCHANGED vars
  BY <1>1 DEF TypeOK, vars, config, files
<1>2. CASE Next
  <2>1. PICK p \in Proc : Steps(p)
    BY <1>2 DEF Next, Steps
  <2>2. CASE OpenLog(p)
    <3>1. Note("ready", "EX_OK") \in Notes  BY DEF Note, Notes, Codes
    <3>2. told' \in [Proc -> Seq(Notes)]  BY <2>2, <3>1, TellType DEF OpenLog
    <3> QED BY <2>2, <3>2 DEF OpenLog, TypeOK, Goto, NoFault, config, files, Places
  <2>3. CASE Terminate(p)
    <3>1. Note("terminated", "EX_OK") \in Notes  BY DEF Note, Notes, Codes
    <3>2. told' \in [Proc -> Seq(Notes)]  BY <2>3, <3>1, TellType DEF Terminate
    <3> QED BY <2>3, <3>2 DEF Terminate, TypeOK, Goto, NoFault, config, files, Places
  <2> QED BY <2>1, <2>2, <2>3, MoveType, FailType DEF Steps, Succeed, Fail
<1> QED BY <1>1, <1>2

\* Type correctness, for any number of processes and failures.
THEOREM TypeCorrect == Spec => []TypeOK
BY InitTypeOK, NextTypeOK, PTL DEF Spec

-----------------------------------------------------------------------------
(* What the service manager hears.                                         *)

Early == {"none", "configure", "detach", "create_pid_file", "open_log"}
Middle == {"setup_smfi", "connect_ldap", "smfi_main", "serving"}
Late == {"disconnect_ldap", "cleanup_smfi", "cleanup_daemon", "terminate"}

What(p, i) == told[p][i].what
Last(p) == told[p][Len(told[p])]

\* Only a daemon in mode "systemd" tells anything: nothing before it is ready, at
\* least that afterwards.
Speaks(p) ==
  /\ told[p] # <<>> => mode = "systemd" /\ daemonized[p]
  /\ pc[p] \in Early => told[p] = <<>>
  /\ pc[p] \in Middle => Len(told[p]) <= 1
  /\ pc[p] \in Middle \cup Late \cup {"exited"} /\ mode = "systemd" /\ daemonized[p]
       => told[p] # <<>>
  /\ pc[p] \in {"none", "configure"} => ~daemonized[p]

\* "ready" comes first, "terminated" last and just before the end.
Ordered(p) ==
  \A i \in 1..Len(told[p]) :
    /\ What(p, i) = "ready" => i = 1
    /\ What(p, i) = "terminated" => i = Len(told[p]) /\ pc[p] = "exited"

\* The last word and the exit status.
Status(p) ==
  /\ pc[p] = "terminate" /\ told[p] # <<>> /\ code[p] # "EX_OK" => Last(p) = Note("failed", code[p])
  /\ pc[p] = "exited" /\ told[p] # <<>> =>
       \/ Last(p) = Note("failed", code[p]) /\ code[p] # "EX_OK"
       \/ /\ What(p, Len(told[p])) = "terminated"
          /\ code[p] # "EX_OK" => /\ Len(told[p]) >= 2
                                  /\ told[p][Len(told[p]) - 1] = Note("failed", code[p])

\* Nobody but the process itself can name it in a file, and only at one place.
Clean(p) ==
  /\ pidFile = p => pidPath
  /\ Len(told[p]) = 1 /\ pc[p] \in Late => asked[p]
  /\ Len(told[p]) = 1 /\ pc[p] \in {"cleanup_daemon", "terminate"} => socketFile # p
  /\ Len(told[p]) = 1 /\ pc[p] = "terminate" => pidFile # p /\ code[p] = "EX_OK"
  /\ pc[p] = "exited" /\ Len(told[p]) = 2 /\ What(p, 2) = "terminated" =>
       asked[p] /\ code[p] = "EX_OK" /\ pidFile # p /\ socketFile # p

Told(p) == Speaks(p) /\ Ordered(p) /\ Status(p) /\ Clean(p)
IInv == \A p \in Proc : Told(p)

\* What an instance told is forgotten when another one starts.
Forgotten(q) ==
  ~Runs(q) /\ pc'[q] = "none" /\ ~daemonized'[q] /\ told'[q] = <<>>

\* A step of one process leaves the others alone, but for the files it takes away
\* from them and for those that have ended.
Apart(p) ==
  /\ UNCHANGED config
  /\ \A q \in Proc \ {p} :
       /\ \/ /\ pc'[q] = pc[q] /\ daemonized'[q] = daemonized[q] /\ told'[q] = told[q]
             /\ code'[q] = code[q] /\ asked'[q] = asked[q]
          \/ Forgotten(q)
       /\ pidFile' = q => pidFile = q
       /\ socketFile' = q => socketFile = q

LEMMA StepsApart ==
  ASSUME TypeOK, NEW p \in Proc, Steps(p)
  PROVE  Apart(p)
<1> USE ProcAssumption DEF TypeOK, Apart, Goto, NoFault, Fault, config, files, Tell
<1>1. CASE Start(p)        BY <1>1 DEF Start, Renewed, Forgotten
<1>2. CASE Refuse(p)       BY <1>2 DEF Refuse
<1>3. CASE Fork(p)         BY <1>3 DEF Fork
<1>4. CASE ForkFails(p)    BY <1>4 DEF ForkFails
<1>5. CASE Detach(p)       BY <1>5 DEF Detach
<1>6. CASE SetupSmfi(p)    BY <1>6 DEF SetupSmfi
<1>7. CASE ConnectLdap(p)  BY <1>7 DEF ConnectLdap
<1>8. CASE Serve(p)        BY <1>8 DEF Serve
<1>9. CASE Stop(p)         BY <1>9 DEF Stop
<1>10. CASE DisconnectLdap(p)  BY <1>10 DEF DisconnectLdap
<1>11. CASE CleanupSmfi(p)     BY <1>11 DEF CleanupSmfi
<1>12. CASE CleanupDaemon(p)   BY <1>12 DEF CleanupDaemon
<1>13. CASE CreatePidFile(p)   BY <1>13 DEF CreatePidFile
<1>14. CASE Kill(p)            BY <1>14 DEF Kill, Die
<1>15. CASE OpenLog(p)         BY <1>15 DEF OpenLog
<1>16. CASE Terminate(p)       BY <1>16 DEF Terminate
<1>17. CASE DetachFails(p)        BY <1>17 DEF DetachFails, ReturnFailure
<1>18. CASE CreatePidFileFails(p) BY <1>18 DEF CreatePidFileFails, ReturnFailure
<1>19. CASE SetupSmfiFails(p)     BY <1>19 DEF SetupSmfiFails, ReturnFailure
<1>20. CASE ConnectLdapFails(p)   BY <1>20 DEF ConnectLdapFails, ReturnFailure
<1>21. CASE SmfiMainFails(p)      BY <1>21 DEF SmfiMainFails, GoOnAfterFailure
<1>22. CASE DisconnectLdapFails(p) BY <1>22 DEF DisconnectLdapFails, GoOnAfterFailure
<1>23. CASE CleanupSmfiFails(p)   BY <1>23 DEF CleanupSmfiFails, GoOnAfterFailure
<1>24. CASE CleanupDaemonFails(p) BY <1>24 DEF CleanupDaemonFails, GoOnAfterFailure
<1> QED BY <1>1, <1>2, <1>3, <1>4, <1>5, <1>6, <1>7, <1>8, <1>9, <1>10, <1>11, <1>12, <1>13,
           <1>14, <1>15, <1>16, <1>17, <1>18, <1>19, <1>20, <1>21, <1>22, <1>23, <1>24
        DEF Steps, Succeed, Fail

LEMMA ApartTold ==
  ASSUME TypeOK, NEW p \in Proc, NEW q \in Proc \ {p}, Apart(p), Told(q)
  PROVE  Told(q)'
<1> USE DEF Apart, Told, config
<1>1. CASE Forgotten(q)
  <2>1. /\ pc'[q] = "none" /\ told'[q] = <<>> /\ Len(told'[q]) = 0 /\ ~daemonized'[q]
        /\ pidFile' = q => pidPath'
    BY <1>1 DEF Forgotten, Clean
  <2>2. Speaks(q)' /\ Ordered(q)'
    BY <2>1 DEF Speaks, Ordered, Early, Middle, Late
  <2>3. Status(q)' /\ Clean(q)'
    BY <2>1 DEF Status, Clean, Late
  <2> QED BY <2>2, <2>3
<1>2. CASE ~Forgotten(q)
  <2>1. Speaks(q)'   BY <1>2 DEF Speaks
  <2>2. Ordered(q)'  BY <1>2 DEF Ordered, What
  <2>3. Status(q)'   BY <1>2 DEF Status, What, Last
  <2>4. Clean(q)'    BY <1>2 DEF Clean, What
  <2> QED BY <2>1, <2>2, <2>3, <2>4
<1> QED BY <1>1, <1>2

\* What telling adds.
Adds(p, n) ==
  /\ Len(told'[p]) = Len(told[p]) + 1
  /\ told'[p][Len(told[p]) + 1] = n
  /\ \A i \in 1..Len(told[p]) : told'[p][i] = told[p][i]

LEMMA TellAdds ==
  ASSUME TypeOK, NEW p \in Proc, NEW n \in Notes, Tell(p, n)
  PROVE  IF daemonized[p] /\ mode = "systemd" THEN Adds(p, n) ELSE told'[p] = told[p]
<1>1. told[p] \in Seq(Notes)
  BY DEF TypeOK
<1>2. CASE daemonized[p] /\ mode = "systemd"
  <2>1. told'[p] = Append(told[p], n)
    BY <1>2 DEF Tell, TypeOK
  <2> QED BY <1>1, <1>2, <2>1 DEF Adds
<1>3. CASE ~(daemonized[p] /\ mode = "systemd")
  BY <1>3 DEF Tell, TypeOK
<1> QED BY <1>2, <1>3

\* Calls that tell nothing and do not return.
LEMMA SilentTold ==
  ASSUME TypeOK, NEW p \in Proc, Told(p),
         Start(p) \/ Fork(p) \/ Detach(p) \/ CreatePidFile(p) \/ SetupSmfi(p) \/ ConnectLdap(p)
         \/ Serve(p) \/ Stop(p) \/ DisconnectLdap(p) \/ CleanupSmfi(p) \/ CleanupDaemon(p)
         \/ Refuse(p) \/ ForkFails(p) \/ Kill(p)
  PROVE  Told(p)'
<1>0. told[p] \in Seq(Notes) /\ Len(told[p]) \in Nat /\ (told[p] = <<>> <=> Len(told[p]) = 0)
  BY DEF TypeOK
<1> USE <1>0, ProcAssumption
    DEF TypeOK, Goto, At, Runs, NoFault, Fault, config, files, Told, Speaks, Ordered, Status,
        Clean, What, Last, Early, Middle, Late
<1>1. CASE Start(p)        BY <1>1 DEF Start, Renewed
<1>2. CASE Fork(p)         BY <1>2 DEF Fork
<1>3. CASE Detach(p)       BY <1>3 DEF Detach
<1>4. CASE CreatePidFile(p)  BY <1>4 DEF CreatePidFile
<1>5. CASE SetupSmfi(p)    BY <1>5 DEF SetupSmfi
<1>6. CASE ConnectLdap(p)  BY <1>6 DEF ConnectLdap
<1>7. CASE Serve(p)        BY <1>7 DEF Serve
<1>8. CASE Stop(p)         BY <1>8 DEF Stop
<1>9. CASE DisconnectLdap(p)  BY <1>9 DEF DisconnectLdap
<1>10. CASE CleanupSmfi(p)    BY <1>10 DEF CleanupSmfi
<1>11. CASE CleanupDaemon(p)
  <2>1. told' = told /\ pc'[p] = "terminate" /\ code'[p] = "EX_OK" /\ pc[p] = "cleanup_daemon"
    BY <1>11 DEF CleanupDaemon
  <2>2. Len(told[p]) = 1 => pidFile' # p
    BY <1>11 DEF CleanupDaemon
  <2>3. Speaks(p)' /\ Ordered(p)' /\ Status(p)'
    BY <1>11, <2>1 DEF CleanupDaemon
  <2>4. Clean(p)'
    BY <1>11, <2>1, <2>2 DEF CleanupDaemon
  <2> QED BY <2>3, <2>4
<1>12. CASE Refuse(p)      BY <1>12 DEF Refuse
<1>13. CASE ForkFails(p)   BY <1>13 DEF ForkFails
<1>14. CASE Kill(p)        BY <1>14 DEF Kill, Die
<1> QED BY <1>1, <1>2, <1>3, <1>4, <1>5, <1>6, <1>7, <1>8, <1>9, <1>10, <1>11, <1>12, <1>13, <1>14

\* Calls that tell.  What they add is the last word, and all before it was there.
LEMMA ReadyTold ==
  ASSUME TypeOK, NEW p \in Proc, Told(p), OpenLog(p)
  PROVE  Told(p)'
<1> DEFINE n == Note("ready", "EX_OK")
<1>1. n \in Notes /\ n.what = "ready"
  BY DEF Note, Notes, Codes
<1>2. IF daemonized[p] /\ mode = "systemd" THEN Adds(p, n) ELSE told'[p] = told[p]
  BY <1>1, TellAdds DEF OpenLog
<1>3. /\ told[p] = <<>> /\ Len(told[p]) = 0
      /\ pc[p] = "open_log" /\ pc'[p] = "setup_smfi"
      /\ mode' = mode /\ pidPath' = pidPath /\ daemonized' = daemonized /\ pidFile' = pidFile
  BY DEF OpenLog, Told, Speaks, Early, At, Goto, TypeOK, config, files
<1>4. told'[p] \in Seq(Notes) /\ (told'[p] = <<>> <=> Len(told'[p]) = 0)
  BY NextTypeOK DEF Next, Succeed, TypeOK
<1>5. IF daemonized[p] /\ mode = "systemd" THEN Len(told'[p]) = 1 /\ told'[p][1] = n
                                          ELSE told'[p] = <<>>
  BY <1>2, <1>3 DEF Adds
<1>6. Speaks(p)'
  <2>1. CASE daemonized[p] /\ mode = "systemd"
    <3>1. Len(told'[p]) = 1 /\ told'[p] # <<>>
      BY <1>4, <1>5, <2>1
    <3> QED BY <1>3, <2>1, <3>1 DEF Speaks, Early
  <2>2. CASE ~(daemonized[p] /\ mode = "systemd")
    <3>1. Len(told'[p]) = 0 /\ told'[p] = <<>>
      BY <1>4, <1>5, <2>2
    <3> QED BY <1>3, <2>2, <3>1 DEF Speaks, Early
  <2> QED BY <2>1, <2>2
<1>7. Ordered(p)'
  BY <1>1, <1>3, <1>4, <1>5 DEF Ordered, What
<1>8. Status(p)' /\ Clean(p)'
  BY <1>3 DEF Told, Status, Clean, Late
<1> QED BY <1>6, <1>7, <1>8 DEF Told

LEMMA TerminatedTold ==
  ASSUME TypeOK, NEW p \in Proc, Told(p), Terminate(p)
  PROVE  Told(p)'
<1> DEFINE n == Note("terminated", "EX_OK")
<1>1. n \in Notes /\ n.what = "terminated"
  BY DEF Note, Notes, Codes
<1>2. IF daemonized[p] /\ mode = "systemd" THEN Adds(p, n) ELSE told'[p] = told[p]
  BY <1>1, TellAdds DEF Terminate
<1>3. /\ pc[p] = "terminate" /\ pc'[p] = "exited"
      /\ code' = code /\ asked' = asked /\ pidFile' = pidFile /\ socketFile' = socketFile
      /\ mode' = mode /\ pidPath' = pidPath /\ daemonized' = daemonized
  BY DEF Terminate, At, Goto, TypeOK, config, files
<1>4. /\ told'[p] \in Seq(Notes) /\ told[p] \in Seq(Notes)
      /\ Len(told[p]) \in Nat /\ (told[p] = <<>> <=> Len(told[p]) = 0)
  BY NextTypeOK DEF Next, Succeed, TypeOK
<1>5. CASE daemonized[p] /\ mode = "systemd"
  <2>1. Adds(p, n)
    BY <1>2, <1>5
  <2>2. Speaks(p)' /\ Ordered(p)'
    <3>1. Speaks(p)'
      BY <1>1, <1>3, <1>4, <1>5, <2>1 DEF Told, Speaks, What, Early, Middle, Late, Adds
    <3>2. Ordered(p)'
      BY <1>1, <1>3, <1>4, <1>5, <2>1 DEF Told, Ordered, What, Early, Middle, Late, Adds
    <3> QED BY <3>1, <3>2
  <2>3. Last(p)' = n /\ Len(told'[p]) >= 2 /\ told'[p][Len(told'[p]) - 1] = Last(p)
    BY <1>3, <1>4, <1>5, <2>1 DEF Told, Speaks, Last, Adds, Late
  <2>4. Status(p)'
    BY <1>1, <1>3, <1>4, <2>1, <2>3 DEF Told, Status, What, Last, Adds
  <2>5. Len(told'[p]) = 2 => Len(told[p]) = 1
    <3>1. Len(told'[p]) = Len(told[p]) + 1
      BY <2>1 DEF Adds
    <3>2. Len(told[p]) \in Nat
      BY <1>4
    <3>3. \A a \in Nat : a + 1 = 2 => a = 1
      OBVIOUS
    <3> QED BY <3>1, <3>2, <3>3
  <2>6. Len(told[p]) = 1 => asked[p] /\ code[p] = "EX_OK" /\ pidFile # p /\ socketFile # p
    BY <1>3 DEF Told, Clean, Late
  <2>7. pidFile = p => pidPath
    BY DEF Told, Clean
  <2>8. Clean(p)'
    BY <1>3, <2>5, <2>6, <2>7 DEF Clean, Late
  <2> QED BY <2>2, <2>4, <2>8 DEF Told
<1>6. CASE ~(daemonized[p] /\ mode = "systemd")
  <2>1. told'[p] = <<>> /\ told[p] = <<>>
    BY <1>2, <1>6 DEF Told, Speaks
  <2> QED BY <1>3, <1>6, <2>1
          DEF Told, Speaks, Ordered, Status, Clean, What, Early, Middle, Late
<1> QED BY <1>5, <1>6

\* Returning after a failure, from wherever the daemon has not announced its end.
LEMMA ReturnTold ==
  ASSUME TypeOK, TypeOK', NEW p \in Proc, Told(p), NEW c \in Codes \ {"EX_OK"},
         ReturnFailure(p, c), pc[p] \in Early \cup Middle, pc[p] \notin {"none", "configure"},
         UNCHANGED <<mode, pidPath, daemonized>>, pidFile' = p => pidPath
  PROVE  Told(p)'
<1> DEFINE n == Note("failed", c)
<1>1. n \in Notes /\ n.what = "failed" /\ n.code = c
  BY DEF Note, Notes
<1>2. IF daemonized[p] /\ mode = "systemd" THEN Adds(p, n) ELSE told'[p] = told[p]
  BY <1>1, TellAdds DEF ReturnFailure
<1>3. pc'[p] = "exited" /\ code'[p] = c
  BY DEF ReturnFailure, Goto, TypeOK
<1>4. /\ told'[p] \in Seq(Notes) /\ told[p] \in Seq(Notes)
      /\ Len(told[p]) \in Nat /\ (told[p] = <<>> <=> Len(told[p]) = 0)
  BY DEF TypeOK
<1>5. CASE daemonized[p] /\ mode = "systemd"
  <2>1. Adds(p, n)
    BY <1>2, <1>5
  <2>2. Speaks(p)' /\ Ordered(p)'
    <3>1. Speaks(p)'
      BY <1>1, <1>3, <1>4, <1>5, <2>1 DEF Told, Speaks, What, Early, Middle, Late, Adds
    <3>2. Ordered(p)'
      BY <1>1, <1>3, <1>4, <1>5, <2>1 DEF Told, Ordered, What, Early, Middle, Late, Adds
    <3> QED BY <3>1, <3>2
  <2>3. Last(p)' = n
    BY <1>4, <2>1 DEF Last, Adds
  <2>4. Status(p)'
    BY <1>1, <1>3, <2>3 DEF Status, Last
  <2>5. Clean(p)'
    BY <1>1, <1>3, <1>4, <2>1, <2>3 DEF Clean, What, Adds, Late, Last
  <2> QED BY <2>2, <2>4, <2>5 DEF Told
<1>6. CASE ~(daemonized[p] /\ mode = "systemd")
  <2>1. told'[p] = <<>> /\ told[p] = <<>>
    BY <1>2, <1>6 DEF Told, Speaks
  <2> QED BY <1>3, <1>6, <2>1
          DEF Told, Speaks, Ordered, Status, Clean, What, Early, Middle, Late
<1> QED BY <1>5, <1>6

\* Going on after a failure: from then on there are two words at least.
LEMMA GoOnTold ==
  ASSUME TypeOK, TypeOK', NEW p \in Proc, Told(p), NEW c \in Codes \ {"EX_OK"}, NEW there \in Late,
         GoOnAfterFailure(p, c, there), pc[p] \in Late \cup {"smfi_main", "serving"},
         UNCHANGED <<mode, pidPath, daemonized, asked, files>>
  PROVE  Told(p)'
<1> DEFINE n == Note("failed", c)
<1>1. n \in Notes /\ n.what = "failed" /\ n.code = c
  BY DEF Note, Notes
<1>2. IF daemonized[p] /\ mode = "systemd" THEN Adds(p, n) ELSE told'[p] = told[p]
  BY <1>1, TellAdds DEF GoOnAfterFailure
<1>3. pc'[p] = there /\ code'[p] = c
  BY DEF GoOnAfterFailure, Goto, TypeOK
<1>4. /\ told'[p] \in Seq(Notes) /\ told[p] \in Seq(Notes)
      /\ Len(told[p]) \in Nat /\ (told[p] = <<>> <=> Len(told[p]) = 0)
  BY DEF TypeOK
<1>5. CASE daemonized[p] /\ mode = "systemd"
  <2>1. Adds(p, n)
    BY <1>2, <1>5
  <2>2. Speaks(p)' /\ Ordered(p)'
    <3>1. Speaks(p)'
      BY <1>1, <1>3, <1>4, <1>5, <2>1 DEF Told, Speaks, What, Early, Middle, Late, Adds
    <3>2. Ordered(p)'
      <4> DEFINE L == Len(told[p])
      <4>1. ASSUME NEW i \in 1..L
            PROVE  /\ told'[p][i] = told[p][i]
                   /\ What(p, i) = "ready" => i = 1
                   /\ What(p, i) # "terminated"
        BY <2>1, <4>1 DEF Told, Ordered, Adds, Late
      <4>2. Len(told'[p]) = L + 1 /\ told'[p][L + 1].what = "failed"
        BY <1>1, <2>1 DEF Adds
      <4> HIDE DEF L, n
      <4>3. ASSUME NEW i \in 1..L+1
            PROVE  /\ told'[p][i].what = "ready" => i = 1
                   /\ told'[p][i].what # "terminated"
        <5>1. i \in 1..L \/ i = L + 1
          BY <1>4 DEF L
        <5> QED BY <4>1, <4>2, <5>1 DEF What
      <4> QED BY <4>2, <4>3 DEF Ordered, What
    <3> QED BY <3>1, <3>2
  <2>3. Last(p)' = n /\ Len(told'[p]) # 1
    BY <1>4, <1>5, <2>1 DEF Told, Speaks, Last, Adds, Middle, Late
  <2>4. Status(p)'
    BY <1>1, <1>3, <2>3 DEF Status, Last, Late
  <2>5. Clean(p)'
    BY <1>1, <1>3, <2>3 DEF Told, Clean, Late, files
  <2> QED BY <2>2, <2>4, <2>5 DEF Told
<1>6. CASE ~(daemonized[p] /\ mode = "systemd")
  <2>1. told'[p] = <<>> /\ told[p] = <<>>
    BY <1>2, <1>6 DEF Told, Speaks
  <2> QED BY <1>3, <1>6, <2>1
          DEF Told, Speaks, Ordered, Status, Clean, What, Early, Middle, Late, files
<1> QED BY <1>5, <1>6

LEMMA FailTold ==
  ASSUME TypeOK, TypeOK', NEW p \in Proc, Told(p),
         DetachFails(p) \/ CreatePidFileFails(p) \/ SetupSmfiFails(p) \/ ConnectLdapFails(p)
         \/ SmfiMainFails(p) \/ DisconnectLdapFails(p) \/ CleanupSmfiFails(p)
         \/ CleanupDaemonFails(p)
  PROVE  Told(p)'
<1>0. /\ {"EX_OSERR", "-1", "EX_UNAVAILABLE", "EX_SOFTWARE", "EX_IOERR"} \subseteq Codes \ {"EX_OK"}
      /\ {"disconnect_ldap", "cleanup_smfi", "cleanup_daemon", "terminate"} \subseteq Late
      /\ pidFile = p => pidPath
  BY DEF Codes, Late, Told, Clean
<1> USE DEF At, config, files, Early, Middle
<1>1. CASE DetachFails(p)
  BY <1>0, <1>1, ReturnTold DEF DetachFails
<1>2. CASE CreatePidFileFails(p)
  BY <1>0, <1>2, ReturnTold DEF CreatePidFileFails
<1>3. CASE SetupSmfiFails(p)
  BY <1>0, <1>3, ReturnTold DEF SetupSmfiFails
<1>4. CASE ConnectLdapFails(p)
  BY <1>0, <1>4, ReturnTold DEF ConnectLdapFails
<1>5. CASE SmfiMainFails(p)
  BY <1>0, <1>5, GoOnTold DEF SmfiMainFails
<1>6. CASE DisconnectLdapFails(p)
  BY <1>0, <1>6, GoOnTold DEF DisconnectLdapFails
<1>7. CASE CleanupSmfiFails(p)
  BY <1>0, <1>7, GoOnTold DEF CleanupSmfiFails
<1>8. CASE CleanupDaemonFails(p)
  BY <1>0, <1>8, GoOnTold DEF CleanupDaemonFails
<1> QED BY <1>1, <1>2, <1>3, <1>4, <1>5, <1>6, <1>7, <1>8

LEMMA InitIInv == Init => IInv
<1> SUFFICES ASSUME Init, NEW p \in Proc PROVE Told(p)
  BY DEF IInv
<1>1. /\ pc[p] = "none" /\ told[p] = <<>> /\ Len(told[p]) = 0 /\ ~daemonized[p]
      /\ pidFile # p
  BY ProcAssumption DEF Init
<1>2. Speaks(p) /\ Ordered(p)
  BY <1>1 DEF Speaks, Ordered, Middle, Late
<1>3. Status(p) /\ Clean(p)
  BY <1>1 DEF Status, Clean, Late
<1> QED BY <1>2, <1>3 DEF Told

LEMMA NextIInv == TypeOK /\ IInv /\ [Next]_vars => IInv'
<1> SUFFICES ASSUME TypeOK, IInv, [Next]_vars PROVE IInv'
  OBVIOUS
<1>0. TypeOK'
  BY NextTypeOK
<1>1. CASE UNCHANGED vars
  BY <1>1 DEF IInv, Told, Speaks, Ordered, Status, Clean, What, Last, vars, config, files
<1>2. CASE Next
  <2>1. PICK p \in Proc : Steps(p)
    BY <1>2 DEF Next, Steps
  <2>2. Told(p)'
    BY <1>0, <2>1, SilentTold, ReadyTold, TerminatedTold, FailTold DEF IInv, Steps, Succeed, Fail
  <2>3. ASSUME NEW q \in Proc \ {p} PROVE Told(q)'
    BY <2>1, StepsApart, ApartTold DEF IInv
  <2> QED BY <2>2, <2>3 DEF IInv
<1> QED BY <1>1, <1>2

LEMMA IInvAlways == Spec => [](TypeOK /\ IInv)
<1>1. Init => TypeOK /\ IInv
  BY InitTypeOK, InitIInv
<1>2. TypeOK /\ IInv /\ [Next]_vars => (TypeOK /\ IInv)'
  BY NextTypeOK, NextIInv
<1> QED BY <1>1, <1>2, PTL DEF Spec

\* Whatever fails, in any mode and for any number of instances, the service
\* manager hears "ready" first if at all, and "terminated" last.
THEOREM Notified == Spec => []NotificationsOrdered
<1>1. TypeOK /\ IInv => NotificationsOrdered
  <2> SUFFICES ASSUME TypeOK, IInv, NEW p \in Proc, NEW i \in DOMAIN told[p]
               PROVE  /\ told[p][i].what = "ready" => i = 1
                      /\ told[p][i].what = "terminated" => i = Len(told[p])
    BY DEF NotificationsOrdered
  <2>1. Ordered(p) /\ i \in 1..Len(told[p])
    BY DEF TypeOK, IInv, Told
  <2> QED BY <2>1 DEF Ordered, What
<1> QED BY <1>1, IInvAlways, PTL

\* No return from main of a daemon in mode "systemd" goes unannounced.
THEOREM EndAnnounced == Spec => []ExitAnnounced
<1>1. TypeOK /\ IInv => ExitAnnounced
  <2> SUFFICES ASSUME TypeOK, IInv, NEW p \in Proc,
                      pc[p] = "exited", mode = "systemd", daemonized[p]
               PROVE  told[p] # <<>> /\ told[p][Len(told[p])].what \in {"failed", "terminated"}
    BY DEF ExitAnnounced
  <2>1. Told(p) /\ told[p] # <<>>
    BY DEF IInv, Told, Speaks
  <2> QED BY <2>1 DEF Told, Status, Last, What, Note
<1> QED BY <1>1, IInvAlways, PTL

\* Whatever fails, an instance returns success only after "terminated", and a failure
\* only when it is the one it told of last.
THEOREM StatusTold == Spec => []FailureStatusTold
<1>1. TypeOK /\ IInv => FailureStatusTold
  <2> SUFFICES ASSUME TypeOK, IInv, NEW p \in Proc, pc[p] = "exited", told[p] # <<>>,
                      NEW n, n = Len(told[p])
               PROVE  IF code[p] = "EX_OK" THEN told[p][n].what = "terminated"
                      ELSE \/ told[p][n] = Note("failed", code[p])
                           \/ /\ told[p][n].what = "terminated"
                              /\ told[p][n-1] = Note("failed", code[p])
    BY DEF FailureStatusTold
  <2>1. Status(p)
    BY DEF IInv, Told
  <2> QED BY <2>1 DEF Status, Last, What, Note
<1> QED BY <1>1, IInvAlways, PTL

\* An instance that is ready and terminates without a word between had been asked
\* to, and leaves neither file behind.
THEOREM EndsClean == Spec => []CleanExit
<1>1. TypeOK /\ IInv => CleanExit
  BY DEF IInv, Told, Clean, What, CleanExit
<1> QED BY <1>1, IInvAlways, PTL

-----------------------------------------------------------------------------
(* The PID file of instances that are started one after the other.         *)

\* Where a daemon has written its PID file and not removed it yet.
Named == {"open_log", "setup_smfi", "connect_ldap", "smfi_main", "serving",
          "disconnect_ldap", "cleanup_smfi", "cleanup_daemon"}

Alone == \A p, q \in Proc : Runs(p) /\ Runs(q) => p = q
NamesDaemon(p) == daemonized[p] /\ pidPath /\ pc[p] \in Named => pidFile = p
FileInv == Alone /\ \A p \in Proc : NamesDaemon(p)

\* Only a process that runs, or the only one that is started, makes a step.
LEMMA StepsRunning ==
  ASSUME TypeOK, ~Overlap, NEW p \in Proc, Steps(p)
  PROVE  Runs(p) \/ \A q \in Proc : ~Runs(q)
<1> USE DEF Runs, At, TypeOK
<1>1. CASE Start(p)        BY <1>1 DEF Start, Renewed
<1>2. CASE Refuse(p)       BY <1>2 DEF Refuse
<1>3. CASE Fork(p)         BY <1>3 DEF Fork
<1>4. CASE ForkFails(p)    BY <1>4 DEF ForkFails
<1>5. CASE Detach(p)       BY <1>5 DEF Detach
<1>6. CASE SetupSmfi(p)    BY <1>6 DEF SetupSmfi
<1>7. CASE ConnectLdap(p)  BY <1>7 DEF ConnectLdap
<1>8. CASE Serve(p)        BY <1>8 DEF Serve
<1>9. CASE Stop(p)         BY <1>9 DEF Stop
<1>10. CASE DisconnectLdap(p)  BY <1>10 DEF DisconnectLdap
<1>11. CASE CleanupSmfi(p)     BY <1>11 DEF CleanupSmfi
<1>12. CASE CleanupDaemon(p)   BY <1>12 DEF CleanupDaemon
<1>13. CASE CreatePidFile(p)   BY <1>13 DEF CreatePidFile
<1>14. CASE Kill(p)            BY <1>14 DEF Kill, Die
<1>15. CASE OpenLog(p)         BY <1>15 DEF OpenLog
<1>16. CASE Terminate(p)       BY <1>16 DEF Terminate
<1>17. CASE DetachFails(p)        BY <1>17 DEF DetachFails, ReturnFailure
<1>18. CASE CreatePidFileFails(p) BY <1>18 DEF CreatePidFileFails, ReturnFailure
<1>19. CASE SetupSmfiFails(p)     BY <1>19 DEF SetupSmfiFails, ReturnFailure
<1>20. CASE ConnectLdapFails(p)   BY <1>20 DEF ConnectLdapFails, ReturnFailure
<1>21. CASE SmfiMainFails(p)      BY <1>21 DEF SmfiMainFails, GoOnAfterFailure
<1>22. CASE DisconnectLdapFails(p) BY <1>22 DEF DisconnectLdapFails, GoOnAfterFailure
<1>23. CASE CleanupSmfiFails(p)   BY <1>23 DEF CleanupSmfiFails, GoOnAfterFailure
<1>24. CASE CleanupDaemonFails(p) BY <1>24 DEF CleanupDaemonFails, GoOnAfterFailure
<1> QED BY <1>1, <1>2, <1>3, <1>4, <1>5, <1>6, <1>7, <1>8, <1>9, <1>10, <1>11, <1>12, <1>13,
           <1>14, <1>15, <1>16, <1>17, <1>18, <1>19, <1>20, <1>21, <1>22, <1>23, <1>24
        DEF Steps, Succeed, Fail

\* What a step of a process does to the claim about itself.
LEMMA StepsNamed ==
  ASSUME TypeOK, NEW p \in Proc, Steps(p), NamesDaemon(p)
  PROVE  NamesDaemon(p)'
<1> USE DEF At, Goto, TypeOK, NamesDaemon, Named, config, files
<1>1. CASE Start(p)        BY <1>1 DEF Start, Renewed
<1>2. CASE Refuse(p)       BY <1>2 DEF Refuse
<1>3. CASE Fork(p)         BY <1>3 DEF Fork
<1>4. CASE ForkFails(p)    BY <1>4 DEF ForkFails
<1>5. CASE Detach(p)       BY <1>5 DEF Detach
<1>6. CASE SetupSmfi(p)    BY <1>6 DEF SetupSmfi
<1>7. CASE ConnectLdap(p)  BY <1>7 DEF ConnectLdap
<1>8. CASE Serve(p)        BY <1>8 DEF Serve
<1>9. CASE Stop(p)         BY <1>9 DEF Stop
<1>10. CASE DisconnectLdap(p)  BY <1>10 DEF DisconnectLdap
<1>11. CASE CleanupSmfi(p)     BY <1>11 DEF CleanupSmfi
<1>12. CASE CleanupDaemon(p)   BY <1>12 DEF CleanupDaemon
<1>13. CASE CreatePidFile(p)   BY <1>13 DEF CreatePidFile
<1>14. CASE Kill(p)            BY <1>14 DEF Kill, Die
<1>15. CASE OpenLog(p)         BY <1>15 DEF OpenLog
<1>16. CASE Terminate(p)       BY <1>16 DEF Terminate
<1>17. CASE DetachFails(p)        BY <1>17 DEF DetachFails, ReturnFailure
<1>18. CASE CreatePidFileFails(p) BY <1>18 DEF CreatePidFileFails, ReturnFailure
<1>19. CASE SetupSmfiFails(p)     BY <1>19 DEF SetupSmfiFails, ReturnFailure
<1>20. CASE ConnectLdapFails(p)   BY <1>20 DEF ConnectLdapFails, ReturnFailure
<1>21. CASE SmfiMainFails(p)      BY <1>21 DEF SmfiMainFails, GoOnAfterFailure
<1>22. CASE DisconnectLdapFails(p) BY <1>22 DEF DisconnectLdapFails, GoOnAfterFailure
<1>23. CASE CleanupSmfiFails(p)   BY <1>23 DEF CleanupSmfiFails, GoOnAfterFailure
<1>24. CASE CleanupDaemonFails(p) BY <1>24 DEF CleanupDaemonFails, GoOnAfterFailure
<1> QED BY <1>1, <1>2, <1>3, <1>4, <1>5, <1>6, <1>7, <1>8, <1>9, <1>10, <1>11, <1>12, <1>13,
           <1>14, <1>15, <1>16, <1>17, <1>18, <1>19, <1>20, <1>21, <1>22, <1>23, <1>24
        DEF Steps, Succeed, Fail

LEMMA NextFileInv ==
  ASSUME TypeOK, ~Overlap, FileInv, [Next]_vars
  PROVE  FileInv'
<1>1. CASE UNCHANGED vars
  BY <1>1 DEF FileInv, Alone, NamesDaemon, Runs, vars, config, files
<1>2. CASE Next
  <2>1. PICK p \in Proc : Steps(p)
    BY <1>2 DEF Next, Steps
  <2>2. NamesDaemon(p)'
    BY <2>1, StepsNamed DEF FileInv
  <2>3. ASSUME NEW q \in Proc \ {p}
        PROVE  pc'[q] \in Gone /\ ~Runs(q)
    BY <2>1, StepsRunning, StepsApart DEF Apart, Forgotten, FileInv, Alone, Runs
  <2>4. Alone'
    BY <2>3 DEF Alone, Runs
  <2>5. \A q \in Proc \ {p} : NamesDaemon(q)'
    BY <2>3 DEF NamesDaemon, Named, Runs
  <2> QED BY <2>2, <2>4, <2>5 DEF FileInv
<1> QED BY <1>1, <1>2

\* Where instances run one after the other, the PID file names the daemon from its
\* creation until cleanup_daemon, whatever killed or failed instances left behind.
THEOREM NamedInFile == ~Overlap => (Spec => []PidFileNamesDaemon)
<1> SUFFICES ASSUME ~Overlap PROVE Spec => []PidFileNamesDaemon
  OBVIOUS
<1>1. Init => TypeOK /\ FileInv
  BY InitTypeOK DEF Init, FileInv, Alone, NamesDaemon, Runs
<1>2. TypeOK /\ FileInv /\ [Next]_vars => (TypeOK /\ FileInv)'
  BY NextTypeOK, NextFileInv
<1>3. TypeOK /\ FileInv => PidFileNamesDaemon
  BY DEF FileInv, NamesDaemon, Named, PidFileNamesDaemon
<1> QED BY <1>1, <1>2, <1>3, PTL DEF Spec

-----------------------------------------------------------------------------
(* The program: main and the connection to the directory.                  *)

USE DEF Runs, At, Goto

\* Where main has a connection to the directory.
Bound == {"smfi_main", "serving", "disconnect_ldap"}

\* One instance runs at a time, it has a connection from connect_ldap to
\* disconnect_ldap, and no callback runs outside smfi_main if that waits for them.
PcType == pc \in [Proc -> Places]
OneRuns == \A p, q \in Proc : Runs(p) /\ Runs(q) => p = q
Connected == \A p \in Proc : pc[p] \in Bound => handle
Drained == drained /\ ~Serving => AllIdle

BInv == PcType /\ OneRuns /\ Connected /\ Drained

\* What a step of main may do to the places of main.
Moves(p) ==
  /\ \A q \in Proc \ {p} : pc'[q] = pc[q] \/ (~Runs(q) /\ pc'[q] = "none")
  /\ Runs(p) \/ \A q \in Proc : ~Runs(q)
  /\ PcType'

\* Those of its calls that neither open nor close the connection.
LEMMA GoOnMoves ==
  ASSUME ~Overlap, PcType, NEW p \in Proc, GoOn(p)
  PROVE  /\ Moves(p)
         /\ pc'[p] \in Bound => pc[p] = "smfi_main"
         /\ pc[p] # "serving"
         /\ UNCHANGED <<sessions, drained, handle>>
<1> USE DEF PcType, Places, Moves, Bound, GoOn
<1>1. CASE Start(p)           BY <1>1 DEF Start, Renewed
<1>2. CASE Fork(p)            BY <1>2 DEF Fork
<1>3. CASE Detach(p)          BY <1>3 DEF Detach
<1>4. CASE CreatePidFile(p)   BY <1>4 DEF CreatePidFile
<1>5. CASE OpenLog(p)         BY <1>5 DEF OpenLog
<1>6. CASE SetupSmfi(p)       BY <1>6 DEF SetupSmfi
<1>7. CASE Serve(p)           BY <1>7 DEF Serve
<1>8. CASE CleanupSmfi(p)     BY <1>8 DEF CleanupSmfi
<1>9. CASE CleanupSmfiFails(p)   BY <1>9 DEF CleanupSmfiFails, GoOnAfterFailure
<1>10. CASE CleanupDaemon(p)     BY <1>10 DEF CleanupDaemon
<1>11. CASE CleanupDaemonFails(p)  BY <1>11 DEF CleanupDaemonFails, GoOnAfterFailure
<1> QED BY <1>1, <1>2, <1>3, <1>4, <1>5, <1>6, <1>7, <1>8, <1>9, <1>10, <1>11

\* Opening and closing it, and leaving smfi_main.
LEMMA ConnectMoves ==
  ASSUME PcType, NEW p \in Proc, Connect(p)
  PROVE  Moves(p) /\ pc[p] # "serving" /\ handle' = TRUE /\ UNCHANGED <<sessions, drained>>
BY DEF PcType, Places, Moves, Connect, ConnectLdap

LEMMA DisconnectMoves ==
  ASSUME PcType, NEW p \in Proc, Disconnect(p)
  PROVE  /\ Moves(p) /\ pc[p] = "disconnect_ldap" /\ pc'[p] = "cleanup_smfi"
         /\ UNCHANGED <<sessions, drained>>
BY DEF PcType, Places, Moves, Disconnect, DisconnectLdap, DisconnectLdapFails,
       GoOnAfterFailure

LEMMA LeaveMoves ==
  ASSUME PcType, NEW p \in Proc, LeaveSmfiMain(p)
  PROVE  /\ Moves(p) /\ pc[p] \in Bound /\ (drained => AllIdle)
         /\ UNCHANGED <<sessions, drained, handle>>
BY DEF PcType, Places, Moves, LeaveSmfiMain, Stop, SmfiMainFails, GoOnAfterFailure, Bound

\* The end of the process.
LEMMA EndMoves ==
  ASSUME PcType, NEW p \in Proc, End(p) \/ Die(p)
  PROVE  Moves(p) /\ Runs(p) /\ pc'[p] \in {"exited", "killed"}
<1> USE DEF PcType, Places, Moves
<1>1. CASE Refuse(p)            BY <1>1 DEF Refuse
<1>2. CASE ForkFails(p)         BY <1>2 DEF ForkFails
<1>3. CASE DetachFails(p)       BY <1>3 DEF DetachFails, ReturnFailure
<1>4. CASE CreatePidFileFails(p) BY <1>4 DEF CreatePidFileFails, ReturnFailure
<1>5. CASE SetupSmfiFails(p)    BY <1>5 DEF SetupSmfiFails, ReturnFailure
<1>6. CASE ConnectLdapFails(p)  BY <1>6 DEF ConnectLdapFails, ReturnFailure
<1>7. CASE Terminate(p)         BY <1>7 DEF Terminate
<1>8. CASE Kill(p)              BY <1>8 DEF Kill, Die
<1>9. CASE Die(p)               BY <1>9 DEF Die
<1> QED BY <1>1, <1>2, <1>3, <1>4, <1>5, <1>6, <1>7, <1>8, <1>9 DEF End

\* Every callback is gone with it.
LEMMA CrashIdle == S!Crash => AllIdle'
BY DEF S!Crash, AllIdle

\* One instance goes on to run at a time.
LEMMA MovesAlone ==
  ASSUME PcType, OneRuns, NEW p \in Proc, Moves(p)
  PROVE  OneRuns' /\ \A q \in Proc \ {p} : ~Runs(q) /\ pc'[q] \notin Bound /\ pc'[q] # "serving"
BY DEF PcType, Places, OneRuns, Moves, Bound

\* A step of main keeps BInv.
LEMMA MainInv ==
  ASSUME ~Overlap, BInv, NEW p \in Proc, Main(p)
  PROVE  BInv'
<1>1. PcType /\ OneRuns /\ Connected /\ Drained
  BY DEF BInv
<1> USE DEF Serving
<1>2. CASE GoOn(p)
  <2>1. Moves(p) /\ (pc'[p] \in Bound => pc[p] = "smfi_main") /\ pc[p] # "serving"
        /\ UNCHANGED <<at, drained, handle>>
    BY <1>1, <1>2, GoOnMoves DEF sessions
  <2>2. OneRuns' /\ \A q \in Proc \ {p} : ~Runs(q) /\ pc'[q] \notin Bound /\ pc'[q] # "serving"
    BY <1>1, <2>1, MovesAlone
  <2>3. Connected'
    BY <1>1, <2>1, <2>2 DEF Connected, Bound
  <2>4. ~Serving
    BY <2>1, <2>2
  <2>5. Drained'
    BY <1>1, <2>1, <2>4 DEF Drained, AllIdle
  <2> QED BY <2>1, <2>2, <2>3, <2>5 DEF BInv, Moves
<1>3. CASE Connect(p)
  <2>1. Moves(p) /\ pc[p] # "serving" /\ handle' = TRUE /\ UNCHANGED <<at, drained>>
    BY <1>1, <1>3, ConnectMoves DEF sessions
  <2>2. OneRuns' /\ \A q \in Proc \ {p} : ~Runs(q) /\ pc'[q] \notin Bound /\ pc'[q] # "serving"
    BY <1>1, <2>1, MovesAlone
  <2>3. ~Serving
    BY <2>1, <2>2
  <2>4. Drained'
    BY <1>1, <2>1, <2>3 DEF Drained, AllIdle
  <2> QED BY <2>1, <2>2, <2>4 DEF BInv, Moves, Connected
<1>4. CASE Disconnect(p)
  <2>1. Moves(p) /\ pc[p] = "disconnect_ldap" /\ pc'[p] = "cleanup_smfi" /\ UNCHANGED <<at, drained>>
    BY <1>1, <1>4, DisconnectMoves DEF sessions
  <2>2. OneRuns' /\ \A q \in Proc \ {p} : ~Runs(q) /\ pc'[q] \notin Bound /\ pc'[q] # "serving"
    BY <1>1, <2>1, MovesAlone
  <2>3. ~Serving
    BY <2>1, <2>2
  <2>4. Drained'
    BY <1>1, <2>1, <2>3 DEF Drained, AllIdle
  <2> QED BY <2>1, <2>2, <2>4 DEF BInv, Moves, Connected, Bound
<1>5. CASE LeaveSmfiMain(p)
  <2>1. Moves(p) /\ pc[p] \in Bound /\ (drained => AllIdle) /\ UNCHANGED <<at, drained, handle>>
    BY <1>1, <1>5, LeaveMoves DEF sessions
  <2>2. OneRuns' /\ \A q \in Proc \ {p} : ~Runs(q) /\ pc'[q] \notin Bound /\ pc'[q] # "serving"
    BY <1>1, <2>1, MovesAlone
  <2>3. Connected'
    BY <1>1, <2>1, <2>2 DEF Connected
  <2>4. Drained'
    BY <2>1 DEF Drained, AllIdle
  <2> QED BY <2>1, <2>2, <2>3, <2>4 DEF BInv, Moves
<1>6. CASE End(p)
  <2>1. Moves(p) /\ pc'[p] \in {"exited", "killed"}
    BY <1>1, <1>6, EndMoves
  <2>2. OneRuns' /\ \A q \in Proc \ {p} : ~Runs(q) /\ pc'[q] \notin Bound /\ pc'[q] # "serving"
    BY <1>1, <2>1, MovesAlone
  <2>3. AllIdle'
    BY <1>6, CrashIdle DEF End, Ends
  <2> QED BY <2>1, <2>2, <2>3 DEF BInv, Moves, Connected, Bound, Drained
<1> QED BY <1>2, <1>3, <1>4, <1>5, <1>6 DEF Main

\* A step of a callback does.
LEMMA CallbackInv ==
  ASSUME BInv, NEW s \in Session, Callback(s)
  PROVE  BInv'
<1>1. PcType /\ OneRuns /\ Connected /\ Drained
  BY DEF BInv
<1>2. CASE Arrive(s)
  BY <1>1, <1>2 DEF Arrive, main, vars, config, BInv, PcType, OneRuns, Connected, Drained, Serving
<1>3. CASE Search(s) \/ Answer(s)
  <2>1. UNCHANGED <<pc, drained, handle>>
    BY <1>3 DEF Search, Answer, main, vars, config
  <2>2. at[s] # "idle"
    BY <1>3 DEF Search, Answer, S!ListAnswered, S!OwnAnswered, S!AddRecipient, S!EomAnswered,
                S!EomUnheard, S!Finished
  <2>3. ~AllIdle
    BY <2>2 DEF AllIdle
  <2> QED BY <1>1, <2>1, <2>3 DEF BInv, PcType, OneRuns, Connected, Drained, Serving
<1>4. CASE CallbackCrashes(s)
  <2>1. PICK p \in Proc : Die(p)
    BY <1>4 DEF CallbackCrashes
  <2>2. Moves(p) /\ pc'[p] \in {"exited", "killed"}
    BY <1>1, <1>4, <2>1, EndMoves
  <2>3. OneRuns' /\ \A q \in Proc \ {p} : ~Runs(q) /\ pc'[q] \notin Bound /\ pc'[q] # "serving"
    BY <1>1, <2>2, MovesAlone
  <2>4. AllIdle'
    BY <1>4, CrashIdle DEF CallbackCrashes, S!Fatal, S!EnvfromNoMemory, S!SearchFailed
  <2> QED BY <2>2, <2>3, <2>4 DEF BInv, Moves, Connected, Bound, Drained
<1> QED BY <1>2, <1>3, <1>4 DEF Callback

LEMMA BInvAlways == ~Overlap => (Program => []BInv)
<1> SUFFICES ASSUME ~Overlap PROVE Program => []BInv
  OBVIOUS
<1>1. ProgramInit => BInv
  BY DEF ProgramInit, Init, S!NoSession, BInv, PcType, Places, OneRuns, Connected, Bound, Drained, AllIdle
<1>2. BInv /\ [ProgramNext]_programVars => BInv'
  <2> SUFFICES ASSUME BInv, [ProgramNext]_programVars PROVE BInv'
    OBVIOUS
  <2>1. CASE UNCHANGED programVars
    BY <2>1 DEF programVars, main, vars, config, files, sessions, BInv, PcType, OneRuns, Connected, Drained, Serving, AllIdle
  <2> QED BY <2>1, MainInv, CallbackInv DEF ProgramNext
<1> QED BY <1>1, <1>2, PTL DEF Program

\* Through any number of starts, stops, failures and crashes no callback searches
\* through a connection main does not have, if smfi_main waits for the callbacks;
\* and if it does not, none that runs while main serves does.
THEOREM SearchesConnected == ~Overlap => (Program => []SearchesBound)
<1> SUFFICES ASSUME ~Overlap PROVE Program => []SearchesBound
  OBVIOUS
<1>1. BInv => SearchesBound
  <2> SUFFICES ASSUME BInv, NEW s \in Session, Searching(s), ~handle
               PROVE  ~drained /\ ~Serving
    BY DEF SearchesBound
  <2>1. ~Serving
    BY DEF BInv, Connected, Serving, Bound
  <2>2. ~AllIdle
    BY DEF AllIdle, Searching
  <2> QED BY <2>1, <2>2 DEF BInv, Drained
<1> QED BY <1>1, BInvAlways, PTL
-----------------------------------------------------------------------------
(* The promise.                                                            *)

\* What is proved of the callbacks alone, here with the callbacks of a process
\* that main starts and ends.
SP == INSTANCE MilterSessionProofs WITH pc <- at

LEMMA SessionAssumptions ==
  SP!AccountsAssumption /\ SP!NullsAssumption /\ SP!AnswersAssumption /\ SP!OptionsAssumption
BY SessionAssumption
   DEF S!AccountsAssumption, S!NullsAssumption, S!AnswersAssumption, S!OptionsAssumption,
       SP!AccountsAssumption, SP!NullsAssumption, SP!AnswersAssumption, SP!OptionsAssumption,
       S!Mail, S!Members, S!Delivery, S!PrivData,
       SP!Mail, SP!Members, SP!Delivery, SP!PrivData

\* No session is served.
Nobody ==
  /\ login = [s \in Session |-> NoAccount]
  /\ mail = [s \in Session |-> NoMail]
  /\ gone = [s \in Session |-> FALSE]
  /\ abandoned = [s \in Session |-> FALSE]
  /\ priv = [s \in Session |-> NULL]
  /\ heap = [d \in Id |-> Free]
  /\ at = [s \in Session |-> "idle"]
  /\ list = [s \in Session |-> {}]
  /\ bcc = [s \in Session |-> {}]

\* Every step leaves the callbacks alone, ends them, or is one of theirs.
LEMMA StepOfCallbacks ==
  ProgramNext => UNCHANGED sessions \/ (Nobody' /\ UNCHANGED delivered) \/ SP!Next
<1> SUFFICES ASSUME ProgramNext PROVE UNCHANGED sessions \/ (Nobody' /\ UNCHANGED delivered) \/ SP!Next
  OBVIOUS
<1>0. S!Crash => Nobody' /\ UNCHANGED delivered
  BY DEF S!Crash, Nobody
<1>1. ASSUME NEW p \in Proc, Connect(p) \/ Disconnect(p) \/ LeaveSmfiMain(p) \/ GoOn(p)
      PROVE  UNCHANGED sessions
  BY <1>1 DEF Connect, Disconnect, LeaveSmfiMain, GoOn
<1>2. ASSUME NEW p \in Proc, End(p) PROVE Nobody' /\ UNCHANGED delivered
  BY <1>0, <1>2 DEF End, Ends
<1>3. ASSUME NEW s \in Session, CallbackCrashes(s) PROVE Nobody' /\ UNCHANGED delivered
  BY <1>0, <1>3 DEF CallbackCrashes, S!Fatal, S!EnvfromNoMemory, S!SearchFailed
<1>4. ASSUME NEW s \in Session, Arrive(s) PROVE SP!Next
  <2>1. S!Connection(s) => SP!Connection(s)
    BY DEF S!Connection, S!Authenticate, S!Lapse, S!Abort, S!Close, S!HangUp,
           S!EnvfromUnauthenticated, S!EnvfromAuthenticated, S!Between, S!Recorded,
           SP!Connection, SP!Authenticate, SP!Lapse, SP!Abort, SP!Close, SP!HangUp,
           SP!EnvfromUnauthenticated, SP!EnvfromAuthenticated, SP!Between, SP!Recorded
  <2>2. S!EomPass(s) \/ S!EomSearch(s) => SP!Callback(s)
    BY DEF S!EomPass, S!EomSearch, S!Eom, S!Deliver, S!external,
           SP!EomPass, SP!EomSearch, SP!Eom, SP!Deliver, SP!external,
           SP!Callback
  <2> QED BY <1>4, <2>1, <2>2 DEF Arrive, SP!Next
<1>5. ASSUME NEW s \in Session, Search(s) \/ Answer(s) PROVE SP!Next
  <2>1. S!ListAnswered(s) \/ S!OwnAnswered(s) => SP!Callback(s)
    BY DEF S!ListAnswered, S!OwnAnswered, S!Returned, S!external,
           SP!ListAnswered, SP!OwnAnswered, SP!Returned, SP!external,
           SP!Callback
  <2>2. S!AddRecipient(s) \/ S!EomAnswered(s) \/ S!EomUnheard(s) => SP!Callback(s)
    BY DEF S!AddRecipient, S!EomAnswered, S!EomUnheard, S!Finished, S!Release, S!Deliver, S!external,
           SP!AddRecipient, SP!EomAnswered, SP!EomUnheard, SP!Finished, SP!Release, SP!Deliver,
           SP!external,
           SP!Callback
  <2> QED BY <1>5, <2>1, <2>2 DEF Search, Answer, SP!Next
<1> QED BY <1>1, <1>2, <1>3, <1>4, <1>5 DEF ProgramNext, Main, Callback

LEMMA NobodyInv ==
  ASSUME Nobody, delivered \in SP!Delivery \cup {NoMail}
  PROVE  SP!MemInv /\ SP!Attributed /\ SP!Progressed
BY SessionAssumptions
   DEF Nobody, SP!MemInv, SP!TypeOK, SP!DataPrivate, SP!Running, SP!Attributed, SP!DataOfThisMail,
       SP!Settled, SP!Progressed, alive

LEMMA SamePromise ==
  /\ SP!Covered = S!Covered /\ SP!Covered' = S!Covered'
  /\ SP!LastCovered = S!LastCovered /\ SP!LastCovered' = S!LastCovered'
  /\ \A m : SP!Promise!Promised(m) = S!Promise!Promised(m)
<1>1. SP!Covered = S!Covered /\ SP!Covered' = S!Covered'
  BY DEF SP!Covered, SP!Covers, S!Covered, S!Covers
<1>2. SP!LastCovered = S!LastCovered /\ SP!LastCovered' = S!LastCovered'
  BY DEF SP!LastCovered, SP!Covers, S!LastCovered, S!Covers
<1>3. \A m : SP!Promise!Expansions(m) = S!Promise!Expansions(m)
  BY DEF SP!Promise!Expansions, S!Promise!Expansions, SP!Returned, S!Returned
<1>4. \A m : SP!Promise!Promised(m) = S!Promise!Promised(m)
  BY <1>3 DEF SP!Promise!Promised, S!Promise!Promised
<1> QED BY <1>1, <1>2, <1>4

LEMMA PromiseNext == [SP!Promise!Next]_(SP!Promise!vars) => [S!Promise!Next]_(S!Promise!vars)
<1>1. SP!Promise!Crash => S!Promise!Crash
  BY SamePromise DEF SP!Promise!Crash, S!Promise!Crash
<1>2. SP!Promise!Uncovered => S!Promise!Uncovered
  BY SamePromise DEF SP!Promise!Uncovered, S!Promise!Uncovered
<1>3. \A s \in Session : SP!Promise!Begin(s) => S!Promise!Begin(s)
  BY SamePromise DEF SP!Promise!Begin, S!Promise!Begin, SP!Promise!Mail, S!Promise!Mail
<1>4. \A s \in Session : SP!Promise!Deliver(s) => S!Promise!Deliver(s)
  BY SamePromise DEF SP!Promise!Deliver, S!Promise!Deliver
<1>5. \A s \in Session : SP!Promise!Drop(s) => S!Promise!Drop(s)
  BY SamePromise DEF SP!Promise!Drop, S!Promise!Drop
<1>6. UNCHANGED SP!Promise!vars => UNCHANGED S!Promise!vars
  BY SamePromise DEF SP!Promise!vars, S!Promise!vars
<1> QED BY <1>1, <1>2, <1>3, <1>4, <1>5, <1>6 DEF SP!Promise!Next, S!Promise!Next

\* What the callbacks keep among themselves.
CInv == SP!MemInv /\ SP!Attributed /\ SP!Progressed

Typed == delivered \in SP!Delivery \cup {NoMail}

LEMMA NobodyCInv == Nobody /\ Typed => CInv
BY NobodyInv DEF CInv, Typed

LEMMA CInvTyped == CInv => Typed
BY DEF CInv, SP!MemInv, SP!TypeOK, Typed

\* main, when it leaves the callbacks alone, keeps it too.
LEMMA SessionsKept == CInv /\ UNCHANGED sessions => CInv'
<1> SUFFICES ASSUME CInv, UNCHANGED sessions PROVE CInv'
  OBVIOUS
<1>1. SP!MemInv'
  BY DEF CInv, sessions, SP!MemInv, SP!TypeOK, SP!DataPrivate, SP!Running, alive
<1>2. SP!Attributed'
  BY DEF CInv, sessions, SP!Attributed, SP!DataOfThisMail, SP!Settled, SP!Recorded
<1>3. SP!Progressed'
  <2> SUFFICES ASSUME NEW s \in Session
               PROVE  /\ at'[s] # "add" => bcc'[s] = {}
                      /\ at'[s] = "own" /\ SP!Expanding(s)' =>
                           list'[s] \in SP!Returned(ListAnswers[mail'[s].sender])
                      /\ at'[s] = "add" /\ SP!Expanding(s)' =>
                           SP!MakesUp(mail'[s], bcc'[s], list'[s])
    BY DEF SP!Progressed, SP!MakesUp, SP!Returned
  <2> QED BY DEF CInv, sessions, SP!Progressed, SP!Expanding
<1> QED BY <1>1, <1>2, <1>3 DEF CInv

LEMMA NextCInv == CInv /\ [ProgramNext]_programVars => CInv'
<1> SUFFICES ASSUME CInv, [ProgramNext]_programVars PROVE CInv'
  OBVIOUS
<1>1. CASE UNCHANGED sessions
  BY <1>1, SessionsKept
<1>2. CASE Nobody' /\ UNCHANGED delivered
  <2>1. Typed'
    BY <1>2, CInvTyped DEF Typed, SP!Delivery, SP!Mail, SP!Members
  <2> QED BY <1>2, <2>1, NobodyCInv, PTL
<1>3. CASE SP!Next
  <2>1. SP!MemInv'
    BY <1>3, SessionAssumptions, SP!NextMemInv DEF CInv
  <2>2. SP!Attributed'
    BY <1>3, SessionAssumptions, SP!NextAttributed DEF CInv
  <2>3. SP!Progressed'
    BY <1>3, SessionAssumptions, SP!NextProgressed DEF CInv
  <2> QED BY <2>1, <2>2, <2>3 DEF CInv
<1> QED BY <1>1, <1>2, <1>3, StepOfCallbacks DEF programVars

LEMMA NextKeepsPromise == CInv /\ [ProgramNext]_programVars => [S!Promise!Next]_(S!Promise!vars)
<1> SUFFICES ASSUME CInv, [ProgramNext]_programVars PROVE [S!Promise!Next]_(S!Promise!vars)
  OBVIOUS
<1>l. UNCHANGED delivered => UNCHANGED S!LastCovered
  BY DEF S!LastCovered, S!Covers
<1>1. CASE UNCHANGED sessions
  BY <1>l, <1>1 DEF sessions, S!Covered, S!Covers, S!Promise!vars
<1>2. CASE Nobody' /\ UNCHANGED delivered
  <2>1. S!Covered' = [s \in Session |-> NoMail]
    BY <1>2 DEF Nobody, S!Covered
  <2> QED BY <1>l, <1>2, <2>1 DEF S!Promise!Next, S!Promise!Crash
<1>3. CASE SP!Next
  <2>1. [SP!Promise!Next]_(SP!Promise!vars)
    BY <1>3, SessionAssumptions, SP!NextPromise DEF CInv
  <2> QED BY <2>1, PromiseNext
<1> QED BY <1>1, <1>2, <1>3, StepOfCallbacks DEF programVars

\* The program as a whole implements AliasExpansion, for any number of instances
\* started one after the other, stopped, killed or brought down by a callback, and of
\* connections, mails given up, hang-ups and answers.
THEOREM ProgramKeepsPromise == Program => ImplementsExpansion
<1>1. ProgramInit => Nobody /\ Typed
  BY DEF ProgramInit, S!NoSession, Nobody, Typed
<1>2. ProgramInit => S!Promise!Init
  BY DEF ProgramInit, S!NoSession, S!Promise!Init, S!Covered, S!LastCovered
<1> QED
  BY <1>1, <1>2, NobodyCInv, NextCInv, NextKeepsPromise, PTL
  DEF Program, ImplementsExpansion, S!ImplementsExpansion, S!Promise!Spec

\* When no mail is given up, no step of the program leaves private data behind.
LEMMA ProgramNothingLeaked ==
  ASSUME ~MayAbort
  PROVE  CInv /\ SP!NothingLeaked /\ [ProgramNext]_programVars => SP!NothingLeaked'
<1> SUFFICES ASSUME CInv, SP!NothingLeaked, [ProgramNext]_programVars PROVE SP!NothingLeaked'
  OBVIOUS
<1>1. CASE UNCHANGED sessions
  BY <1>1 DEF sessions, SP!NothingLeaked
<1>2. CASE Nobody'
  BY <1>2 DEF Nobody, SP!NothingLeaked
<1>3. CASE SP!Next
  BY <1>3, SessionAssumptions, SP!NextNothingLeaked DEF CInv
<1> QED BY <1>1, <1>2, <1>3, StepOfCallbacks DEF programVars

\* Nor does any run of it: a process that is restarted begins with nothing, and one
\* that serves frees what its callbacks stored.
THEOREM ProgramLeaksNothing == ASSUME ~MayAbort PROVE Program => []NothingLeaked
<1>1. ProgramInit => Nobody /\ Typed /\ SP!NothingLeaked
  BY DEF ProgramInit, S!NoSession, Nobody, Typed, SP!NothingLeaked
<1>2. SP!NothingLeaked => NothingLeaked
  BY DEF NothingLeaked, S!NothingLeaked, SP!NothingLeaked
<1> QED
  BY <1>1, <1>2, NobodyCInv, NextCInv, ProgramNothingLeaked, PTL DEF Program
=============================================================================
