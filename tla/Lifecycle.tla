------------------------------ MODULE Lifecycle -----------------------------
(***************************************************************************)
(* The life of an instance of the filter: main (src/main.c) with the       *)
(* daemon, the service manager, the mail filter set-up and the LDAP        *)
(* connection it drives, over the two files instances share: the PID file  *)
(* and the socket.  Every step may fail where the code looks at a result,  *)
(* and an instance may be killed between any two steps; the operator       *)
(* starts a new one.  libmilter, LDAP, systemd and the kernel are external.*)
(***************************************************************************)
EXTENDS Integers, Sequences

CONSTANTS Proc,        \* processes an instance can run as
          NoFile,      \* the file does not exist
          Modes,       \* daemon modes: "foreground", "fork", "systemd"
          Overlap,     \* TRUE when an instance may be started beside another
          MaxFaults    \* bound: steps that fail and instances that are killed

ASSUME ProcAssumption == NoFile \notin Proc
ASSUME BoundsAssumption == MaxFaults \in Nat /\ Overlap \in BOOLEAN

VARIABLES mode,        \* rt_setting.daemon_mode
          pidPath,     \* rt_setting.pid_file # NULL
          pc,          \* process -> the call of main it is about to make
          daemonized,  \* process -> rt_setting.is_daemonized
          told,        \* process -> what the service manager was told
          code,        \* process -> result_code, then the exit status
          asked,       \* process -> has been asked to terminate
          pidFile,     \* the process the PID file names, or NoFile
          socketFile,  \* the process that bound the socket file, or NoFile
          faults       \* failures so far

config == <<mode, pidPath>>
files == <<pidFile, socketFile>>
vars == <<config, pc, daemonized, told, code, asked, files, faults>>

Gone == {"none", "exited", "killed"}
Runs(p) == pc[p] \notin Gone

Init ==
  /\ mode \in Modes /\ pidPath \in BOOLEAN
  /\ pc = [p \in Proc |-> "none"]
  /\ daemonized = [p \in Proc |-> FALSE]
  /\ told = [p \in Proc |-> <<>>]
  /\ code = [p \in Proc |-> "EX_OK"]
  /\ asked = [p \in Proc |-> FALSE]
  /\ pidFile = NoFile /\ socketFile = NoFile
  /\ faults = 0

-----------------------------------------------------------------------------
(* Building blocks of main.                                                *)

Fault == faults < MaxFaults /\ faults' = faults + 1
NoFault == UNCHANGED faults

At(p, here) == pc[p] = here
Goto(p, there) == pc' = [pc EXCEPT ![p] = there]

Note(what, c) == [what |-> what, code |-> c]
\* Only a daemonized instance in mode "systemd" tells anything.
Tell(p, n) ==
  told' = IF daemonized[p] /\ mode = "systemd"
          THEN [told EXCEPT ![p] = Append(@, n)] ELSE told

\* The branches that tell of a failure and return at once.
\* Mutant: one that forgets to tell.
ReturnFailure_Silent(p, c) ==
  /\ UNCHANGED told
  /\ code' = [code EXCEPT ![p] = c]
  /\ Goto(p, "exited")
ReturnFailure(p, c) ==
  /\ Tell(p, Note("failed", c))
  /\ code' = [code EXCEPT ![p] = c]
  /\ Goto(p, "exited")

\* The branches that tell of a failure and go on.
GoOnAfterFailure(p, c, there) ==
  /\ Tell(p, Note("failed", c))
  /\ code' = [code EXCEPT ![p] = c]
  /\ Goto(p, there)

-----------------------------------------------------------------------------
(* Starting.                                                               *)

\* What is kept of the instances that run; of those that have ended only their
\* files are left.
Renewed(f, initial) == [q \in Proc |-> IF Runs(q) THEN f[q] ELSE initial]

\* The operator, or the service manager, starts a process with a PID of its own.
Start(p) ==
  /\ ~Runs(p) /\ p \notin {pidFile, socketFile}
  /\ Overlap \/ \A q \in Proc : ~Runs(q)
  /\ pc' = [Renewed(pc, "none") EXCEPT ![p] = "configure"]
  /\ daemonized' = Renewed(daemonized, FALSE)
  /\ told' = Renewed(told, <<>>)
  /\ code' = Renewed(code, "EX_OK")
  /\ asked' = Renewed(asked, FALSE)
  /\ NoFault /\ UNCHANGED <<config, files>>

\* No memory, a bad command line or configuration, or a request for usage or
\* version.
Refuse(p) ==
  /\ At(p, "configure") /\ Fault
  /\ \E c \in {"-1", "EX_OK", "EX_USAGE", "EX_NOPERM", "EX_OSERR"} :
       code' = [code EXCEPT ![p] = c]
  /\ Goto(p, "exited")
  /\ UNCHANGED <<config, daemonized, told, asked, files>>

\* deamonize: in the child, or straight on in the foreground.
Fork(p) ==
  /\ At(p, "configure")
  /\ Goto(p, IF mode = "foreground" THEN "open_log" ELSE "detach")
  /\ daemonized' = [daemonized EXCEPT ![p] = mode # "foreground"]
  /\ NoFault /\ UNCHANGED <<config, told, code, asked, files>>

\* The parent is not daemonized, so the service manager is told nothing.
ForkFails(p) ==
  /\ At(p, "configure") /\ mode # "foreground" /\ Fault
  /\ code' = [code EXCEPT ![p] = "EX_OSERR"]
  /\ Goto(p, "exited")
  /\ UNCHANGED <<config, daemonized, told, asked, files>>

\* become_session_leader, detach_std_io
Detach(p) ==
  /\ At(p, "detach")
  /\ Goto(p, "create_pid_file")
  /\ NoFault /\ UNCHANGED <<config, daemonized, told, code, asked, files>>

DetachFails(p) ==
  /\ At(p, "detach") /\ Fault
  /\ ReturnFailure(p, "EX_OSERR")
  /\ UNCHANGED <<config, daemonized, asked, files>>

\* Mutant: an existing file is left as it is.
CreatePidFile_KeepsOld(p) ==
  /\ At(p, "create_pid_file")
  /\ pidFile' = IF pidPath /\ pidFile = NoFile THEN p ELSE pidFile
  /\ Goto(p, "open_log")
  /\ NoFault /\ UNCHANGED <<config, daemonized, told, code, asked, socketFile>>
CreatePidFile(p) ==
  /\ At(p, "create_pid_file")
  /\ pidFile' = IF pidPath THEN p ELSE pidFile
  /\ Goto(p, "open_log")
  /\ NoFault /\ UNCHANGED <<config, daemonized, told, code, asked, socketFile>>

\* mkpdir fails, or fopen after the old file was unlinked, or the write or the
\* close of the new one.
CreatePidFileFails(p) ==
  /\ At(p, "create_pid_file") /\ pidPath /\ Fault
  /\ pidFile' \in {pidFile, NoFile, p}
  /\ ReturnFailure(p, "EX_OSERR")
  /\ UNCHANGED <<config, daemonized, asked, socketFile>>

\* open_log, notify_sm_ready
OpenLog(p) ==
  /\ At(p, "open_log")
  /\ Tell(p, Note("ready", "EX_OK"))
  /\ Goto(p, "setup_smfi")
  /\ NoFault /\ UNCHANGED <<config, daemonized, code, asked, files>>

\* Mutant: the filter serves without a directory.
SetupSmfi_SkipsLdap(p) ==
  /\ At(p, "setup_smfi")
  /\ Goto(p, "smfi_main")
  /\ NoFault /\ UNCHANGED <<config, daemonized, told, code, asked, files>>
SetupSmfi(p) ==
  /\ At(p, "setup_smfi")
  /\ Goto(p, "connect_ldap")
  /\ NoFault /\ UNCHANGED <<config, daemonized, told, code, asked, files>>

SetupSmfiFails(p) ==
  /\ At(p, "setup_smfi") /\ Fault
  /\ \E c \in {"-1", "EX_UNAVAILABLE"} : ReturnFailure(p, c)
  /\ UNCHANGED <<config, daemonized, asked, files>>

\* Mutant: readiness is announced here as well.
ConnectLdap_ReadyAgain(p) ==
  /\ At(p, "connect_ldap")
  /\ Tell(p, Note("ready", "EX_OK"))
  /\ Goto(p, "smfi_main")
  /\ NoFault /\ UNCHANGED <<config, daemonized, code, asked, files>>
ConnectLdap(p) ==
  /\ At(p, "connect_ldap")
  /\ Goto(p, "smfi_main")
  /\ NoFault /\ UNCHANGED <<config, daemonized, told, code, asked, files>>

\* Mutant: returns the result of the step before.
ConnectLdapFails_StaleCode(p) ==
  /\ At(p, "connect_ldap") /\ Fault
  /\ ReturnFailure(p, code[p])
  /\ UNCHANGED <<config, daemonized, asked, files>>
ConnectLdapFails(p) ==
  /\ At(p, "connect_ldap") /\ Fault
  /\ \E c \in {"EX_SOFTWARE", "EX_IOERR"} : ReturnFailure(p, c)
  /\ UNCHANGED <<config, daemonized, asked, files>>

-----------------------------------------------------------------------------
(* Serving (libmilter binds the socket) and terminating.                   *)

Serve(p) ==
  /\ At(p, "smfi_main") /\ socketFile = NoFile
  /\ socketFile' = p
  /\ Goto(p, "serving")
  /\ NoFault /\ UNCHANGED <<config, daemonized, told, code, asked, pidFile>>

\* A socket file that exists, stale or not, makes smfi_main fail.
SmfiMainFails(p) ==
  /\ \/ At(p, "smfi_main") /\ socketFile # NoFile /\ NoFault
     \/ pc[p] \in {"smfi_main", "serving"} /\ Fault
  /\ GoOnAfterFailure(p, "EX_SOFTWARE", "disconnect_ldap")
  /\ UNCHANGED <<config, daemonized, asked, files>>

\* SIGTERM: smfi_main returns and may have removed its own socket.
Stop(p) ==
  /\ At(p, "serving")
  /\ asked' = [asked EXCEPT ![p] = TRUE]
  /\ socketFile' \in {socketFile} \cup (IF socketFile = p THEN {NoFile} ELSE {})
  /\ Goto(p, "disconnect_ldap")
  /\ NoFault /\ UNCHANGED <<config, daemonized, told, code, pidFile>>

DisconnectLdap(p) ==
  /\ At(p, "disconnect_ldap")
  /\ code' = [code EXCEPT ![p] = "EX_OK"]
  /\ Goto(p, "cleanup_smfi")
  /\ NoFault /\ UNCHANGED <<config, daemonized, told, asked, files>>

DisconnectLdapFails(p) ==
  /\ At(p, "disconnect_ldap") /\ Fault
  /\ GoOnAfterFailure(p, "EX_IOERR", "cleanup_smfi")
  /\ UNCHANGED <<config, daemonized, asked, files>>

\* The socket file is unlinked, whoever bound it.
\* Mutant: only a socket of its own is.
CleanupSmfi_OwnOnly(p) ==
  /\ At(p, "cleanup_smfi")
  /\ socketFile' = IF socketFile = p THEN NoFile ELSE socketFile
  /\ code' = [code EXCEPT ![p] = "EX_OK"]
  /\ Goto(p, "cleanup_daemon")
  /\ NoFault /\ UNCHANGED <<config, daemonized, told, asked, pidFile>>
CleanupSmfi(p) ==
  /\ At(p, "cleanup_smfi")
  /\ socketFile' = NoFile
  /\ code' = [code EXCEPT ![p] = "EX_OK"]
  /\ Goto(p, "cleanup_daemon")
  /\ NoFault /\ UNCHANGED <<config, daemonized, told, asked, pidFile>>

CleanupSmfiFails(p) ==
  /\ At(p, "cleanup_smfi") /\ socketFile # NoFile /\ Fault
  /\ GoOnAfterFailure(p, "EX_SOFTWARE", "cleanup_daemon")
  /\ UNCHANGED <<config, daemonized, asked, files>>

\* Mutant: the condition on is_daemonized is inverted.
CleanupDaemon_Inverted(p) ==
  /\ At(p, "cleanup_daemon")
  /\ pidFile' = IF ~daemonized[p] /\ pidPath THEN NoFile ELSE pidFile
  /\ code' = [code EXCEPT ![p] = "EX_OK"]
  /\ Goto(p, "terminate")
  /\ NoFault /\ UNCHANGED <<config, daemonized, told, asked, socketFile>>
CleanupDaemon(p) ==
  /\ At(p, "cleanup_daemon")
  /\ pidFile' = IF daemonized[p] /\ pidPath THEN NoFile ELSE pidFile
  /\ code' = [code EXCEPT ![p] = "EX_OK"]
  /\ Goto(p, "terminate")
  /\ NoFault /\ UNCHANGED <<config, daemonized, told, asked, socketFile>>

CleanupDaemonFails(p) ==
  /\ At(p, "cleanup_daemon") /\ daemonized[p] /\ pidPath /\ pidFile # NoFile /\ Fault
  /\ GoOnAfterFailure(p, "EX_SOFTWARE", "terminate")
  /\ UNCHANGED <<config, daemonized, asked, files>>

\* notify_sm_terminated, return result_code
Terminate(p) ==
  /\ At(p, "terminate")
  /\ Tell(p, Note("terminated", "EX_OK"))
  /\ Goto(p, "exited")
  /\ NoFault /\ UNCHANGED <<config, daemonized, code, asked, files>>

Die(p) ==
  /\ Runs(p)
  /\ Goto(p, "killed")
  /\ UNCHANGED <<config, daemonized, told, code, asked, files>>

\* SIGKILL, SIGTERM outside smfi_main, or a crash in a callback.
Kill(p) == Fault /\ Die(p)

Succeed(p) ==
  \/ Fork(p) \/ Detach(p) \/ CreatePidFile(p) \/ OpenLog(p) \/ SetupSmfi(p)
  \/ ConnectLdap(p) \/ Serve(p) \/ DisconnectLdap(p) \/ CleanupSmfi(p)
  \/ CleanupDaemon(p) \/ Terminate(p)

Fail(p) ==
  \/ Refuse(p) \/ ForkFails(p) \/ DetachFails(p) \/ CreatePidFileFails(p)
  \/ SetupSmfiFails(p) \/ ConnectLdapFails(p) \/ DisconnectLdapFails(p)
  \/ CleanupSmfiFails(p) \/ CleanupDaemonFails(p) \/ Kill(p)

Next == \E p \in Proc : Start(p) \/ Succeed(p) \/ SmfiMainFails(p) \/ Stop(p) \/ Fail(p)

Spec == Init /\ [][Next]_vars

-----------------------------------------------------------------------------
(* Properties.                                                             *)

Places == Gone \cup
  {"configure", "detach", "create_pid_file", "open_log", "setup_smfi", "connect_ldap",
   "smfi_main", "serving", "disconnect_ldap", "cleanup_smfi", "cleanup_daemon", "terminate"}
Codes == {"EX_OK", "EX_USAGE", "EX_NOPERM", "EX_OSERR", "EX_UNAVAILABLE", "EX_SOFTWARE",
          "EX_IOERR", "-1"}
Notes == [what : {"ready", "failed", "terminated"}, code : Codes]

TypeOK ==
  /\ mode \in Modes /\ pidPath \in BOOLEAN
  /\ pc \in [Proc -> Places]
  /\ daemonized \in [Proc -> BOOLEAN]
  /\ told \in [Proc -> Seq(Notes)]
  /\ code \in [Proc -> Codes]
  /\ asked \in [Proc -> BOOLEAN]
  /\ pidFile \in Proc \cup {NoFile} /\ socketFile \in Proc \cup {NoFile}
  /\ faults \in 0..MaxFaults

\* Whatever fails, the service manager hears "ready" at most once and before
\* anything else, and "terminated" only as the last word.
NotificationsOrdered ==
  \A p \in Proc : \A i \in DOMAIN told[p] :
    /\ told[p][i].what = "ready" => i = 1
    /\ told[p][i].what = "terminated" => i = Len(told[p])

\* In whatever way a daemonized instance in mode "systemd" returns from main,
\* the last thing the service manager hears is that it stops.
ExitAnnounced ==
  \A p \in Proc :
    pc[p] = "exited" /\ mode = "systemd" /\ daemonized[p] =>
      told[p] # <<>> /\ told[p][Len(told[p])].what \in {"failed", "terminated"}

\* The exit status never surprises the service manager: success is returned only
\* after "terminated", and a failure only when it is the one told of last.  Failures
\* before cleanup_daemon may be told of and not returned: see ExitStatusAnnounced.
FailureStatusTold ==
  \A p \in Proc : pc[p] = "exited" /\ told[p] # <<>> =>
    LET n == Len(told[p]) IN
    IF code[p] = "EX_OK" THEN told[p][n].what = "terminated"
    ELSE \/ told[p][n] = Note("failed", code[p])
         \/ told[p][n].what = "terminated" /\ told[p][n-1] = Note("failed", code[p])

\* From its creation until cleanup_daemon the PID file names the daemon, over
\* stale files of instances that were killed.
PidFileNamesDaemon ==
  \A p \in Proc :
    /\ daemonized[p] /\ pidPath
    /\ pc[p] \in {"open_log", "setup_smfi", "connect_ldap", "smfi_main", "serving",
                  "disconnect_ldap", "cleanup_smfi", "cleanup_daemon"}
    => pidFile = p

\* An instance of which the service manager heard no failure from "ready" to
\* "terminated" had been asked to terminate and left neither file behind.
CleanExit ==
  \A p \in Proc :
    pc[p] = "exited" /\ Len(told[p]) = 2 /\ told[p][2].what = "terminated" =>
      asked[p] /\ code[p] = "EX_OK" /\ pidFile # p /\ socketFile # p

\* A serving instance can be reached through the socket file: cleanup removes
\* leftovers only (smfi.h).
SocketOfServing == \A p \in Proc : pc[p] = "serving" => socketFile = p

\* An instance that has told of a failure exits with a status it told of:
\* notify_sm_failed gets the one main returns (service_manager.h).
ExitStatusAnnounced ==
  \A p \in Proc : pc[p] = "exited" =>
    LET failures == {i \in DOMAIN told[p] : told[p][i].what = "failed"} IN
    failures # {} => \E i \in failures : code[p] = told[p][i].code
=============================================================================
