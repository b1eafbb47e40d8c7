-------------------------------- MODULE Daemon --------------------------------
(***************************************************************************)
(* How the program becomes a daemon: main of src/main.c from the settings   *)
(* it reads, which change where it logs to while it reads on, through      *)
(* deamonize of src/daemon.c to its end, as two processes with the         *)
(* descriptors and the buffer of stdout that fork copies, and log_msg and  *)
(* open_log of src/log.c, which write to both.  The kernel, syslog(3) of   *)
(* the C library and stdio are external: a descriptor refers to what the   *)
(* program inherited, the config file, /dev/null or the system logger.     *)
(***************************************************************************)
EXTENDS Integers, Sequences

CONSTANTS FdMax,        \* the highest descriptor
          Closed,       \* content of an entry that is not in use
          None,         \* no descriptor; no PID file
          Levels,       \* the log levels the user may choose
          MaxEarly      \* bound: messages about settings that are read

ASSUME FdAssumption == FdMax \in Nat /\ FdMax >= 2
ASSUME NoneAssumption == None \notin 0..FdMax /\ None \notin {"parent", "child"}
ASSUME ContentAssumption == Closed \notin {"inherited", "config", "null", "syslog"}
ASSUME LevelsAssumption == Levels \subseteq 0..7 /\ MaxEarly \in Nat

Fd == 0..FdMax
Process == {"parent", "child"}

\* Priorities, the smaller the more severe.
LOG_CRIT == 2
LOG_ERR == 3
LOG_WARNING == 4
LOG_NOTICE == 5
LOG_DEBUG == 7

VARIABLES foreground,  \* rt_setting.daemon_mode = DAEMON_MODE_FOREGROUND
          level,       \* rt_setting.log_level
          pidPath,     \* rt_setting.pid_file # NULL
          verdict,     \* of main on the settings: "start", "print" usage, "refuse"
          buffered,    \* stdout is written at exit; otherwise at once
          pc,          \* process -> what it does next
          table,       \* process -> descriptor -> what it refers to
          fd,          \* fd of detach_std_io
          logFd,       \* process -> descriptor syslog believes to be its own
          buffer,      \* process -> messages in the buffer of stdout
          said,        \* all messages passed to log_msg
          screen,      \* those written to the stdout the program inherited
          journal,     \* those the system logger has received
          pidFile      \* the process the PID file names

settings == <<foreground, level, pidPath>>
config == <<settings, verdict, buffered>>
logs == <<logFd, buffer, screen, journal>>
vars == <<config, pc, table, fd, logs, said, pidFile>>

\* Whoever starts the program may have closed any of its standard descriptors, and
\* left others open.  Only a terminal is written at once.
Init ==
  /\ foreground = FALSE /\ level = LOG_WARNING /\ pidPath = TRUE /\ verdict = "start"
  /\ pc = [p \in Process |-> IF p = "parent" THEN "cli" ELSE "none"]
  /\ \E used \in SUBSET Fd :
       /\ table = [p \in Process |-> [k \in Fd |-> IF p = "parent" /\ k \in used
                                                   THEN "inherited" ELSE Closed]]
       /\ buffered \in BOOLEAN /\ (1 \notin used => buffered)
  /\ fd = None
  /\ logFd = [p \in Process |-> None]
  /\ buffer = [p \in Process |-> <<>>]
  /\ said = <<>> /\ screen = <<>> /\ journal = <<>>
  /\ pidFile = None

-----------------------------------------------------------------------------
(* Descriptors and stdout.                                                 *)

\* The descriptor open and socket return.
IsLowest(t, k) == k \in Fd /\ t[k] = Closed /\ \A j \in 0..k-1 : t[j] # Closed
Full(t) == \A k \in Fd : t[k] # Closed

Goto(p, there) == pc' = [pc EXCEPT ![p] = there]

\* The text of messages goes where descriptor 1 refers to, which is the system logger
\* when that has got the descriptor; received is what it has by then.
WriteStdout(p, messages, received) ==
  /\ screen' = IF table'[p][1] = "inherited" THEN screen \o messages ELSE screen
  /\ journal' = IF table'[p][1] = "syslog" THEN received \o messages ELSE received

Vfprintf(p, m, received) ==
  IF buffered THEN /\ buffer' = [buffer EXCEPT ![p] = Append(@, m)]
                   /\ journal' = received
                   /\ UNCHANGED screen
              ELSE WriteStdout(p, <<m>>, received) /\ UNCHANGED buffer

-----------------------------------------------------------------------------
(* The system logger, as syslog(3) of the C library reaches it.            *)

\* Its descriptor is closed, whatever it refers to by now.
WithoutLog(p) ==
  IF logFd[p] = None THEN table[p] ELSE [table[p] EXCEPT ![logFd[p]] = Closed]

Connect(p, t) ==
  \/ \E k \in Fd : /\ IsLowest(t, k)
                   /\ logFd' = [logFd EXCEPT ![p] = k]
                   /\ table' = [table EXCEPT ![p] = [t EXCEPT ![k] = "syslog"]]
  \/ /\ Full(t)
     /\ logFd' = [logFd EXCEPT ![p] = None]
     /\ table' = [table EXCEPT ![p] = t]

\* When sending fails, it connects anew.
Vsyslog(p) ==
  IF logFd[p] # None /\ table[p][logFd[p]] = "syslog"
  THEN UNCHANGED <<logFd, table>>
  ELSE Connect(p, WithoutLog(p))

\* What the logger has then.
Received(p, m) == IF logFd'[p] # None THEN Append(journal, m) ELSE journal

-----------------------------------------------------------------------------
(* log_msg and open_log.                                                   *)

Daemonized(p) == p = "child"

\* The place of a message among all tells it from the others; level and mode are
\* those in force when it is said, and room is left if a descriptor is.
Message(p, priority) ==
  [who |-> p, k |-> Len(said) + 1, priority |-> priority, level |-> level',
   foreground |-> foreground', room |-> ~Full(table[p])]

Dropped(m) == m.level < m.priority

\* Mutant: a process that has still to become a daemon writes to stdout only.
LogMsg_NotBeforeFork(p, priority) == LET m == Message(p, priority) IN
  /\ said' = Append(said, m)
  /\ IF Dropped(m) THEN UNCHANGED <<table, logs>>
     ELSE IF Daemonized(p)
     THEN Vsyslog(p) /\ journal' = Received(p, m) /\ UNCHANGED <<buffer, screen>>
     ELSE UNCHANGED <<table, logFd>> /\ Vfprintf(p, m, journal)
LogMsg(p, priority) == LET m == Message(p, priority) IN
  /\ said' = Append(said, m)
  /\ IF Dropped(m) THEN UNCHANGED <<table, logs>>
     ELSE IF Daemonized(p)
     THEN Vsyslog(p) /\ journal' = Received(p, m) /\ UNCHANGED <<buffer, screen>>
     ELSE IF ~m.foreground THEN Vsyslog(p) /\ Vfprintf(p, m, Received(p, m))
     ELSE UNCHANGED <<table, logFd>> /\ Vfprintf(p, m, journal)

\* vsyslog has consumed the arguments of the message when vfprintf wants them: what
\* is printed is garbled or, as here, the process dies.
LogMsgCrashes(p, priority) == LET m == Message(p, priority) IN
  /\ ~Dropped(m) /\ ~m.foreground
  /\ said' = Append(said, m)
  /\ Vsyslog(p) /\ journal' = Received(p, m)
  /\ UNCHANGED <<buffer, screen>>

\* Nothing is done when syslog is connected, or believes to be.
OpenLog(p) ==
  /\ pc[p] = "open_log"
  /\ Goto(p, "started")
  /\ IF foreground \/ logFd[p] # None THEN UNCHANGED <<table, logFd>>
     ELSE Connect(p, table[p])
  /\ UNCHANGED <<config, fd, buffer, screen, journal, said, pidFile>>

LogStarted(p) ==
  /\ pc[p] = "started"
  /\ UNCHANGED <<config, fd, pidFile>>
  /\ LogMsg(p, LOG_NOTICE)
  /\ Goto(p, "running")

-----------------------------------------------------------------------------
(* The parent reads the settings: parse_cli, then parse_ini.               *)

ParentAt(here) == pc["parent"] = here /\ UNCHANGED <<buffered, fd, pidFile>>

\* It logs a message, which may have arguments.
Tell(priority, there) ==
  \/ LogMsg("parent", priority) /\ Goto("parent", there)
  \/ LogMsgCrashes("parent", priority) /\ Goto("parent", "crashed")

\* A legal option or entry is stored, then logged; only the file can unset pid_file.
ReadSetting(here) ==
  /\ ParentAt(here) /\ Len(said) < MaxEarly
  /\ \/ foreground' \in BOOLEAN /\ UNCHANGED <<level, pidPath>>
     \/ level' \in Levels /\ UNCHANGED <<foreground, pidPath>>
     \/ pidPath' \in {TRUE, here = "cli"} /\ UNCHANGED <<foreground, level>>
  /\ UNCHANGED verdict
  /\ Tell(LOG_DEBUG, here)

\* What is wrong is logged; an illegal value of the mode or the level resets it.
Refuse(here, priority, there) ==
  /\ ParentAt(here) /\ Len(said) < MaxEarly
  /\ \/ UNCHANGED settings
     \/ foreground' = FALSE /\ UNCHANGED <<level, pidPath>>
     \/ level' = LOG_WARNING /\ UNCHANGED <<foreground, pidPath>>
  /\ verdict' = "refuse"
  /\ Tell(priority, there)

InvalidOption == Refuse("cli", LOG_CRIT, "set")
InvalidEntry == Refuse("ini", LOG_ERR, "ini")

\* The value is logged after the error, too.
LogOption ==
  /\ ParentAt("set") /\ UNCHANGED config
  /\ Tell(LOG_DEBUG, "cli")

UnknownOption ==
  /\ ParentAt("cli") /\ Len(said) < MaxEarly
  /\ UNCHANGED settings /\ verdict' = "refuse"
  /\ Tell(LOG_CRIT, "cli")

\* -h and -v.
AskUsage ==
  /\ ParentAt("cli")
  /\ foreground' = TRUE /\ UNCHANGED <<level, pidPath>>
  /\ verdict' = IF verdict = "refuse" THEN "refuse" ELSE "print"
  /\ UNCHANGED <<pc, table, logs, said>>

LeaveAfterOptions ==
  /\ ParentAt("cli") /\ verdict # "start"
  /\ Goto("parent", "return")
  /\ UNCHANGED <<config, table, logs, said>>

\* The config file has a descriptor while it is read.
OpenConfig ==
  /\ ParentAt("cli") /\ verdict = "start"
  /\ \E k \in Fd : /\ IsLowest(table["parent"], k)
                   /\ table' = [table EXCEPT !["parent"][k] = "config"]
  /\ Goto("parent", "ini")
  /\ UNCHANGED <<config, logs, said>>

OpenConfigFails ==
  /\ ParentAt("cli") /\ verdict = "start" /\ UNCHANGED config
  /\ Tell(LOG_ERR, "return")

\* A line without a name or a bracket, or no memory for it: nothing is logged.
WrongLine ==
  /\ ParentAt("ini")
  /\ verdict' = "refuse"
  /\ UNCHANGED <<settings, pc, table, logs, said>>

WithoutConfig(t) == [k \in Fd |-> IF t[k] = "config" THEN Closed ELSE t[k]]

CloseConfig ==
  /\ ParentAt("ini")
  /\ table' = [table EXCEPT !["parent"] = WithoutConfig(@)]
  /\ Goto("parent", IF verdict = "refuse" THEN "return"
                    ELSE IF foreground THEN "open_log" ELSE "fork")
  /\ UNCHANGED <<config, logs, said>>

\* The child gets a copy of the descriptors, of what syslog knows and of stdout.
Fork ==
  /\ pc["parent"] = "fork"
  /\ pc' = [parent |-> "return", child |-> "session"]
  /\ table' = [table EXCEPT !["child"] = table["parent"]]
  /\ logFd' = [logFd EXCEPT !["child"] = logFd["parent"]]
  /\ buffer' = [buffer EXCEPT !["child"] = buffer["parent"]]
  /\ UNCHANGED <<config, fd, screen, journal, said, pidFile>>

ForkFails ==
  /\ pc["parent"] = "fork"
  /\ Goto("parent", "return")
  /\ UNCHANGED <<config, table, fd, logs, said, pidFile>>

-----------------------------------------------------------------------------
(* The child: become_session_leader, detach_std_io and create_pid_file.    *)

ChildGoes(here, there) == pc["child"] = here /\ Goto("child", there)

\* Any of them may fail; the child logs that and returns from main.
ChildFails(here, priority) ==
  /\ ChildGoes(here, "return")
  /\ UNCHANGED <<config, fd, pidFile>>
  /\ LogMsg("child", priority)

BecomeSessionLeader ==
  /\ ChildGoes("session", "open")
  /\ UNCHANGED <<config, table, fd, logs, said, pidFile>>

OpenDevNull ==
  /\ ChildGoes("open", "stdin")
  /\ \E k \in Fd : /\ IsLowest(table["child"], k)
                   /\ fd' = k
                   /\ table' = [table EXCEPT !["child"][k] = "null"]
  /\ UNCHANGED <<config, logs, said, pidFile>>

Dup2(k) == table' = [table EXCEPT !["child"][k] = table["child"][fd]]

RedirectStdin ==
  /\ ChildGoes("stdin", "stdout") /\ Dup2(0)
  /\ UNCHANGED <<config, fd, logs, said, pidFile>>

\* Mutant: stdout is left as it is.
RedirectStdout_Kept ==
  /\ ChildGoes("stdout", "stderr")
  /\ UNCHANGED <<config, table, fd, logs, said, pidFile>>
RedirectStdout ==
  /\ ChildGoes("stdout", "stderr") /\ Dup2(1)
  /\ UNCHANGED <<config, fd, logs, said, pidFile>>

RedirectStderr ==
  /\ ChildGoes("stderr", "close") /\ Dup2(2)
  /\ UNCHANGED <<config, fd, logs, said, pidFile>>

\* Mutant: a standard descriptor is closed as well.
CloseDevNull_Always ==
  /\ ChildGoes("close", "pid_file")
  /\ table' = [table EXCEPT !["child"][fd] = Closed]
  /\ UNCHANGED <<config, fd, logs, said, pidFile>>
CloseDevNull ==
  /\ ChildGoes("close", "pid_file")
  /\ table' = IF fd > 2 THEN [table EXCEPT !["child"][fd] = Closed] ELSE table
  /\ UNCHANGED <<config, fd, logs, said, pidFile>>

\* Only a warning: the old file is overwritten.
UnlinkPidFails ==
  /\ ChildGoes("pid_file", "write_pid") /\ pidPath
  /\ UNCHANGED <<config, fd, pidFile>>
  /\ LogMsg("child", LOG_WARNING)

\* Mutant: the PID was taken before the fork.
CreatePidFile_Parent(here) ==
  /\ ChildGoes(here, "open_log")
  /\ pidFile' = IF pidPath THEN "parent" ELSE pidFile
  /\ UNCHANGED <<config, table, fd, logs, said>>
CreatePidFile(here) ==
  /\ ChildGoes(here, "open_log")
  /\ pidFile' = IF pidPath THEN "child" ELSE pidFile
  /\ UNCHANGED <<config, table, fd, logs, said>>

-----------------------------------------------------------------------------
(* Leaving main.                                                           *)

\* cleanup_daemon, unless it fails or the set-up did, and the last message; mail is
\* served before.
Terminate(p) ==
  /\ pc[p] = "running"
  /\ pidFile' \in {pidFile, IF Daemonized(p) /\ pidPath THEN None ELSE pidFile}
  /\ UNCHANGED <<config, fd>>
  /\ LogMsg(p, LOG_NOTICE)
  /\ Goto(p, "close_log")

CloseLog(p) ==
  /\ pc[p] = "close_log"
  /\ table' = [table EXCEPT ![p] = WithoutLog(p)]
  /\ logFd' = [logFd EXCEPT ![p] = None]
  /\ Goto(p, "return")
  /\ UNCHANGED <<config, fd, buffer, screen, journal, said, pidFile>>

\* exit writes what is in the buffer of stdout.
Return(p) ==
  /\ pc[p] = "return"
  /\ UNCHANGED <<config, table, fd, logFd, said, pidFile>>
  /\ WriteStdout(p, buffer[p], journal)
  /\ buffer' = [buffer EXCEPT ![p] = <<>>]
  /\ Goto(p, "exited")

ReadCommandLine ==
  \/ ReadSetting("cli") \/ InvalidOption \/ LogOption \/ UnknownOption \/ AskUsage
  \/ LeaveAfterOptions \/ OpenConfig \/ OpenConfigFails

ReadConfig == ReadSetting("ini") \/ InvalidEntry \/ WrongLine \/ CloseConfig

Detach ==
  \/ BecomeSessionLeader \/ OpenDevNull \/ RedirectStdin \/ RedirectStdout
  \/ RedirectStderr \/ CloseDevNull \/ UnlinkPidFails
  \/ CreatePidFile("pid_file") \/ CreatePidFile("write_pid")
  \/ ChildFails("session", LOG_CRIT)
  \/ \E here \in {"session", "open", "stdin", "stdout", "stderr", "close"} :
       ChildFails(here, LOG_ERR)
  \/ pidPath /\ (ChildFails("pid_file", LOG_ERR) \/ ChildFails("write_pid", LOG_ERR))

Next ==
  \/ ReadCommandLine \/ ReadConfig \/ Fork \/ ForkFails \/ Detach
  \/ \E p \in Process : OpenLog(p) \/ LogStarted(p) \/ Terminate(p) \/ CloseLog(p) \/ Return(p)

Spec == Init /\ [][Next]_vars

-----------------------------------------------------------------------------
(* Properties.                                                             *)

Messages == [who : Process, k : Nat, priority : 0..7, level : 0..7,
             foreground : BOOLEAN, room : BOOLEAN]

Places == {"none", "cli", "set", "ini", "fork", "session", "open", "stdin", "stdout", "stderr",
           "close", "pid_file", "write_pid", "open_log", "started", "running", "close_log",
           "return", "exited", "crashed"}

TypeOK ==
  /\ foreground \in BOOLEAN /\ level \in 0..7 /\ pidPath \in BOOLEAN /\ buffered \in BOOLEAN
  /\ verdict \in {"start", "print", "refuse"}
  /\ pc \in [Process -> Places]
  /\ table \in [Process -> [Fd -> {"inherited", "config", "null", "syslog", Closed}]]
  /\ fd \in Fd \cup {None}
  /\ logFd \in [Process -> Fd \cup {None}]
  /\ buffer \in [Process -> Seq(Messages)]
  /\ said \in Seq(Messages) /\ screen \in Seq(Messages) /\ journal \in Seq(Messages)
  /\ pidFile \in Process \cup {None}

\* Whatever descriptors the program was started with, the daemon has /dev/null
\* as its three standard descriptors when detach_std_io returns, and otherwise
\* those it inherited: none is left over, none is lost.
Detached ==
  pc["child"] = "pid_file" =>
    \A k \in Fd : table["child"][k] = IF k <= 2 THEN "null" ELSE table["parent"][k]

\* The standard descriptors stay what they are unless syslog was connected
\* through one of them before the fork, because it had been closed.
StaysDetached ==
  pc["child"] \in {"pid_file", "write_pid", "open_log", "started", "running", "close_log"} =>
    \/ \A k \in 0..2 : table["child"][k] = "null"
    \/ logFd["parent"] \in 0..2

\* What is in the buffer of stdout when the process forks is not written twice,
\* unless the child gives up before it has redirected its own.
GaveUp == \E i \in DOMAIN said : said[i].who = "child" /\ said[i].priority <= LOG_ERR
EachOnce ==
  \/ \A i, j \in DOMAIN screen : screen[i] = screen[j] => i = j
  \/ GaveUp /\ table["child"][1] = "inherited"

\* Whatever level and mode are in force when a message is said, and however both
\* change while the settings are read: through fork, detaching and connecting anew the
\* system logger receives each message that is severe enough then and said in a daemon
\* mode, as long as the process has a descriptor left; it receives no message that was
\* dropped; and it receives none said in the foreground, and none twice or out of order,
\* unless stdout was closed at the start, so that the text written to stdout may reach
\* the logger as well.
Severe(m) == m.priority <= m.level
SyslogComplete ==
  /\ \A k \in DOMAIN said :
       Severe(said[k]) /\ ~said[k].foreground /\ said[k].room =>
         \E i \in DOMAIN journal : journal[i] = said[k]
  /\ \A i \in DOMAIN journal :
       Severe(journal[i]) /\ journal[i].k \in DOMAIN said /\ journal[i] = said[journal[i].k]
  /\ table["parent"][1] = "inherited" =>
       /\ \A i \in DOMAIN journal : ~journal[i].foreground
       /\ \A i, j \in DOMAIN journal : i < j => journal[i].k < journal[j].k

\* The PID file never names the process that returns at once, and names the
\* daemon as long as it runs.
PidFileOfDaemon ==
  /\ pidFile # "parent"
  /\ pidPath /\ pc["child"] \in {"open_log", "started", "running"} => pidFile = "child"
=============================================================================
