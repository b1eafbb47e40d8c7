---------------------------- MODULE DaemonProofs ----------------------------
(***************************************************************************)
(* Proofs about becoming a daemon, for descriptors of any number, in use or *)
(* not in any pattern, any log levels to choose and any number of messages  *)
(* while the settings are read.                                             *)
(***************************************************************************)
EXTENDS Daemon, TLAPS

USE DEF Fd, Process

\* The child has opened /dev/null and not let go of it.
Redirecting == {"stdin", "stdout", "stderr", "close"}
Opened == pc["child"] \in Redirecting => fd \in Fd

-----------------------------------------------------------------------------
(* Types.                                                                  *)

Content == {"inherited", "config", "null", "syslog", Closed}
Table == [Fd -> Content]
Priority == 0..7

LEMMA Priorities ==
  /\ LOG_CRIT \in Priority /\ LOG_ERR \in Priority /\ LOG_WARNING \in Priority
  /\ LOG_NOTICE \in Priority /\ LOG_DEBUG \in Priority
BY DEF LOG_CRIT, LOG_ERR, LOG_WARNING, LOG_NOTICE, LOG_DEBUG, Priority

LEMMA InitTypeOK == Init => TypeOK /\ Opened
<1> SUFFICES ASSUME Init PROVE TypeOK /\ Opened
  OBVIOUS
<1>1. pc \in [Process -> Places] /\ pc["child"] = "none"
  BY DEF Init, Places
<1>2. PICK used \in SUBSET Fd :
        table = [p \in Process |-> [k \in Fd |-> IF p = "parent" /\ k \in used
                                                THEN "inherited" ELSE Closed]]
  BY DEF Init
<1>3. table \in [Process -> Table]
  BY <1>2 DEF Table, Content
<1>4. /\ foreground \in BOOLEAN /\ level \in 0..7 /\ pidPath \in BOOLEAN /\ buffered \in BOOLEAN
      /\ verdict = "start" /\ fd = None /\ logFd = [p \in Process |-> None]
      /\ buffer = [p \in Process |-> <<>>] /\ said = <<>> /\ screen = <<>> /\ journal = <<>>
      /\ pidFile = None
  BY Priorities DEF Init, Priority
<1> QED BY <1>1, <1>3, <1>4 DEF TypeOK, Opened, Redirecting, Table, Content

\* Connecting and disconnecting the system logger.
LEMMA ConnectType ==
  ASSUME TypeOK, NEW p \in Process, NEW t \in Table, Connect(p, t)
  PROVE  /\ table' \in [Process -> Table]
         /\ logFd' \in [Process -> Fd \cup {None}]
<1>1. CASE \E k \in Fd : /\ IsLowest(t, k)
                         /\ logFd' = [logFd EXCEPT ![p] = k]
                         /\ table' = [table EXCEPT ![p] = [t EXCEPT ![k] = "syslog"]]
  <2>1. PICK k \in Fd : /\ logFd' = [logFd EXCEPT ![p] = k]
                        /\ table' = [table EXCEPT ![p] = [t EXCEPT ![k] = "syslog"]]
    BY <1>1
  <2>2. [t EXCEPT ![k] = "syslog"] \in Table
    BY DEF Table, Content
  <2>3. table \in [Process -> Table] /\ logFd \in [Process -> Fd \cup {None}]
    BY DEF TypeOK, Table, Content
  <2> HIDE DEF Fd
  <2> QED BY <2>1, <2>2, <2>3
<1>2. CASE logFd' = [logFd EXCEPT ![p] = None] /\ table' = [table EXCEPT ![p] = t]
  BY <1>2 DEF TypeOK, Table, Content
<1> QED BY <1>1, <1>2 DEF Connect

LEMMA WithoutLogType ==
  ASSUME TypeOK, NEW p \in Process
  PROVE  WithoutLog(p) \in Table
BY DEF WithoutLog, TypeOK, Table, Content

\* A process changes its own descriptors only.
LEMMA ConnectOther ==
  ASSUME TypeOK, NEW p \in Process, NEW t, Connect(p, t)
  PROVE  \A q \in Process \ {p} : table'[q] = table[q] /\ logFd'[q] = logFd[q]
BY DEF Connect, TypeOK

LEMMA VsyslogType ==
  ASSUME TypeOK, NEW p \in Process, Vsyslog(p)
  PROVE  /\ table' \in [Process -> Table]
         /\ logFd' \in [Process -> Fd \cup {None}]
         /\ \A q \in Process \ {p} : table'[q] = table[q] /\ logFd'[q] = logFd[q]
<1>1. CASE UNCHANGED <<logFd, table>>
  BY <1>1 DEF TypeOK, Table, Content
<1>2. CASE Connect(p, WithoutLog(p))
  BY <1>2, ConnectType, ConnectOther, WithoutLogType
<1> QED BY <1>1, <1>2 DEF Vsyslog

LEMMA MessageType ==
  ASSUME TypeOK, NEW p \in Process, NEW priority \in Priority,
         level' \in 0..7, foreground' \in BOOLEAN
  PROVE  /\ Message(p, priority) \in Messages
         /\ Message(p, priority).k = Len(said) + 1 /\ Message(p, priority).who = p
         /\ Message(p, priority).priority = priority
         /\ Message(p, priority).foreground = foreground'
         /\ Message(p, priority).room <=> ~Full(table[p])
<1>1. /\ Message(p, priority).k = Len(said) + 1 /\ Message(p, priority).who = p
      /\ Message(p, priority).priority = priority
      /\ Message(p, priority).foreground = foreground'
  BY DEF Message
<1>2. Message(p, priority).room <=> ~Full(table[p])
  BY DEF Message
<1>3. (~Full(table[p])) \in BOOLEAN
  BY Zenon
<1>4. Len(said) + 1 \in Nat
  BY DEF TypeOK
<1>5. Message(p, priority) \in Messages
  BY <1>3, <1>4 DEF Message, Messages, Priority
<1> QED BY <1>1, <1>2, <1>5

\* What the text of a message may do.
LEMMA WriteStdoutIs ==
  ASSUME TypeOK, NEW p \in Process, NEW s \in Seq(Messages), NEW received \in Seq(Messages),
         WriteStdout(p, s, received)
  PROVE  /\ screen' = screen \/ (table'[p][1] = "inherited" /\ screen' = screen \o s)
         /\ journal' = received \/ (table'[p][1] = "syslog" /\ journal' = received \o s)
         /\ screen' \in Seq(Messages) /\ journal' \in Seq(Messages)
<1>1. screen \in Seq(Messages) /\ screen \o s \in Seq(Messages) /\ received \o s \in Seq(Messages)
  BY DEF TypeOK
<1> QED BY <1>1 DEF WriteStdout

LEMMA VfprintfIs ==
  ASSUME TypeOK, NEW p \in Process, NEW m \in Messages, NEW received \in Seq(Messages),
         Vfprintf(p, m, received)
  PROVE  /\ \/ /\ buffered /\ journal' = received /\ screen' = screen
               /\ buffer' = [buffer EXCEPT ![p] = Append(@, m)]
            \/ /\ ~buffered /\ buffer' = buffer
               /\ screen' = screen \/ (table'[p][1] = "inherited" /\ screen' = Append(screen, m))
               /\ journal' = received \/ (table'[p][1] = "syslog" /\ journal' = Append(received, m))
         /\ buffer' \in [Process -> Seq(Messages)]
         /\ screen' \in Seq(Messages) /\ journal' \in Seq(Messages)
<1>1. /\ screen \in Seq(Messages) /\ buffer \in [Process -> Seq(Messages)] /\ <<m>> \in Seq(Messages)
      /\ Append(buffer[p], m) \in Seq(Messages)
  BY DEF TypeOK
<1>2. screen \o <<m>> = Append(screen, m) /\ received \o <<m>> = Append(received, m)
  BY <1>1
<1>3. CASE buffered
  <2>1. /\ buffer' = [buffer EXCEPT ![p] = Append(@, m)] /\ journal' = received /\ screen' = screen
    BY <1>3 DEF Vfprintf
  <2> HIDE DEF Process
  <2> QED BY <1>1, <1>3, <2>1
<1>4. CASE ~buffered
  <2>1. WriteStdout(p, <<m>>, received) /\ buffer' = buffer
    BY <1>4 DEF Vfprintf
  <2> QED BY <1>1, <1>2, <1>4, <2>1, WriteStdoutIs
<1> QED BY <1>3, <1>4

\* What saying a message may do: it is dropped, sent, sent and written, or written; and
\* only a daemon does not write it.
Says(p, m) ==
  /\ said' = Append(said, m)
  /\ \/ Dropped(m) /\ UNCHANGED <<table, logs>>
     \/ /\ ~Dropped(m) /\ p = "child"
        /\ Vsyslog(p) /\ journal' = Received(p, m) /\ UNCHANGED <<buffer, screen>>
     \/ /\ ~Dropped(m) /\ ~m.foreground /\ p # "child" /\ Vsyslog(p)
        /\ \/ journal' = Received(p, m) /\ UNCHANGED <<buffer, screen>>
           \/ Vfprintf(p, m, Received(p, m))
     \/ /\ ~Dropped(m) /\ m.foreground /\ p # "child"
        /\ UNCHANGED <<table, logFd>> /\ Vfprintf(p, m, journal)

LEMMA LogMsgSays ==
  ASSUME NEW p \in Process, NEW priority,
         LogMsg(p, priority) \/ (p = "parent" /\ LogMsgCrashes(p, priority))
  PROVE  Says(p, Message(p, priority))
<1> DEFINE m == Message(p, priority)
<1>1. \/ LogMsg(p, priority)
      \/ /\ p # "child" /\ ~Dropped(m) /\ ~m.foreground /\ said' = Append(said, m)
         /\ Vsyslog(p) /\ journal' = Received(p, m) /\ UNCHANGED <<buffer, screen>>
  BY DEF LogMsgCrashes
<1> QED BY <1>1, Zenon DEF LogMsg, Says, Daemonized

\* What a message may change.
LogsTyped ==
  /\ table' \in [Process -> Table]
  /\ logFd' \in [Process -> Fd \cup {None}]
  /\ buffer' \in [Process -> Seq(Messages)]
  /\ said' \in Seq(Messages) /\ screen' \in Seq(Messages) /\ journal' \in Seq(Messages)

LEMMA ReceivedType ==
  ASSUME TypeOK, NEW p, NEW m \in Messages
  PROVE  Received(p, m) \in Seq(Messages)
BY DEF Received, TypeOK

LEMMA SaysType ==
  ASSUME TypeOK, NEW p \in Process, NEW m \in Messages, Says(p, m)
  PROVE  LogsTyped /\ \A q \in Process \ {p} : table'[q] = table[q] /\ logFd'[q] = logFd[q]
<1>1. said' \in Seq(Messages)
  BY DEF Says, TypeOK
<1>2. /\ table \in [Process -> Table] /\ logFd \in [Process -> Fd \cup {None}]
      /\ buffer \in [Process -> Seq(Messages)]
      /\ screen \in Seq(Messages) /\ journal \in Seq(Messages)
      /\ Received(p, m) \in Seq(Messages)
  BY ReceivedType DEF TypeOK, Table, Content
<1>3. CASE UNCHANGED <<table, logs>>
  BY <1>1, <1>2, <1>3 DEF LogsTyped, logs
<1>4. CASE Vsyslog(p) /\ journal' = Received(p, m) /\ UNCHANGED <<buffer, screen>>
  BY <1>1, <1>2, <1>4, VsyslogType DEF LogsTyped
<1>5. CASE Vsyslog(p) /\ Vfprintf(p, m, Received(p, m))
  BY <1>1, <1>2, <1>5, VsyslogType, VfprintfIs DEF LogsTyped
<1>6. CASE UNCHANGED <<table, logFd>> /\ Vfprintf(p, m, journal)
  BY <1>1, <1>2, <1>6, VfprintfIs DEF LogsTyped
<1> QED BY <1>3, <1>4, <1>5, <1>6 DEF Says

LEMMA LogMsgType ==
  ASSUME TypeOK, NEW p \in Process, NEW priority \in Priority, LogMsg(p, priority),
         UNCHANGED config
  PROVE  LogsTyped
<1>1. level' \in 0..7 /\ foreground' \in BOOLEAN
  BY DEF TypeOK, config, settings
<1> QED BY <1>1, LogMsgSays, MessageType, SaysType

\* A step of the parent while it reads the settings: it says something or changes
\* descriptors at most.
Reads == {"cli", "set", "ini"}
Reading ==
  /\ pc["parent"] \in Reads
  /\ pc'["parent"] \in Reads \cup {"fork", "open_log", "return", "crashed"}
  /\ pc' = [pc EXCEPT !["parent"] = pc'["parent"]]
  /\ UNCHANGED <<buffered, fd, pidFile>>
  /\ foreground' \in BOOLEAN /\ level' \in 0..7 /\ pidPath' \in BOOLEAN
  /\ verdict' \in {"start", "print", "refuse"}
  /\ pc'["parent"] = "fork" => ~foreground'

Quiet ==
  /\ UNCHANGED <<said, logs>>
  /\ \/ UNCHANGED table
     \/ \E k \in Fd : table["parent"][k] = Closed
                      /\ table' = [table EXCEPT !["parent"][k] = "config"]
     \/ table' = [table EXCEPT !["parent"] = WithoutConfig(@)]

LEMMA TellIs ==
  ASSUME TypeOK, NEW priority \in Priority, NEW there, Tell(priority, there)
  PROVE  /\ Says("parent", Message("parent", priority))
         /\ pc' = [pc EXCEPT !["parent"] = there] \/ pc' = [pc EXCEPT !["parent"] = "crashed"]
BY LogMsgSays DEF Tell, Goto

LEMMA ReadingIs ==
  ASSUME TypeOK, ReadCommandLine \/ ReadConfig
  PROVE  /\ Reading
         /\ Quiet \/ \E priority \in Priority : Says("parent", Message("parent", priority))
<1>0. /\ pc \in [Process -> Places] /\ foreground \in BOOLEAN /\ level \in 0..7
      /\ pidPath \in BOOLEAN /\ verdict \in {"start", "print", "refuse"}
      /\ Levels \subseteq 0..7 /\ LOG_WARNING \in 0..7
  BY LevelsAssumption, Priorities DEF TypeOK, Priority
<1> DEFINE Goal == /\ Reading
                   /\ Quiet \/ \E priority \in Priority : Says("parent", Message("parent", priority))
<1>1. ASSUME NEW priority \in Priority, NEW there \in Reads \cup {"return"}, NEW here \in Reads,
             ParentAt(here), Tell(priority, there),
             foreground' \in BOOLEAN, level' \in 0..7, pidPath' \in BOOLEAN,
             verdict' \in {"start", "print", "refuse"}
      PROVE  Goal
  <2>1. /\ Says("parent", Message("parent", priority))
        /\ pc' = [pc EXCEPT !["parent"] = there] \/ pc' = [pc EXCEPT !["parent"] = "crashed"]
    BY <1>1, TellIs
  <2>2. Reading
    BY <1>0, <1>1, <2>1 DEF Reading, ParentAt, Reads
  <2> QED BY <2>1, <2>2
<1>2. ASSUME NEW here \in {"cli", "ini"}, ReadSetting(here) PROVE Goal
  <2>1. /\ ParentAt(here) /\ Tell(LOG_DEBUG, here) /\ verdict' = verdict
        /\ foreground' \in BOOLEAN /\ level' \in 0..7 /\ pidPath' \in BOOLEAN
    BY <1>0, <1>2 DEF ReadSetting
  <2> QED BY <1>0, <1>1, <2>1, Priorities DEF Reads
<1>3. ASSUME NEW here \in Reads, NEW priority \in Priority, NEW there \in Reads,
             Refuse(here, priority, there)
      PROVE  Goal
  <2>1. /\ ParentAt(here) /\ Tell(priority, there) /\ verdict' = "refuse"
        /\ foreground' \in BOOLEAN /\ level' \in 0..7 /\ pidPath' \in BOOLEAN
    BY <1>0, <1>3 DEF Refuse, settings
  <2> QED BY <1>0, <1>1, <2>1
<1>4. CASE InvalidOption \/ InvalidEntry
  BY <1>3, <1>4, Priorities DEF InvalidOption, InvalidEntry, Reads
<1>5. CASE LogOption
  <2>1. /\ ParentAt("set") /\ Tell(LOG_DEBUG, "cli") /\ verdict' = verdict
        /\ foreground' \in BOOLEAN /\ level' \in 0..7 /\ pidPath' \in BOOLEAN
    BY <1>0, <1>5 DEF LogOption, config, settings
  <2> QED BY <1>0, <1>1, <2>1, Priorities DEF Reads
<1>6. CASE UnknownOption
  <2>1. /\ ParentAt("cli") /\ Tell(LOG_CRIT, "cli") /\ verdict' = "refuse"
        /\ foreground' \in BOOLEAN /\ level' \in 0..7 /\ pidPath' \in BOOLEAN
    BY <1>0, <1>6 DEF UnknownOption, settings
  <2> QED BY <1>0, <1>1, <2>1, Priorities DEF Reads
<1>7. CASE OpenConfigFails
  <2>1. /\ ParentAt("cli") /\ Tell(LOG_ERR, "return") /\ verdict' = verdict
        /\ foreground' \in BOOLEAN /\ level' \in 0..7 /\ pidPath' \in BOOLEAN
    BY <1>0, <1>7 DEF OpenConfigFails, config, settings
  <2> QED BY <1>0, <1>1, <2>1, Priorities DEF Reads
<1>8. CASE AskUsage
  <2>1. Reading
    BY <1>0, <1>8 DEF AskUsage, ParentAt, Reading, Reads
  <2> QED BY <1>8, <2>1 DEF AskUsage, Quiet
<1>9. CASE LeaveAfterOptions
  <2>1. Reading
    BY <1>0, <1>9 DEF LeaveAfterOptions, ParentAt, Reading, Reads, Goto, config, settings
  <2> QED BY <1>9, <2>1 DEF LeaveAfterOptions, Quiet
<1>10. CASE OpenConfig
  <2>1. Reading
    BY <1>0, <1>10 DEF OpenConfig, ParentAt, Reading, Reads, Goto, config, settings
  <2> QED BY <1>10, <2>1 DEF OpenConfig, Quiet, IsLowest
<1>11. CASE WrongLine
  <2>1. Reading
    BY <1>0, <1>11 DEF WrongLine, ParentAt, Reading, Reads, settings
  <2> QED BY <1>11, <2>1 DEF WrongLine, Quiet
<1>12. CASE CloseConfig
  <2>1. Reading
    BY <1>0, <1>12 DEF CloseConfig, ParentAt, Reading, Reads, Goto, config, settings
  <2> QED BY <1>12, <2>1 DEF CloseConfig, Quiet
<1> QED BY <1>2, <1>4, <1>5, <1>6, <1>7, <1>8, <1>9, <1>10, <1>11, <1>12
        DEF ReadCommandLine, ReadConfig

LEMMA QuietType ==
  ASSUME TypeOK, Quiet
  PROVE  LogsTyped /\ table'["child"] = table["child"]
<1>1. table \in [Process -> Table] /\ WithoutConfig(table["parent"]) \in Table
  BY DEF TypeOK, Table, Content, WithoutConfig
<1>2. table' \in [Process -> Table] /\ table'["child"] = table["child"]
  <2>1. CASE UNCHANGED table
    BY <1>1, <2>1
  <2>2. CASE \E k \in Fd : table' = [table EXCEPT !["parent"][k] = "config"]
    BY <2>2 DEF TypeOK, Table, Content
  <2>3. CASE table' = [table EXCEPT !["parent"] = WithoutConfig(@)]
    BY <1>1, <2>3
  <2> QED BY <2>1, <2>2, <2>3 DEF Quiet
<1> QED BY <1>2 DEF Quiet, LogsTyped, logs, TypeOK

LEMMA NextTypeOK == TypeOK /\ Opened /\ [Next]_vars => TypeOK' /\ Opened'
<1> SUFFICES ASSUME TypeOK, Opened, [Next]_vars PROVE TypeOK' /\ Opened'
  OBVIOUS
<1> USE DEF TypeOK, Opened, Redirecting, Table, Content, config, settings, Goto, ChildGoes, Places
<1>1. CASE UNCHANGED vars
  BY <1>1 DEF vars, logs
<1>2. CASE ReadCommandLine \/ ReadConfig
  <2>1. Reading /\ LogsTyped
    <3>1. Reading /\ (Quiet \/ \E priority \in Priority : Says("parent", Message("parent", priority)))
      BY <1>2, ReadingIs
    <3>2. ASSUME NEW priority \in Priority, Says("parent", Message("parent", priority))
          PROVE  LogsTyped
      BY <3>1, <3>2, MessageType, SaysType DEF Reading
    <3> QED BY <3>1, <3>2, QuietType
  <2> QED BY <2>1 DEF Reading, LogsTyped, Reads
<1>5. CASE Fork
  BY <1>5 DEF Fork
<1>6. CASE ForkFails
  BY <1>6 DEF ForkFails, logs
<1>7. CASE BecomeSessionLeader
  BY <1>7 DEF BecomeSessionLeader, logs
<1>8. CASE OpenDevNull
  BY <1>8 DEF OpenDevNull, logs
<1>9. CASE RedirectStdin
  BY <1>9 DEF RedirectStdin, Dup2, logs
<1>10. CASE RedirectStdout
  BY <1>10 DEF RedirectStdout, Dup2, logs
<1>11. CASE RedirectStderr
  BY <1>11 DEF RedirectStderr, Dup2, logs
<1>12. CASE CloseDevNull
  BY <1>12 DEF CloseDevNull, logs
<1>13. ASSUME NEW here, CreatePidFile(here) PROVE TypeOK' /\ Opened'
  BY <1>13 DEF CreatePidFile, logs
<1>14. ASSUME NEW here, NEW priority \in Priority, ChildFails(here, priority)
       PROVE  TypeOK' /\ Opened'
  <2>1. LogsTyped
    BY <1>14, LogMsgType DEF ChildFails
  <2> QED BY <1>14, <2>1 DEF ChildFails, LogsTyped
<1>20. CASE UnlinkPidFails
  <2>1. LogsTyped
    BY <1>20, LogMsgType, Priorities DEF UnlinkPidFails
  <2> QED BY <1>20, <2>1 DEF UnlinkPidFails, LogsTyped
<1>15. ASSUME NEW p \in Process, OpenLog(p) PROVE TypeOK' /\ Opened'
  <2>1. table[p] \in Table
    OBVIOUS
  <2>2. table' \in [Process -> Table] /\ logFd' \in [Process -> Fd \cup {None}]
    BY <1>15, <2>1, ConnectType DEF OpenLog
  <2> QED BY <1>15, <2>2 DEF OpenLog
<1>16. ASSUME NEW p \in Process, LogStarted(p) PROVE TypeOK' /\ Opened'
  <2>1. LogsTyped
    BY <1>16, LogMsgType, Priorities DEF LogStarted
  <2> QED BY <1>16, <2>1 DEF LogStarted, LogsTyped
<1>17. ASSUME NEW p \in Process, Terminate(p) PROVE TypeOK' /\ Opened'
  <2>1. LogsTyped
    BY <1>17, LogMsgType, Priorities DEF Terminate
  <2> QED BY <1>17, <2>1 DEF Terminate, LogsTyped
<1>18. ASSUME NEW p \in Process, CloseLog(p) PROVE TypeOK' /\ Opened'
  BY <1>18, WithoutLogType DEF CloseLog
<1>19. ASSUME NEW p \in Process, Return(p) PROVE TypeOK' /\ Opened'
  <2>1. screen' \in Seq(Messages) /\ journal' \in Seq(Messages)
    BY <1>19, WriteStdoutIs DEF Return
  <2> QED BY <1>19, <2>1 DEF Return
<1> QED BY <1>1, <1>2, <1>5, <1>6, <1>7, <1>8, <1>9, <1>10, <1>11, <1>12, <1>13,
           <1>14, <1>15, <1>16, <1>17, <1>18, <1>19, <1>20, Priorities DEF Next, Detach

LEMMA TypeAlways == Spec => [](TypeOK /\ Opened)
BY InitTypeOK, NextTypeOK, PTL DEF Spec

\* Type correctness: among others, no step of detach_std_io uses the descriptor
\* of /dev/null before there is one.
THEOREM TypeCorrect == Spec => []TypeOK
BY TypeAlways, PTL

-----------------------------------------------------------------------------
(* Detaching.                                                              *)

Redirected == [stdin |-> 0, stdout |-> 1, stderr |-> 2, close |-> 3]

\* How far the child is with the descriptors it got from its parent, which has
\* nothing to do any more but to return; none of them is in the foreground.
Waits == pc["child"] # "none" => pc["parent"] \in {"return", "exited"}
Forked == pc["child"] # "none" \/ pc["parent"] = "fork" => ~foreground
Copied == pc["child"] \in {"session", "open"} => table["child"] = table["parent"]
Replaced ==
  pc["child"] \in Redirecting =>
    /\ table["parent"][fd] = Closed
    /\ \A k \in Fd : table["child"][k] =
         IF k = fd \/ k < Redirected[pc["child"]] THEN "null" ELSE table["parent"][k]

\* Syslog does not believe a standard descriptor to be its own, unless it did so
\* before the fork.
Inherited == pc["child"] \in {"session", "open"} \cup Redirecting => logFd["child"] = logFd["parent"]
Detaching == {"pid_file", "write_pid", "open_log", "started", "running", "close_log"}
Apart ==
  pc["child"] \in Detaching =>
    \/ logFd["parent"] \in 0..2
    \/ logFd["child"] \notin 0..2 /\ \A k \in 0..2 : table["child"][k] = "null"

DInv == Waits /\ Forked /\ Copied /\ Replaced /\ Detached /\ Inherited /\ Apart

\* Steps of the parent, once there is a child, change nothing the child looks at.
ByParent ==
  \/ ReadCommandLine \/ ReadConfig \/ ForkFails
  \/ OpenLog("parent") \/ LogStarted("parent") \/ Terminate("parent")
  \/ CloseLog("parent") \/ Return("parent")

LEMMA ParentLeaves ==
  ASSUME TypeOK, Waits, pc["child"] # "none", ByParent
  PROVE  /\ UNCHANGED <<table, fd, logFd, config>>
         /\ pc'["child"] = pc["child"] /\ pc'["parent"] = "exited"
<1>1. pc["parent"] \in {"return", "exited"}
  BY DEF Waits
<1>2. Return("parent")
  BY <1>1, ReadingIs DEF ByParent, Reading, Reads, ForkFails, OpenLog, LogStarted, Terminate, CloseLog
<1> QED BY <1>2 DEF Return, Goto, TypeOK

LEMMA ParentAlone ==
  ASSUME TypeOK, ByParent
  PROVE  pc'["child"] = pc["child"] /\ (pc'["parent"] = "fork" => ~foreground')
<1>0. pc \in [Process -> Places]
  BY DEF TypeOK
<1>1. CASE ReadCommandLine \/ ReadConfig
  BY <1>0, <1>1, ReadingIs DEF Reading
<1>2. CASE ~(ReadCommandLine \/ ReadConfig)
  BY <1>0, <1>2 DEF ByParent, ForkFails, OpenLog, LogStarted, Terminate, CloseLog, Return, Goto
<1> QED BY <1>1, <1>2

Null(t) == \A k \in 0..2 : t[k] = "null"

\* Syslog connects anew beside the standard descriptors.
LEMMA ConnectApart ==
  ASSUME TypeOK, NEW t \in Table, Connect("child", t), Null(t)
  PROVE  /\ logFd'["child"] \notin 0..2 /\ logFd'["parent"] = logFd["parent"]
         /\ Null(table'["child"]) /\ table'["parent"] = table["parent"]
<1>0. /\ table \in [Process -> Table] /\ logFd \in [Process -> Fd \cup {None}]
      /\ {0, 1, 2} \subseteq Fd /\ None \notin 0..2
  BY FdAssumption, NoneAssumption DEF TypeOK, Table, Content
<1>1. CASE \E k \in Fd : /\ IsLowest(t, k)
                         /\ logFd' = [logFd EXCEPT !["child"] = k]
                         /\ table' = [table EXCEPT !["child"] = [t EXCEPT ![k] = "syslog"]]
  <2>1. PICK k \in Fd : /\ t[k] = Closed
                        /\ logFd' = [logFd EXCEPT !["child"] = k]
                        /\ table' = [table EXCEPT !["child"] = [t EXCEPT ![k] = "syslog"]]
    BY <1>1 DEF IsLowest
  <2>2. k \notin 0..2
    BY <2>1, ContentAssumption DEF Null
  <2>3. table'["child"] = [t EXCEPT ![k] = "syslog"] /\ table'["parent"] = table["parent"]
    BY <1>0, <2>1
  <2> QED BY <1>0, <2>1, <2>2, <2>3 DEF Null, Table
<1>2. CASE logFd' = [logFd EXCEPT !["child"] = None] /\ table' = [table EXCEPT !["child"] = t]
  BY <1>0, <1>2
<1> QED BY <1>1, <1>2 DEF Connect

\* What a message of the child does to descriptors.
LEMMA ChildMessage ==
  ASSUME TypeOK, NEW priority, LogMsg("child", priority)
  PROVE  /\ UNCHANGED <<table, logFd>> \/ Vsyslog("child")
         /\ table'["parent"] = table["parent"] /\ logFd'["parent"] = logFd["parent"]
<1>1. UNCHANGED <<table, logFd>> \/ Vsyslog("child")
  BY DEF LogMsg, logs, Daemonized
<1> QED BY <1>1, VsyslogType

\* So do messages.
LEMMA LogMsgApart ==
  ASSUME TypeOK, NEW priority, LogMsg("child", priority),
         logFd["child"] \notin 0..2, Null(table["child"])
  PROVE  /\ logFd'["child"] \notin 0..2 /\ Null(table'["child"])
<1>1. CASE UNCHANGED <<table, logFd>>
  BY <1>1
<1>2. CASE Connect("child", WithoutLog("child"))
  <2>1. WithoutLog("child") \in Table
    BY WithoutLogType
  <2>2. Null(WithoutLog("child"))
    BY FdAssumption DEF Null, WithoutLog, TypeOK
  <2> QED BY <1>2, <2>1, <2>2, ConnectApart
<1> QED BY <1>1, <1>2, ChildMessage DEF Vsyslog

\* A step of the child that detaches.
Detaches ==
  \/ BecomeSessionLeader \/ OpenDevNull \/ RedirectStdin \/ RedirectStdout
  \/ RedirectStderr \/ CloseDevNull
  \/ \E here \in {"pid_file", "write_pid"} : CreatePidFile(here)

LEMMA DetachInv ==
  ASSUME TypeOK, Opened, DInv, Detaches
  PROVE  DInv'
<1> USE FdAssumption, ContentAssumption, NoneAssumption
    DEF TypeOK, Opened, DInv, Goto, ChildGoes, logs, config, settings, Redirecting, Detaching,
        Waits, Forked, Copied, Inherited, Null
<1>1. CASE BecomeSessionLeader
  BY <1>1 DEF BecomeSessionLeader, Replaced, Detached, Apart
<1>2. CASE OpenDevNull
  <2>1. PICK k \in Fd : /\ table["child"][k] = Closed /\ fd' = k
                        /\ table' = [table EXCEPT !["child"][k] = "null"]
    BY <1>2 DEF OpenDevNull, IsLowest
  <2>2. pc["child"] = "open" /\ pc'["child"] = "stdin" /\ pc'["parent"] = pc["parent"]
        /\ logFd' = logFd /\ foreground' = foreground
    BY <1>2 DEF OpenDevNull
  <2>3. Replaced'
    BY <2>1, <2>2 DEF Replaced, Redirected
  <2> QED BY <2>2, <2>3 DEF Detached, Apart
<1>3. CASE RedirectStdin
  BY <1>3 DEF RedirectStdin, Dup2, Replaced, Redirected, Detached, Apart
<1>4. CASE RedirectStdout
  BY <1>4 DEF RedirectStdout, Dup2, Replaced, Redirected, Detached, Apart
<1>5. CASE RedirectStderr
  BY <1>5 DEF RedirectStderr, Dup2, Replaced, Redirected, Detached, Apart
<1>6. CASE CloseDevNull
  <2>1. pc["child"] = "close" /\ pc'["child"] = "pid_file" /\ pc'["parent"] = pc["parent"]
        /\ logFd' = logFd /\ fd' = fd /\ fd \in Fd /\ table'["parent"] = table["parent"]
        /\ foreground' = foreground
    BY <1>6 DEF CloseDevNull
  <2>0. Redirected["close"] = 3 /\ Replaced /\ pc["child"] \in Redirecting
    BY <2>1 DEF Redirected
  <2>2. /\ table["parent"][fd] = Closed
        /\ \A k \in Fd : table["child"][k] =
             IF k = fd \/ k < 3 THEN "null" ELSE table["parent"][k]
    BY <2>0, <2>1, Zenon DEF Replaced
  <2>3. \A k \in Fd : table'["child"][k] = IF k <= 2 THEN "null" ELSE table["parent"][k]
    <3>1. CASE fd > 2
      BY <1>6, <2>1, <2>2, <3>1 DEF CloseDevNull
    <3>2. CASE ~(fd > 2)
      BY <1>6, <2>1, <2>2, <3>2 DEF CloseDevNull
    <3> QED BY <3>1, <3>2
  <2>4. Detached'
    BY <2>1, <2>3 DEF Detached
  <2>5. Apart'
    BY <2>1, <2>3 DEF Apart
  <2> QED BY <2>1, <2>4, <2>5 DEF Replaced
<1>7. ASSUME NEW here \in {"pid_file", "write_pid"}, CreatePidFile(here) PROVE DInv'
  BY <1>7 DEF CreatePidFile, Replaced, Detached, Apart
<1> QED BY <1>1, <1>2, <1>3, <1>4, <1>5, <1>6, <1>7 DEF Detaches

Stages == {"session", "open", "stdin", "stdout", "stderr", "close", "pid_file", "write_pid"}

\* The other steps of the child.
ChildFailsSomewhere ==
  \E here \in Stages, priority \in {LOG_CRIT, LOG_ERR} : ChildFails(here, priority)

LEMMA ChildInv ==
  ASSUME TypeOK, Opened, DInv,
         OpenLog("child") \/ LogStarted("child") \/ Terminate("child") \/ UnlinkPidFails
         \/ CloseLog("child") \/ Return("child") \/ ChildFailsSomewhere
  PROVE  DInv'
<1> USE DEF TypeOK, DInv, Goto, ChildGoes, Redirecting, Waits, Forked, Copied, Inherited, Replaced,
            Detached, config, settings
<1>1. CASE OpenLog("child")
  <2>1. pc["child"] = "open_log" /\ pc'["child"] = "started" /\ pc'["parent"] = pc["parent"]
        /\ foreground' = foreground
    BY <1>1 DEF OpenLog
  <2>2. logFd'["parent"] = logFd["parent"]
    BY <1>1 DEF OpenLog, Connect
  <2>3. ASSUME logFd["parent"] \notin 0..2
        PROVE  logFd'["child"] \notin 0..2 /\ Null(table'["child"])
    <3>1. logFd["child"] \notin 0..2 /\ Null(table["child"])
      BY <2>1, <2>3 DEF Apart, Detaching, Null
    <3>2. table["child"] \in Table
      BY DEF Table, Content
    <3> QED BY <1>1, <3>1, <3>2, ConnectApart DEF OpenLog
  <2>4. Apart'
    BY <2>1, <2>2, <2>3 DEF Apart, Null
  <2> QED BY <2>1, <2>4
<1>2. CASE LogStarted("child") \/ Terminate("child") \/ UnlinkPidFails
  <2>1. PICK priority : LogMsg("child", priority)
    BY <1>2 DEF LogStarted, Terminate, UnlinkPidFails
  <2>2. /\ pc["child"] \in {"started", "running", "pid_file"}
        /\ pc'["child"] \in {"running", "close_log", "write_pid"}
        /\ pc'["parent"] = pc["parent"] /\ foreground' = foreground
    BY <1>2 DEF LogStarted, Terminate, UnlinkPidFails
  <2>3. logFd'["parent"] = logFd["parent"]
    BY <2>1, ChildMessage
  <2>4. ASSUME logFd["parent"] \notin 0..2
        PROVE  logFd'["child"] \notin 0..2 /\ Null(table'["child"])
    <3>1. logFd["child"] \notin 0..2 /\ Null(table["child"])
      BY <2>2, <2>4 DEF Apart, Detaching, Null
    <3> QED BY <2>1, <3>1, LogMsgApart
  <2>5. Apart'
    BY <2>2, <2>3, <2>4 DEF Apart, Null
  <2> QED BY <2>2, <2>5
<1>3. CASE CloseLog("child") \/ Return("child") \/ ChildFailsSomewhere
  <2>1. /\ pc["child"] # "none" /\ pc'["child"] \in {"return", "exited"}
        /\ pc'["parent"] = pc["parent"] /\ foreground' = foreground
    BY <1>3 DEF CloseLog, Return, ChildFailsSomewhere, ChildFails, Stages
  <2> QED BY <2>1 DEF Apart, Detaching
<1> QED BY <1>1, <1>2, <1>3

\* The steps by kind.
LEMMA NextIs ==
  ASSUME [Next]_vars
  PROVE  \/ UNCHANGED vars \/ Fork \/ ByParent \/ Detaches
         \/ OpenLog("child") \/ LogStarted("child") \/ Terminate("child") \/ UnlinkPidFails
         \/ CloseLog("child") \/ Return("child") \/ ChildFailsSomewhere
BY DEF Next, Detach, ByParent, Detaches, ChildFailsSomewhere, Stages

LEMMA NextDInv == TypeOK /\ Opened /\ DInv /\ [Next]_vars => DInv'
<1> SUFFICES ASSUME TypeOK, Opened, DInv, [Next]_vars PROVE DInv'
  OBVIOUS
<1>1. CASE UNCHANGED vars
  BY <1>1 DEF vars, logs, config, settings, DInv, Waits, Forked, Copied, Replaced, Detached, Inherited, Apart
<1>2. CASE Fork
  BY <1>2 DEF Fork, config, settings, TypeOK, DInv, Waits, Forked, Copied, Replaced, Detached, Inherited,
              Apart, Redirecting, Detaching
<1>3. CASE ByParent /\ pc["child"] = "none"
  <2>1. pc'["child"] = "none" /\ (pc'["parent"] = "fork" => ~foreground')
    BY <1>3, ParentAlone
  <2> QED BY <2>1 DEF DInv, Waits, Forked, Copied, Replaced, Detached, Inherited, Apart, Redirecting, Detaching
<1>4. CASE ByParent /\ pc["child"] # "none"
  <2>1. /\ UNCHANGED <<table, fd, logFd, config>>
        /\ pc'["child"] = pc["child"] /\ pc'["parent"] = "exited"
    BY <1>4, ParentLeaves DEF DInv
  <2> QED BY <1>4, <2>1 DEF DInv, Waits, Forked, Copied, Replaced, Detached, Inherited, Apart, config, settings
<1> QED BY <1>1, <1>2, <1>3, <1>4, NextIs, ChildInv, DetachInv

LEMMA DInvAlways == Spec => [](TypeOK /\ Opened /\ DInv)
<1>1. Init => DInv
  BY DEF Init, DInv, Waits, Forked, Copied, Replaced, Detached, Inherited, Apart, Redirecting, Detaching
<1> QED BY <1>1, NextDInv, TypeAlways, PTL DEF Spec

\* Whichever of any number of descriptors are in use when the program is started,
\* detach_std_io leaves /dev/null on the three standard ones and the others as they
\* were.
THEOREM LeavesNothing == Spec => []Detached
<1>1. DInv => Detached
  BY DEF DInv
<1> QED BY <1>1, DInvAlways, PTL

\* As long as the daemon runs they stay so, unless syslog was connected through a
\* standard descriptor before the fork.
THEOREM StandardStays == Spec => []StaysDetached
<1>1. DInv => StaysDetached
  BY DEF DInv, Apart, Detaching, StaysDetached
<1> QED BY <1>1, DInvAlways, PTL

-----------------------------------------------------------------------------
(* The PID file.                                                           *)

\* Whenever it is there, the PID file names the daemon, and it is there as long
\* as the daemon runs.
THEOREM NamesChild == Spec => []PidFileOfDaemon
<1>1. Init => PidFileOfDaemon
  BY NoneAssumption DEF Init, PidFileOfDaemon
<1>2. TypeOK /\ DInv /\ PidFileOfDaemon /\ [Next]_vars => PidFileOfDaemon'
  <2> SUFFICES ASSUME TypeOK, DInv, PidFileOfDaemon, [Next]_vars PROVE PidFileOfDaemon'
    OBVIOUS
  <2> USE NoneAssumption DEF TypeOK, PidFileOfDaemon, Goto, ChildGoes, config, settings
  <2>1. CASE UNCHANGED vars
    BY <2>1 DEF vars
  <2>2. CASE ReadCommandLine \/ ReadConfig
    <3>1. Reading
      BY <2>2, ReadingIs
    <3>2. pc["child"] = "none"
      BY <3>1 DEF DInv, Waits, Reading, Reads
    <3> QED BY <3>1, <3>2 DEF Reading
  <2>3. CASE Fork \/ ForkFails
    BY <2>3 DEF Fork, ForkFails
  <2>4. CASE BecomeSessionLeader \/ OpenDevNull \/ RedirectStdin \/ RedirectStdout
             \/ RedirectStderr \/ CloseDevNull
    BY <2>4 DEF BecomeSessionLeader, OpenDevNull, RedirectStdin, RedirectStdout,
                RedirectStderr, CloseDevNull
  <2>5. ASSUME NEW here, CreatePidFile(here) PROVE PidFileOfDaemon'
    BY <2>5 DEF CreatePidFile
  <2>6. CASE ChildFailsSomewhere \/ UnlinkPidFails
    BY <2>6 DEF ChildFailsSomewhere, ChildFails, UnlinkPidFails
  <2>7. ASSUME NEW p \in Process, OpenLog(p) \/ LogStarted(p) \/ CloseLog(p) \/ Return(p)
        PROVE  PidFileOfDaemon'
    BY <2>7 DEF OpenLog, LogStarted, CloseLog, Return
  <2>8. ASSUME NEW p \in Process, Terminate(p) PROVE PidFileOfDaemon'
    BY <2>8 DEF Terminate, Daemonized
  <2> QED BY <2>1, <2>2, <2>3, <2>4, <2>5, <2>6, <2>7, <2>8, NextIs DEF ByParent, Detaches
<1> QED BY <1>1, <1>2, DInvAlways, PTL DEF Spec

-----------------------------------------------------------------------------
(* Descriptor 1.  When the program is started with stdout open, syslog's    *)
(* socket never gets it.                                                   *)

OpenStdout == {"inherited", "null"}
StdoutApart ==
  table["parent"][1] = "inherited" =>
    /\ \A p \in Process : logFd[p] # 1
    /\ pc["child"] # "none" => table["child"][1] \in OpenStdout

\* What no step but Fork does otherwise.
StdoutKept(p) ==
  /\ table'[p][1] = "inherited" => table[p][1] = "inherited"
  /\ table[p][1] \in OpenStdout /\ logFd[p] # 1 =>
       table'[p][1] \in {table[p][1], "null"} /\ logFd'[p] # 1

LEMMA ConnectStdout ==
  ASSUME TypeOK, NEW p \in Process, NEW t \in Table, Connect(p, t)
  PROVE  /\ table'[p][1] = "inherited" => t[1] = "inherited"
         /\ t[1] \in OpenStdout => table'[p][1] = t[1] /\ logFd'[p] # 1
<1>0. /\ table \in [Process -> Table] /\ logFd \in [Process -> Fd \cup {None}]
      /\ 1 \in Fd /\ None # 1
  BY FdAssumption, NoneAssumption DEF TypeOK, Table, Content
<1>1. CASE \E k \in Fd : /\ IsLowest(t, k)
                         /\ logFd' = [logFd EXCEPT ![p] = k]
                         /\ table' = [table EXCEPT ![p] = [t EXCEPT ![k] = "syslog"]]
  <2>1. PICK k \in Fd : /\ t[k] = Closed
                        /\ logFd' = [logFd EXCEPT ![p] = k]
                        /\ table' = [table EXCEPT ![p] = [t EXCEPT ![k] = "syslog"]]
    BY <1>1 DEF IsLowest
  <2>2. table'[p] = [t EXCEPT ![k] = "syslog"] /\ logFd'[p] = k
    BY <1>0, <2>1
  <2>3. t[1] \in OpenStdout => k # 1
    BY <2>1, ContentAssumption DEF OpenStdout
  <2> HIDE DEF Fd
  <2> QED BY <1>0, <2>2, <2>3 DEF Table
<1>2. CASE logFd' = [logFd EXCEPT ![p] = None] /\ table' = [table EXCEPT ![p] = t]
  BY <1>0, <1>2
<1> QED BY <1>1, <1>2 DEF Connect

LEMMA WithoutLogStdout ==
  ASSUME TypeOK, NEW p \in Process
  PROVE  /\ WithoutLog(p)[1] = "inherited" => table[p][1] = "inherited"
         /\ logFd[p] # 1 => WithoutLog(p)[1] = table[p][1]
BY FdAssumption, ContentAssumption DEF WithoutLog, TypeOK

LEMMA VsyslogStdout ==
  ASSUME TypeOK, NEW p \in Process, UNCHANGED <<table, logFd>> \/ Vsyslog(p)
  PROVE  StdoutKept(p)
<1>1. CASE UNCHANGED <<table, logFd>>
  BY <1>1 DEF StdoutKept
<1>2. CASE Connect(p, WithoutLog(p))
  <2>1. /\ table'[p][1] = "inherited" => WithoutLog(p)[1] = "inherited"
        /\ WithoutLog(p)[1] \in OpenStdout => table'[p][1] = WithoutLog(p)[1] /\ logFd'[p] # 1
    BY <1>2, WithoutLogType, ConnectStdout
  <2> QED BY <2>1, WithoutLogStdout DEF StdoutKept
<1> QED BY <1>1, <1>2 DEF Vsyslog

LEMMA SaysStdout ==
  ASSUME TypeOK, NEW p \in Process, NEW m \in Messages, Says(p, m)
  PROVE  \A q \in Process : StdoutKept(q)
<1>1. StdoutKept(p)
  BY VsyslogStdout DEF Says, logs
<1>2. \A q \in Process \ {p} : table'[q] = table[q] /\ logFd'[q] = logFd[q]
  BY SaysType
<1> QED BY <1>1, <1>2 DEF StdoutKept

LEMMA LogMsgStdout ==
  ASSUME TypeOK, NEW p \in Process, NEW priority \in Priority, LogMsg(p, priority),
         UNCHANGED config
  PROVE  \A q \in Process : StdoutKept(q)
<1>1. level' \in 0..7 /\ foreground' \in BOOLEAN
  BY DEF TypeOK, config, settings
<1> QED BY <1>1, LogMsgSays, MessageType, SaysStdout

LEMMA QuietStdout ==
  ASSUME TypeOK, Quiet
  PROVE  \A q \in Process : StdoutKept(q)
<1>0. /\ 1 \in Fd /\ logFd' = logFd /\ Closed \notin OpenStdout /\ "config" # Closed
      /\ table \in [Process -> Table]
  BY FdAssumption, ContentAssumption DEF OpenStdout, Quiet, logs, TypeOK, Table, Content
<1>1. CASE UNCHANGED table
  BY <1>0, <1>1 DEF StdoutKept
<1>2. CASE \E k \in Fd : table["parent"][k] = Closed
                         /\ table' = [table EXCEPT !["parent"][k] = "config"]
  <2>1. PICK k \in Fd : table["parent"][k] = Closed
                        /\ table' = [table EXCEPT !["parent"][k] = "config"]
    BY <1>2
  <2>2. /\ table'["child"] = table["child"]
        /\ table'["parent"] = [table["parent"] EXCEPT ![k] = "config"]
    BY <1>0, <2>1
  <2>3. table'["parent"][1] = table["parent"][1] \/ (k = 1 /\ table'["parent"][1] = "config")
    BY <1>0, <2>2 DEF Table
  <2> QED BY <1>0, <2>1, <2>2, <2>3 DEF StdoutKept
<1>3. CASE table' = [table EXCEPT !["parent"] = WithoutConfig(@)]
  <2>1. table'["child"] = table["child"] /\ table'["parent"] = WithoutConfig(table["parent"])
    BY <1>0, <1>3
  <2>2. table'["parent"][1] = IF table["parent"][1] = "config" THEN Closed ELSE table["parent"][1]
    BY <1>0, <2>1 DEF WithoutConfig
  <2>3. "config" \notin OpenStdout /\ Closed # "inherited"
    BY ContentAssumption DEF OpenStdout
  <2> QED BY <1>0, <2>1, <2>2, <2>3 DEF StdoutKept
<1> QED BY <1>1, <1>2, <1>3 DEF Quiet

\* A step of reading the settings.
LEMMA ReadingStdout ==
  ASSUME TypeOK, ReadCommandLine \/ ReadConfig
  PROVE  \A q \in Process : StdoutKept(q)
<1>1. Reading /\ (Quiet \/ \E priority \in Priority : Says("parent", Message("parent", priority)))
  BY ReadingIs
<1>2. ASSUME NEW priority \in Priority, Says("parent", Message("parent", priority))
      PROVE  \A q \in Process : StdoutKept(q)
  BY <1>1, <1>2, MessageType, SaysStdout DEF Reading
<1> QED BY <1>1, <1>2, QuietStdout

\* A step that changes one descriptor of the child, to /dev/null or but the first.
LEMMA NextStdoutKept ==
  ASSUME TypeOK, Opened, DInv, [Next]_vars, ~Fork
  PROVE  \A q \in Process : StdoutKept(q)
<1>0. /\ 1 \in Fd /\ 0 \in Fd /\ 2 \in Fd /\ Closed \notin OpenStdout /\ Closed # "inherited" /\ "null" # "inherited"
      /\ table \in [Process -> Table]
  BY FdAssumption, ContentAssumption DEF OpenStdout, TypeOK, Table, Content
<1>1. CASE UNCHANGED <<table, logFd>>
  BY <1>1 DEF StdoutKept
<1>2. CASE ReadCommandLine \/ ReadConfig
  BY <1>2, ReadingStdout
<1>3. ASSUME NEW p \in Process, LogStarted(p) \/ Terminate(p) PROVE \A q \in Process : StdoutKept(q)
  BY <1>3, LogMsgStdout, Priorities DEF LogStarted, Terminate, config
<1>4. CASE ChildFailsSomewhere \/ UnlinkPidFails
  BY <1>4, LogMsgStdout, Priorities DEF ChildFailsSomewhere, ChildFails, UnlinkPidFails
<1>5. ASSUME NEW p \in Process, OpenLog(p) PROVE \A q \in Process : StdoutKept(q)
  <2>1. CASE UNCHANGED <<table, logFd>>
    BY <1>1, <2>1
  <2>2. CASE Connect(p, table[p])
    <3>1. \A q \in Process \ {p} : StdoutKept(q)
      BY <2>2, ConnectOther DEF StdoutKept
    <3>2. StdoutKept(p)
      BY <1>0, <2>2, ConnectStdout DEF StdoutKept
    <3> QED BY <3>1, <3>2
  <2> QED BY <1>5, <2>1, <2>2 DEF OpenLog
<1>6. ASSUME NEW p \in Process, CloseLog(p) PROVE \A q \in Process : StdoutKept(q)
  <2>1. /\ table'[p] = WithoutLog(p) /\ logFd'[p] = None
        /\ \A q \in Process \ {p} : table'[q] = table[q] /\ logFd'[q] = logFd[q]
    BY <1>6 DEF CloseLog, TypeOK
  <2>2. None # 1
    BY FdAssumption, NoneAssumption
  <2> QED BY <2>1, <2>2, WithoutLogStdout DEF StdoutKept
<1>7. CASE OpenDevNull
  <2>1. PICK k \in Fd : /\ table["child"][k] = Closed /\ logFd' = logFd
                        /\ table' = [table EXCEPT !["child"][k] = "null"]
    BY <1>7 DEF OpenDevNull, IsLowest, logs
  <2>2. /\ table'["parent"] = table["parent"]
        /\ table'["child"][1] = table["child"][1] \/ table'["child"][1] = "null"
    BY <1>0, <2>1 DEF Table
  <2> QED BY <1>0, <2>1, <2>2 DEF StdoutKept
<1>8. CASE RedirectStdin \/ RedirectStdout \/ RedirectStderr
  <2>1. /\ logFd' = logFd /\ pc["child"] \in Redirecting
        /\ \E k \in 0..2 : table' = [table EXCEPT !["child"][k] = table["child"][fd]]
    BY <1>8 DEF RedirectStdin, RedirectStdout, RedirectStderr, ChildGoes, Redirecting, Dup2, logs
  <2>2. fd \in Fd /\ table["child"][fd] = "null"
    BY <2>1 DEF Opened, DInv, Replaced
  <2>3. PICK k \in 0..2 : table' = [table EXCEPT !["child"][k] = "null"]
    BY <2>1, <2>2
  <2>4. /\ table'["parent"] = table["parent"]
        /\ table'["child"][1] = table["child"][1] \/ table'["child"][1] = "null"
    BY <1>0, <2>3 DEF Table
  <2> QED BY <1>0, <2>1, <2>4 DEF StdoutKept
<1>9. CASE CloseDevNull
  <2>1. /\ logFd' = logFd /\ fd \in Fd
        /\ UNCHANGED table \/ (fd > 2 /\ table' = [table EXCEPT !["child"][fd] = Closed])
    BY <1>9 DEF CloseDevNull, ChildGoes, Opened, Redirecting, logs
  <2>2. table'["parent"] = table["parent"] /\ table'["child"][1] = table["child"][1]
    <3>1. CASE UNCHANGED table
      BY <3>1
    <3>2. CASE fd > 2 /\ table' = [table EXCEPT !["child"][fd] = Closed]
      <4>1. fd # 1
        BY <3>2
      <4>2. table'["parent"] = table["parent"] /\ table'["child"] = [table["child"] EXCEPT ![fd] = Closed]
        BY <1>0, <3>2, Zenon DEF Process
      <4> QED BY <1>0, <4>1, <4>2 DEF Table
    <3> QED BY <2>1, <3>1, <3>2
  <2> QED BY <1>0, <2>1, <2>2 DEF StdoutKept
<1>10. CASE UNCHANGED vars \/ ForkFails \/ BecomeSessionLeader
            \/ (\E p \in Process : Return(p)) \/ \E here \in {"pid_file", "write_pid"} : CreatePidFile(here)
  <2>1. UNCHANGED <<table, logFd>>
    BY <1>10 DEF vars, logs, ForkFails, BecomeSessionLeader, Return, CreatePidFile
  <2> QED BY <1>1, <2>1
<1> QED BY <1>2, <1>3, <1>4, <1>5, <1>6, <1>7, <1>8, <1>9, <1>10, NextIs DEF ByParent, Detaches

\* Nobody touches the descriptors of a child that is not there.
LEMMA AloneLog ==
  ASSUME TypeOK, [Next]_vars, ~Fork, pc["child"] = "none"
  PROVE  logFd'["child"] = logFd["child"]
<1>0. UNCHANGED vars \/ ByParent
  BY NextIs DEF Detaches, BecomeSessionLeader, OpenDevNull, RedirectStdin, RedirectStdout,
     RedirectStderr, CloseDevNull, CreatePidFile, UnlinkPidFails, ChildFailsSomewhere, ChildFails,
     ChildGoes, OpenLog, LogStarted, Terminate, CloseLog, Return, Stages
<1>1. CASE ReadCommandLine \/ ReadConfig
  <2>1. Reading /\ (Quiet \/ \E priority \in Priority : Says("parent", Message("parent", priority)))
    BY <1>1, ReadingIs
  <2>2. ASSUME NEW priority \in Priority, Says("parent", Message("parent", priority))
        PROVE  logFd'["child"] = logFd["child"]
    BY <2>1, <2>2, MessageType, SaysType DEF Reading
  <2> QED BY <2>1, <2>2 DEF Quiet, logs
<1>2. CASE OpenLog("parent")
  BY <1>2, ConnectOther DEF OpenLog
<1>3. CASE LogStarted("parent") \/ Terminate("parent")
  <2>1. PICK priority \in Priority : LogMsg("parent", priority) /\ UNCHANGED config
    BY <1>3, Priorities DEF LogStarted, Terminate
  <2>2. level' \in 0..7 /\ foreground' \in BOOLEAN
    BY <2>1 DEF TypeOK, config, settings
  <2> QED BY <2>1, <2>2, LogMsgSays, MessageType, SaysType
<1>4. CASE UNCHANGED vars \/ ForkFails \/ CloseLog("parent") \/ Return("parent")
  BY <1>4 DEF vars, logs, ForkFails, CloseLog, Return, TypeOK
<1> QED BY <1>0, <1>1, <1>2, <1>3, <1>4 DEF ByParent

LEMMA NextStdout == TypeOK /\ Opened /\ DInv /\ StdoutApart /\ [Next]_vars => StdoutApart'
<1> SUFFICES ASSUME TypeOK, Opened, DInv, StdoutApart, [Next]_vars PROVE StdoutApart'
  OBVIOUS
<1>1. CASE Fork
  <2>1. /\ table'["parent"] = table["parent"] /\ table'["child"] = table["parent"]
        /\ logFd'["parent"] = logFd["parent"] /\ logFd'["child"] = logFd["parent"]
    BY <1>1 DEF Fork, TypeOK
  <2> QED BY <2>1 DEF StdoutApart, OpenStdout
<1>2. CASE ~Fork
  <2>1. \A q \in Process : StdoutKept(q)
    BY <1>2, NextStdoutKept
  <2>2. pc'["child"] # "none" => pc["child"] # "none"
    <3>0. pc \in [Process -> Places]
      BY DEF TypeOK
    <3>1. CASE ByParent
      BY <3>1, ParentAlone
    <3>2. CASE UNCHANGED vars
      BY <3>2 DEF vars
    <3>3. CASE ~ByParent /\ ~UNCHANGED vars
      BY <1>2, <3>0, <3>3, NextIs DEF Detaches, BecomeSessionLeader, OpenDevNull, RedirectStdin, RedirectStdout,
         RedirectStderr, CloseDevNull, CreatePidFile, UnlinkPidFails, ChildFailsSomewhere, ChildFails,
         ChildGoes, OpenLog, LogStarted, Terminate, CloseLog, Return, Stages
    <3> QED BY <3>1, <3>2, <3>3
  <2> SUFFICES ASSUME table'["parent"][1] = "inherited"
               PROVE  /\ \A p \in Process : logFd'[p] # 1
                      /\ pc'["child"] # "none" => table'["child"][1] \in OpenStdout
    BY DEF StdoutApart
  <2>3. table["parent"][1] = "inherited"
    BY <2>1 DEF StdoutKept
  <2>4. /\ logFd["parent"] # 1 /\ logFd["child"] # 1
        /\ pc["child"] # "none" => table["child"][1] \in OpenStdout
    BY <2>3 DEF StdoutApart
  <2>5. logFd'["parent"] # 1
    BY <2>1, <2>3, <2>4 DEF StdoutKept, OpenStdout
  <2>6. CASE pc["child"] # "none"
    <3>1. logFd'["child"] # 1 /\ table'["child"][1] \in OpenStdout
      BY <2>1, <2>4, <2>6 DEF StdoutKept, OpenStdout
    <3> QED BY <2>5, <3>1
  <2>7. CASE pc["child"] = "none"
    <3>1. logFd'["child"] = logFd["child"]
      BY <1>2, <2>7, NextIs, AloneLog
    <3> QED BY <2>2, <2>4, <2>5, <2>7, <3>1
  <2> QED BY <2>6, <2>7
<1> QED BY <1>1, <1>2

LEMMA StdoutAlways == Spec => [](TypeOK /\ Opened /\ DInv /\ StdoutApart)
<1>1. Init => StdoutApart
  BY FdAssumption, NoneAssumption DEF Init, StdoutApart
<1> QED BY <1>1, NextStdout, DInvAlways, PTL DEF Spec

-----------------------------------------------------------------------------
(* Messages.  One is known when it is in its place among those said.       *)

Known(all, m) == m.k \in DOMAIN all /\ m = all[m.k]
KnownAll(all, s) == \A i \in DOMAIN s : Known(all, s[i])
Sound(all, s) == KnownAll(all, s) /\ \A i \in DOMAIN s : Severe(s[i])

\* A new message is known, and so are the old ones, which come before it.
LEMMA KnownAppend ==
  ASSUME NEW all \in Seq(Messages), NEW m \in Messages, m.k = Len(all) + 1
  PROVE  /\ Known(Append(all, m), m)
         /\ \A x : Known(all, x) => Known(Append(all, m), x) /\ x.k < m.k /\ x # m
<1>1. /\ Append(all, m) \in Seq(Messages) /\ DOMAIN all = 1..Len(all) /\ Len(all) \in Nat
      /\ DOMAIN Append(all, m) = 1..(Len(all) + 1)
      /\ Append(all, m)[Len(all) + 1] = m
      /\ \A k \in DOMAIN all : Append(all, m)[k] = all[k]
  OBVIOUS
<1>2. ASSUME NEW x, Known(all, x) PROVE Known(Append(all, m), x) /\ x.k < m.k /\ x # m
  <2>1. x.k \in 1..Len(all) /\ x = all[x.k]
    BY <1>1, <1>2 DEF Known
  <2>2. x.k \in 1..(Len(all) + 1) /\ x.k < Len(all) + 1
    BY <1>1, <2>1
  <2>3. x.k # m.k
    BY <1>1, <2>1
  <2> QED BY <1>1, <2>1, <2>2, <2>3 DEF Known
<1> QED BY <1>1, <1>2 DEF Known

LEMMA KnownAllKept ==
  ASSUME NEW all \in Seq(Messages), NEW m \in Messages, m.k = Len(all) + 1, NEW s
  PROVE  /\ KnownAll(all, s) => KnownAll(Append(all, m), s)
         /\ Sound(all, s) => Sound(Append(all, m), s)
BY KnownAppend DEF KnownAll, Sound

\* All of a longer sequence is known.
LEMMA KnownAllAppend ==
  ASSUME NEW all, NEW s \in Seq(Messages), NEW m \in Messages, Known(all, m)
  PROVE  /\ KnownAll(all, s) => KnownAll(all, Append(s, m))
         /\ Sound(all, s) /\ Severe(m) => Sound(all, Append(s, m))
<1>1. \A i \in DOMAIN Append(s, m) : Append(s, m)[i] = m \/ (i \in DOMAIN s /\ Append(s, m)[i] = s[i])
  OBVIOUS
<1> QED BY <1>1, Zenon DEF KnownAll, Sound

LEMMA KnownAllConcat ==
  ASSUME NEW all, NEW s \in Seq(Messages), NEW t \in Seq(Messages)
  PROVE  /\ KnownAll(all, s) /\ KnownAll(all, t) => KnownAll(all, s \o t)
         /\ Sound(all, s) /\ Sound(all, t) => Sound(all, s \o t)
<1>1. ASSUME NEW i \in DOMAIN (s \o t)
      PROVE  \/ i \in DOMAIN s /\ (s \o t)[i] = s[i]
             \/ i - Len(s) \in DOMAIN t /\ (s \o t)[i] = t[i - Len(s)]
  OBVIOUS
<1> QED BY <1>1 DEF KnownAll, Sound

LEMMA KnownAllEmpty ==
  ASSUME NEW all
  PROVE  KnownAll(all, <<>>) /\ Sound(all, <<>>)
BY DEF KnownAll, Sound

-----------------------------------------------------------------------------
(* The system logger has every message due, and in order if text written to *)
(* stdout does not reach it.                                               *)

Due(m) == Severe(m) /\ ~m.foreground /\ m.room
HasAll(all, s) == \A k \in DOMAIN all : Due(all[k]) => \E i \in DOMAIN s : s[i] = all[k]
InOrder(s) ==
  /\ \A i \in DOMAIN s : ~s[i].foreground
  /\ \A i, j \in DOMAIN s : i < j => s[i].k < s[j].k

SysInv ==
  /\ Sound(said, journal)
  /\ \A p \in Process : Sound(said, buffer[p])
  /\ HasAll(said, journal)
  /\ table["parent"][1] = "inherited" => InOrder(journal)

LEMMA SysInvImplies == SysInv => SyslogComplete
BY Zenon DEF SysInv, Sound, KnownAll, Known, HasAll, Due, InOrder, SyslogComplete

LEMMA HasAllMore ==
  ASSUME NEW all, NEW s \in Seq(Messages), NEW t \in Seq(Messages), NEW m \in Messages, HasAll(all, s)
  PROVE  HasAll(all, Append(s, m)) /\ HasAll(all, s \o t)
<1>1. \A i \in DOMAIN s : /\ i \in DOMAIN Append(s, m) /\ Append(s, m)[i] = s[i]
                          /\ i \in DOMAIN (s \o t) /\ (s \o t)[i] = s[i]
  OBVIOUS
<1> QED BY <1>1, Zenon DEF HasAll

LEMMA HasAllSaid ==
  ASSUME NEW all \in Seq(Messages), NEW s \in Seq(Messages), NEW m \in Messages, HasAll(all, s)
  PROVE  /\ HasAll(Append(all, m), Append(s, m))
         /\ ~Due(m) => HasAll(Append(all, m), s)
<1>1. \A k \in DOMAIN Append(all, m) :
        Append(all, m)[k] = m \/ (k \in DOMAIN all /\ Append(all, m)[k] = all[k])
  OBVIOUS
<1>2. /\ \A i \in DOMAIN s : i \in DOMAIN Append(s, m) /\ Append(s, m)[i] = s[i]
      /\ Len(s) + 1 \in DOMAIN Append(s, m) /\ Append(s, m)[Len(s) + 1] = m
  OBVIOUS
<1>3. HasAll(Append(all, m), Append(s, m))
  BY <1>1, <1>2, Zenon DEF HasAll
<1>4. ~Due(m) => HasAll(Append(all, m), s)
  BY <1>1, Zenon DEF HasAll
<1> QED BY <1>3, <1>4

LEMMA InOrderAppend ==
  ASSUME NEW all \in Seq(Messages), NEW s \in Seq(Messages), NEW m \in Messages,
         m.k = Len(all) + 1, ~m.foreground, KnownAll(all, s), InOrder(s)
  PROVE  InOrder(Append(s, m))
<1>0. /\ \A i \in DOMAIN Append(s, m) :
           \/ i = Len(s) + 1 /\ Append(s, m)[i] = m
           \/ i \in DOMAIN s /\ i <= Len(s) /\ Append(s, m)[i] = s[i]
      /\ DOMAIN Append(s, m) \subseteq Int /\ Len(s) \in Nat
  OBVIOUS
<1>1. \A i \in DOMAIN Append(s, m) : ~Append(s, m)[i].foreground
  BY <1>0, Zenon DEF InOrder
<1>2. ASSUME NEW i \in DOMAIN Append(s, m), NEW j \in DOMAIN Append(s, m), i < j
      PROVE  Append(s, m)[i].k < Append(s, m)[j].k
  <2>1. i \in DOMAIN s /\ Append(s, m)[i] = s[i]
    BY <1>0, <1>2
  <2>2. CASE j \in DOMAIN s /\ Append(s, m)[j] = s[j]
    BY <1>2, <2>1, <2>2 DEF InOrder
  <2>3. CASE Append(s, m)[j] = m
    <3>1. Known(all, s[i])
      BY <2>1, Zenon DEF KnownAll
    <3> QED BY <2>1, <2>3, <3>1, KnownAppend
  <2> QED BY <1>0, <2>2, <2>3
<1> QED BY <1>1, <1>2 DEF InOrder

\* syslog(3) sends the message if the process has a descriptor left.
LEMMA VsyslogSends ==
  ASSUME TypeOK, NEW p \in Process, Vsyslog(p), ~Full(table[p])
  PROVE  logFd'[p] # None
<1>1. CASE logFd[p] # None /\ UNCHANGED logFd
  BY <1>1
<1>2. CASE Connect(p, WithoutLog(p))
  <2>1. PICK k \in Fd : table[p][k] = Closed
    BY DEF Full
  <2>2. WithoutLog(p)[k] = Closed
    BY <2>1 DEF WithoutLog, TypeOK
  <2>3. ~Full(WithoutLog(p))
    BY <2>2 DEF Full
  <2>4. PICK j \in Fd : logFd' = [logFd EXCEPT ![p] = j]
    BY <1>2, <2>3 DEF Connect
  <2> QED BY <2>4, NoneAssumption DEF TypeOK
<1> QED BY <1>1, <1>2 DEF Vsyslog

\* What the logger and the buffers have after a message that is not dropped: first what
\* syslog(3) sends, then the text.
LEMMA SaysTo ==
  ASSUME TypeOK, NEW p \in Process, NEW m \in Messages, Says(p, m), ~Dropped(m),
         p = "child" => ~m.foreground, m.room <=> ~Full(table[p])
  PROVE  /\ \E received \in {journal, Append(journal, m)} :
              /\ Due(m) => received = Append(journal, m)
              /\ m.foreground => received = journal
              /\ \/ journal' = received
                 \/ /\ journal' = Append(received, m)
                    /\ p = "parent" /\ table'[p][1] = "syslog"
         /\ buffer' = buffer \/ buffer' = [buffer EXCEPT ![p] = Append(@, m)]
<1>0. /\ Received(p, m) \in {journal, Append(journal, m)} /\ journal \in Seq(Messages)
      /\ Received(p, m) \in Seq(Messages)
  BY ReceivedType DEF Received, TypeOK
<1>1. CASE Vsyslog(p) /\ ~m.foreground
  <2>1. Due(m) => Received(p, m) = Append(journal, m)
    BY <1>1, VsyslogSends DEF Due, Received
  <2>2. CASE journal' = Received(p, m) /\ UNCHANGED buffer
    BY <1>0, <1>1, <2>1, <2>2
  <2>3. CASE p # "child" /\ Vfprintf(p, m, Received(p, m))
    <3>1. /\ buffer' = buffer \/ buffer' = [buffer EXCEPT ![p] = Append(@, m)]
          /\ \/ journal' = Received(p, m)
             \/ table'[p][1] = "syslog" /\ journal' = Append(Received(p, m), m)
      BY <1>0, <2>3, VfprintfIs
    <3> QED BY <1>0, <1>1, <2>1, <2>3, <3>1
  <2> QED BY <1>1, <2>2, <2>3 DEF Says, logs
<1>2. CASE m.foreground
  <2>1. p # "child" /\ Vfprintf(p, m, journal)
    BY <1>2 DEF Says
  <2>2. /\ buffer' = buffer \/ buffer' = [buffer EXCEPT ![p] = Append(@, m)]
        /\ \/ journal' = journal
           \/ table'[p][1] = "syslog" /\ journal' = Append(journal, m)
    BY <1>0, <2>1, VfprintfIs
  <2> QED BY <1>2, <2>1, <2>2 DEF Due
<1> QED BY <1>1, <1>2 DEF Says

LEMMA SaysSys ==
  ASSUME TypeOK, SysInv, NEW p \in Process, NEW priority \in Priority,
         level' \in 0..7, foreground' \in BOOLEAN, p = "child" => ~foreground',
         Says(p, Message(p, priority)), StdoutKept("parent")
  PROVE  SysInv'
<1> DEFINE m == Message(p, priority)
<1>1. /\ m \in Messages /\ m.k = Len(said) + 1 /\ (p = "child" => ~m.foreground)
      /\ m.room <=> ~Full(table[p])
      /\ said' = Append(said, m) /\ Says(p, m)
  BY MessageType DEF Says
<1>2. Severe(m) <=> ~Dropped(m)
  BY <1>1 DEF Severe, Dropped, Messages
<1> HIDE DEF m
<1>3. /\ said \in Seq(Messages) /\ journal \in Seq(Messages)
      /\ buffer \in [Process -> Seq(Messages)]
  BY DEF TypeOK
<1>4. Known(said', m) /\ \A s : Sound(said, s) => Sound(said', s)
  BY <1>1, <1>3, KnownAppend, KnownAllKept
<1>5. Sound(said, journal) /\ HasAll(said, journal) /\ \A q \in Process : Sound(said, buffer[q])
  BY DEF SysInv
<1>6. table'["parent"][1] = "inherited" => InOrder(journal)
  BY DEF SysInv, StdoutKept
<1>7. CASE Dropped(m)
  <2>1. UNCHANGED <<journal, buffer, table>>
    BY <1>1, <1>7 DEF Says, logs
  <2>2. HasAll(said', journal)
    BY <1>1, <1>2, <1>3, <1>5, <1>7, HasAllSaid DEF Due
  <2> QED BY <1>4, <1>5, <1>6, <2>1, <2>2 DEF SysInv
<1>8. CASE ~Dropped(m)
  <2>1. PICK received \in {journal, Append(journal, m)} :
           /\ Due(m) => received = Append(journal, m)
           /\ m.foreground => received = journal
           /\ \/ journal' = received
              \/ journal' = Append(received, m) /\ p = "parent" /\ table'[p][1] = "syslog"
    BY <1>1, <1>8, SaysTo
  <2>2. received \in Seq(Messages)
    <3>1. Append(journal, m) \in Seq(Messages)
      BY <1>1, <1>3
    <3> QED BY <1>3, <2>1, <3>1
  <2>3. Sound(said', received)
    BY <1>1, <1>2, <1>3, <1>4, <1>5, <1>8, KnownAllAppend
  <2>4. HasAll(said', received)
    BY <1>1, <1>3, <1>5, <2>1, HasAllSaid
  <2>5. Sound(said', journal') /\ HasAll(said', journal')
    BY <1>1, <1>2, <1>4, <1>8, <2>1, <2>2, <2>3, <2>4, KnownAllAppend, HasAllMore
  <2>6. ASSUME NEW q \in Process PROVE Sound(said', buffer'[q])
    <3>1. buffer' = buffer \/ buffer' = [buffer EXCEPT ![p] = Append(@, m)]
      BY <1>1, <1>8, SaysTo
    <3>2. buffer'[q] = buffer[q] \/ buffer'[q] = Append(buffer[q], m)
      BY <1>3, <3>1, Zenon
    <3> QED BY <1>1, <1>2, <1>3, <1>4, <1>5, <1>8, <3>2, KnownAllAppend
  <2>7. ASSUME table'["parent"][1] = "inherited" PROVE InOrder(journal')
    <3>1. journal' = received
      BY <2>1, <2>7
    <3>2. InOrder(received)
      <4>1. CASE received = journal
        BY <1>6, <2>7, <4>1
      <4>2. CASE received = Append(journal, m) /\ ~m.foreground
        BY <1>1, <1>3, <1>5, <1>6, <2>7, <4>2, InOrderAppend DEF Sound
      <4> QED BY <2>1, <4>1, <4>2
    <3> QED BY <3>1, <3>2
  <2> QED BY <2>5, <2>6, <2>7 DEF SysInv
<1> QED BY <1>7, <1>8

\* A step that says nothing, and at most copies a buffer.
LEMMA SilentSys ==
  ASSUME SysInv, UNCHANGED <<said, journal>>,
         \A p \in Process : \E q \in Process : buffer'[p] = buffer[q],
         table'["parent"][1] = "inherited" => table["parent"][1] = "inherited"
  PROVE  SysInv'
BY DEF SysInv

LEMMA ReturnSys ==
  ASSUME TypeOK, StdoutApart, SysInv, NEW p \in Process, Return(p)
  PROVE  SysInv'
<1>1. /\ pc[p] = "return" /\ table' = table /\ said' = said /\ WriteStdout(p, buffer[p], journal)
      /\ buffer'[p] = <<>> /\ \A q \in Process \ {p} : buffer'[q] = buffer[q]
  BY DEF Return, TypeOK
<1>2. said \in Seq(Messages) /\ journal \in Seq(Messages) /\ buffer[p] \in Seq(Messages)
  BY DEF TypeOK
<1>3. journal' = journal \/ (table[p][1] = "syslog" /\ journal' = journal \o buffer[p])
  BY <1>1, <1>2, WriteStdoutIs
<1>4. Sound(said, journal) /\ HasAll(said, journal) /\ \A q \in Process : Sound(said, buffer[q])
  BY DEF SysInv
<1>5. Sound(said, journal') /\ HasAll(said, journal')
  <2>1. CASE journal' = journal
    BY <1>4, <2>1
  <2>2. CASE journal' = journal \o buffer[p]
    <3>1. Sound(said, journal \o buffer[p])
      BY <1>2, <1>4, KnownAllConcat
    <3>2. HasAll(said, journal \o buffer[p])
      <4>1. \A i \in DOMAIN journal :
              i \in DOMAIN (journal \o buffer[p]) /\ (journal \o buffer[p])[i] = journal[i]
        BY <1>2
      <4> QED BY <1>4, <4>1, Zenon DEF HasAll
    <3> QED BY <2>2, <3>1, <3>2
  <2> QED BY <1>3, <2>1, <2>2
<1>6. \A q \in Process : Sound(said, buffer'[q])
  BY <1>1, <1>4, KnownAllEmpty
<1>7. ASSUME table["parent"][1] = "inherited" PROVE journal' = journal
  <2>1. p = "child" => table["child"][1] \in OpenStdout
    BY <1>1, <1>7 DEF StdoutApart
  <2> QED BY <1>3, <1>7, <2>1 DEF OpenStdout
<1> QED BY <1>1, <1>5, <1>6, <1>7 DEF SysInv

LEMMA NextSysInv == TypeOK /\ Opened /\ DInv /\ StdoutApart /\ SysInv /\ [Next]_vars => SysInv'
<1> SUFFICES ASSUME TypeOK, Opened, DInv, StdoutApart, SysInv, [Next]_vars PROVE SysInv'
  OBVIOUS
<1>p. pc["child"] # "none" => ~foreground
  BY DEF DInv, Forked
<1>k. ~Fork => StdoutKept("parent")
  BY NextStdoutKept
<1>1. ASSUME NEW p \in Process, NEW priority \in Priority, LogMsg(p, priority), UNCHANGED config,
             pc[p] # "none", ~Fork
      PROVE  SysInv'
  <2>1. level' \in 0..7 /\ foreground' \in BOOLEAN /\ (p = "child" => ~foreground')
    BY <1>1, <1>p DEF TypeOK, config, settings
  <2> QED BY <1>1, <1>k, <2>1, LogMsgSays, SaysSys
<1>2. CASE Fork
  <2>1. /\ UNCHANGED <<said, journal>> /\ table'["parent"] = table["parent"]
        /\ buffer'["child"] = buffer["parent"] /\ buffer'["parent"] = buffer["parent"]
    BY <1>2 DEF Fork, TypeOK
  <2> QED BY <2>1, SilentSys
<1>3. CASE ReadCommandLine \/ ReadConfig
  <2>1. Reading /\ (Quiet \/ \E priority \in Priority : Says("parent", Message("parent", priority)))
    BY <1>3, ReadingIs
  <2>2. StdoutKept("parent")
    BY <1>3, ReadingStdout
  <2>3. CASE Quiet
    BY <2>2, <2>3, SilentSys DEF Quiet, logs, StdoutKept
  <2>4. ASSUME NEW priority \in Priority, Says("parent", Message("parent", priority)) PROVE SysInv'
    BY <2>1, <2>2, <2>4, SaysSys DEF Reading
  <2> QED BY <2>1, <2>3, <2>4
<1>4. ASSUME NEW p \in Process, LogStarted(p) \/ Terminate(p), ~Fork PROVE SysInv'
  BY <1>1, <1>4, Priorities DEF LogStarted, Terminate
<1>5. CASE (ChildFailsSomewhere \/ UnlinkPidFails) /\ ~Fork
  <2>1. \E priority \in Priority : LogMsg("child", priority)
    BY <1>5, Priorities DEF ChildFailsSomewhere, ChildFails, UnlinkPidFails
  <2>2. pc["child"] # "none" /\ UNCHANGED config
    BY <1>5 DEF ChildFailsSomewhere, ChildFails, UnlinkPidFails, ChildGoes, Stages
  <2> QED BY <1>1, <1>5, <2>1, <2>2
<1>6. ASSUME NEW p \in Process, Return(p) PROVE SysInv'
  BY <1>6, ReturnSys
<1>7. ASSUME UNCHANGED <<said, journal, buffer>>, ~Fork PROVE SysInv'
  BY <1>7, <1>k, SilentSys DEF StdoutKept
<1>8. CASE /\ ~Fork
           /\ \/ UNCHANGED vars \/ Detaches \/ ForkFails
              \/ \E p \in Process : OpenLog(p) \/ CloseLog(p)
  <2>1. UNCHANGED <<said, journal, buffer>>
    BY <1>8 DEF vars, logs, Detaches, ForkFails, OpenLog, CloseLog, BecomeSessionLeader, OpenDevNull,
      RedirectStdin, RedirectStdout, RedirectStderr, CloseDevNull, CreatePidFile
  <2> QED BY <1>7, <1>8, <2>1
<1> QED BY <1>2, <1>3, <1>4, <1>5, <1>6, <1>8, NextIs DEF ByParent

LEMMA SysInvAlways == Spec => [](TypeOK /\ Opened /\ DInv /\ StdoutApart /\ SysInv)
<1>1. Init => SysInv
  <2> SUFFICES ASSUME Init PROVE SysInv
    OBVIOUS
  <2>1. said = <<>> /\ journal = <<>> /\ \A p \in Process : buffer[p] = <<>>
    BY DEF Init
  <2> QED BY <2>1, KnownAllEmpty DEF SysInv, InOrder, HasAll
<1> QED BY <1>1, NextSysInv, StdoutAlways, PTL DEF Spec

\* However level and mode change while the settings are read, through fork, detaching
\* and connecting anew, whatever descriptors are in use: the system logger receives every
\* message that is severe enough and said in a daemon mode, unless the process had no
\* descriptor left; and none that was dropped.  If stdout was open at the start it
\* receives each once, in order, and none said in the foreground.
THEOREM LoggerReceivesAll == Spec => []SyslogComplete
BY SysInvAlways, SysInvImplies, PTL

-----------------------------------------------------------------------------
(* The terminal.                                                           *)

NoTwice(s) == \A i, j \in DOMAIN s : s[i] = s[j] => i = j

\* The child gave up with the stdout it inherited, and wrote to it what its parent
\* writes, too.
Spilled == GaveUp /\ table["child"][1] = "inherited" /\ pc["child"] \in {"return", "exited"}

\* Once it has redirected its stdout it never writes to the inherited one.
Muted ==
  /\ pc["child"] \in {"stderr", "close"} \cup Detaching => table["child"][1] # "inherited"
  /\ pc["child"] = "return" /\ table["child"][1] = "inherited" => GaveUp

\* Messages wait in the buffers or, if there are none, are on the screen at once;
\* the parent has written what waits only when it has exited.
Waiting == \A p \in Process : NoTwice(buffer[p]) /\ (~buffered => buffer[p] = <<>>)
OnScreen ==
  /\ KnownAll(said, screen)
  /\ NoTwice(screen) \/ Spilled
  /\ buffered /\ pc["parent"] # "exited" => screen = <<>> \/ Spilled

EInv == Muted /\ Waiting /\ OnScreen

LEMMA NoTwiceAppend ==
  ASSUME NEW all \in Seq(Messages), NEW s \in Seq(Messages), NEW m \in Messages,
         m.k = Len(all) + 1, KnownAll(all, s), NoTwice(s)
  PROVE  NoTwice(Append(s, m))
<1>1. \A i \in DOMAIN s : s[i] # m
  BY KnownAppend DEF KnownAll
<1>2. \A i \in DOMAIN Append(s, m) :
        \/ i = Len(s) + 1 /\ Append(s, m)[i] = m
        \/ i \in DOMAIN s /\ Append(s, m)[i] = s[i]
  OBVIOUS
<1> QED BY <1>1, <1>2, Zenon DEF NoTwice

LEMMA EmptyConcat ==
  ASSUME NEW s \in Seq(Messages)
  PROVE  s \o <<>> = s /\ <<>> \o s = s
OBVIOUS

\* Nothing is written while something is said.
LEMMA SaidOnly ==
  ASSUME TypeOK, EInv, NEW m \in Messages, m.k = Len(said) + 1, said' = Append(said, m),
         UNCHANGED <<buffer, screen, buffered>>, pc'["parent"] = "exited" <=> pc["parent"] = "exited",
         ~Spilled, Muted'
  PROVE  EInv'
<1>1. said \in Seq(Messages)
  BY DEF TypeOK
<1>2. KnownAll(said', screen)
  BY <1>1, KnownAllKept DEF EInv, OnScreen
<1> QED BY <1>2 DEF EInv, OnScreen, Waiting

\* Every message of the parent is said before there is a child.
LEMMA ParentSays ==
  ASSUME TypeOK, SysInv, EInv, NEW m \in Messages, m.k = Len(said) + 1, Says("parent", m),
         UNCHANGED buffered, pc["child"] = "none", pc'["child"] = "none",
         pc["parent"] # "exited"
  PROVE  EInv'
<1>1. said \in Seq(Messages) /\ said' = Append(said, m)
  BY DEF Says, TypeOK
<1>2. UNCHANGED <<buffer, screen>> \/ \E received \in Seq(Messages) : Vfprintf("parent", m, received)
  BY ReceivedType DEF Says, logs, TypeOK
<1>3. \A s : KnownAll(said, s) => KnownAll(said', s)
  BY <1>1, KnownAllKept
<1>4. Muted' /\ ~Spilled
  BY DEF Muted, Spilled, Detaching
<1>5. /\ KnownAll(said, screen) /\ NoTwice(screen) /\ (buffered => screen = <<>>)
      /\ \A p \in Process : /\ KnownAll(said, buffer[p]) /\ NoTwice(buffer[p])
                            /\ ~buffered => buffer[p] = <<>>
  BY <1>4 DEF EInv, Waiting, OnScreen, SysInv, Sound
<1>6. buffered' = buffered /\ buffered \in BOOLEAN /\ screen \in Seq(Messages)
      /\ buffer \in [Process -> Seq(Messages)]
  BY DEF TypeOK
<1>7. CASE UNCHANGED <<buffer, screen>>
  BY <1>3, <1>4, <1>5, <1>6, <1>7 DEF EInv, Waiting, OnScreen
<1>8. CASE buffered /\ screen' = screen /\ buffer' = [buffer EXCEPT !["parent"] = Append(@, m)]
  <2>2. buffer'["parent"] = Append(buffer["parent"], m) /\ buffer'["child"] = buffer["child"]
    BY <1>6, <1>8
  <2>3. NoTwice(buffer'["parent"])
    BY <1>1, <1>5, <1>6, <2>2, NoTwiceAppend
  <2>4. Waiting'
    BY <1>5, <1>6, <1>8, <2>2, <2>3 DEF Waiting
  <2> QED BY <1>3, <1>4, <1>5, <1>6, <1>8, <2>4 DEF EInv, OnScreen
<1>9. CASE ~buffered /\ buffer' = buffer /\ screen' \in {screen, Append(screen, m)}
  <2>1. KnownAll(said', Append(screen, m)) /\ NoTwice(Append(screen, m))
    BY <1>1, <1>3, <1>5, <1>6, KnownAppend, KnownAllAppend, NoTwiceAppend
  <2>2. KnownAll(said', screen') /\ NoTwice(screen')
    BY <1>3, <1>5, <1>9, <2>1
  <2> QED BY <1>3, <1>4, <1>5, <1>6, <1>9, <2>2 DEF EInv, Waiting, OnScreen
<1>10. UNCHANGED <<buffer, screen>>
       \/ (buffered /\ screen' = screen /\ buffer' = [buffer EXCEPT !["parent"] = Append(@, m)])
       \/ (~buffered /\ buffer' = buffer /\ screen' \in {screen, Append(screen, m)})
  BY <1>2, VfprintfIs
<1> QED BY <1>7, <1>8, <1>9, <1>10

\* Connecting syslog anew does not bring the inherited stdout back.
LEMMA StaysMuted ==
  ASSUME StdoutKept("child"), table["child"][1] # "inherited"
  PROVE  table'["child"][1] # "inherited"
BY DEF StdoutKept

\* A step that neither says nor writes anything.
LEMMA SilentEach ==
  ASSUME EInv, UNCHANGED <<buffered, said, buffer, screen>>,
         pc'["parent"] = "exited" <=> pc["parent"] = "exited",
         ~Spilled, Muted'
  PROVE  EInv'
BY DEF EInv, Waiting, OnScreen

\* The parent writes what waits, the child nothing unless it gave up.
LEMMA ReturnEach ==
  ASSUME TypeOK, SysInv, EInv, NEW p \in Process, Return(p)
  PROVE  EInv'
<1>1. /\ pc[p] = "return" /\ pc'[p] = "exited" /\ \A q \in Process \ {p} : pc'[q] = pc[q]
      /\ WriteStdout(p, buffer[p], journal)
      /\ buffer'[p] = <<>> /\ \A q \in Process \ {p} : buffer'[q] = buffer[q]
      /\ UNCHANGED <<buffered, table, said>>
  BY DEF Return, Goto, TypeOK, config
<1>2. /\ screen \in Seq(Messages) /\ buffer \in [Process -> Seq(Messages)] /\ buffered \in BOOLEAN
      /\ journal \in Seq(Messages)
  BY DEF TypeOK
<1>3. GaveUp' <=> GaveUp
  BY <1>1 DEF GaveUp
<1>4. Muted' /\ (Spilled => Spilled')
  BY <1>1, <1>3 DEF EInv, Muted, Spilled, Detaching
<1>5. Waiting'
  <2>1. NoTwice(<<>>)
    BY DEF NoTwice
  <2> QED BY <1>1, <2>1 DEF EInv, Waiting
<1>6. screen' = screen \/ (table[p][1] = "inherited" /\ screen' = screen \o buffer[p])
  BY <1>1, <1>2, WriteStdoutIs
<1>7. KnownAll(said, screen')
  BY <1>2, <1>6, KnownAllConcat DEF EInv, OnScreen, SysInv, Sound
<1>8. CASE Spilled'
  BY <1>1, <1>4, <1>5, <1>7, <1>8 DEF EInv, OnScreen
<1>9. CASE ~Spilled' /\ p = "child"
  <2>1. table["child"][1] # "inherited"
    BY <1>1, <1>3, <1>9 DEF EInv, Muted, Spilled
  <2>2. screen' = screen /\ ~Spilled /\ pc'["parent"] = pc["parent"]
    BY <1>1, <1>4, <1>6, <1>9, <2>1
  <2> QED BY <1>1, <1>4, <1>5, <1>7, <2>2 DEF EInv, OnScreen
<1>10. CASE ~Spilled' /\ p = "parent"
  <2>1. ~Spilled
    BY <1>4, <1>10
  <2>2. /\ NoTwice(screen) /\ NoTwice(buffer[p]) /\ (~buffered => buffer[p] = <<>>)
        /\ buffered => screen = <<>>
    BY <1>1, <1>10, <2>1 DEF EInv, OnScreen, Waiting
  <2>3. screen' \in {screen, buffer[p]}
    BY <1>2, <1>6, <2>2, EmptyConcat
  <2>4. NoTwice(screen')
    BY <2>2, <2>3
  <2> QED BY <1>1, <1>4, <1>5, <1>7, <1>10, <2>4 DEF EInv, OnScreen
<1> QED BY <1>8, <1>9, <1>10

LEMMA NextEInv ==
  TypeOK /\ Opened /\ DInv /\ StdoutApart /\ SysInv /\ EInv /\ [Next]_vars => EInv'
<1> SUFFICES ASSUME TypeOK, Opened, DInv, StdoutApart, SysInv, EInv, [Next]_vars PROVE EInv'
  OBVIOUS
<1>0. pc \in [Process -> Places] /\ 1 \in Fd
  BY FdAssumption DEF TypeOK
<1>w. pc["child"] # "none" => pc["parent"] \in {"return", "exited"}
  BY DEF DInv, Waits
<1>m. pc'["child"] = "none" => Muted'
  BY DEF Muted, Detaching
<1>s. pc["child"] \notin {"return", "exited"} => ~Spilled
  BY DEF Spilled
<1>k. ~Fork => StdoutKept("child")
  BY NextStdoutKept
<1>1. CASE UNCHANGED vars
  BY <1>1 DEF vars, logs, config, EInv, Muted, Waiting, OnScreen, Spilled, GaveUp
<1>2. CASE ReadCommandLine \/ ReadConfig
  <2>1. Reading /\ (Quiet \/ \E priority \in Priority : Says("parent", Message("parent", priority)))
    BY <1>2, ReadingIs
  <2>2. /\ pc["child"] = "none" /\ pc'["child"] = "none" /\ buffered' = buffered
        /\ pc["parent"] # "exited" /\ pc'["parent"] # "exited"
    BY <1>0, <1>w, <2>1 DEF Reading, Reads
  <2>3. ASSUME NEW priority \in Priority, Says("parent", Message("parent", priority)) PROVE EInv'
    BY <2>1, <2>2, <2>3, MessageType, ParentSays DEF Reading
  <2>4. CASE Quiet
    <3>1. UNCHANGED <<said, buffer, screen>>
      BY <2>4 DEF Quiet, logs
    <3> QED BY <1>m, <1>s, <2>2, <3>1, SilentEach
  <2> QED BY <2>1, <2>3, <2>4
<1>4. CASE ForkFails \/ OpenLog("parent") \/ CloseLog("parent")
  <2>1. /\ UNCHANGED <<buffered, said, buffer, screen>> /\ pc'["child"] = pc["child"]
        /\ pc["parent"] \in {"fork", "open_log", "close_log"} /\ pc'["parent"] # "exited"
    BY <1>0, <1>4 DEF ForkFails, OpenLog, CloseLog, Goto, logs, config
  <2> QED BY <1>w, <1>m, <1>s, <2>1, SilentEach
<1>5. CASE Fork
  <2>1. /\ pc["parent"] = "fork" /\ pc'["parent"] = "return" /\ pc'["child"] = "session"
        /\ buffer' = [buffer EXCEPT !["child"] = buffer["parent"]]
        /\ UNCHANGED <<buffered, said, screen>>
    BY <1>5 DEF Fork, config
  <2>2. buffer'["child"] = buffer["parent"] /\ buffer'["parent"] = buffer["parent"]
    BY <2>1 DEF TypeOK
  <2>3. ~Spilled /\ Muted'
    BY <1>w, <1>s, <2>1 DEF Muted, Detaching
  <2>4. Waiting'
    BY <2>1, <2>2 DEF EInv, Waiting
  <2> QED BY <2>1, <2>3, <2>4 DEF EInv, OnScreen
<1>6. CASE LogStarted("parent") \/ Terminate("parent")
  <2>1. PICK priority \in Priority : LogMsg("parent", priority)
    BY <1>6, Priorities DEF LogStarted, Terminate
  <2>2. /\ pc["parent"] \in {"started", "running"} /\ pc'["child"] = pc["child"]
        /\ level' \in 0..7 /\ foreground' \in BOOLEAN /\ buffered' = buffered
    BY <1>0, <1>6 DEF LogStarted, Terminate, Goto, config, settings, TypeOK
  <2>3. Says("parent", Message("parent", priority))
    BY <2>1, LogMsgSays
  <2> QED BY <1>w, <2>2, <2>3, MessageType, ParentSays
<1>7. ASSUME NEW priority \in Priority, LogMsg("child", priority), UNCHANGED config,
             pc["child"] \notin {"none", "return", "exited"}, pc'["parent"] = pc["parent"], Muted'
      PROVE  EInv'
  <2>1. /\ level' \in 0..7 /\ foreground' \in BOOLEAN /\ buffered' = buffered
    BY <1>7 DEF config, settings, TypeOK
  <2>2. said' = Append(said, Message("child", priority)) /\ UNCHANGED <<buffer, screen>>
    BY <1>7 DEF LogMsg, Daemonized, logs
  <2> QED BY <1>7, <1>s, <2>1, <2>2, MessageType, SaidOnly
<1>8. CASE (LogStarted("child") \/ Terminate("child") \/ UnlinkPidFails) /\ ~Fork
  <2>1. PICK priority \in Priority : LogMsg("child", priority)
    BY <1>8, Priorities DEF LogStarted, Terminate, UnlinkPidFails
  <2>2. /\ UNCHANGED config /\ pc["child"] \in {"started", "running", "pid_file"}
        /\ pc'["child"] \in {"running", "close_log", "write_pid"} /\ pc'["parent"] = pc["parent"]
    BY <1>0, <1>8 DEF LogStarted, Terminate, UnlinkPidFails, ChildGoes, Goto
  <2>3. table["child"][1] # "inherited"
    BY <2>2 DEF EInv, Muted, Detaching
  <2>4. Muted'
    BY <1>8, <1>k, <2>2, <2>3, StaysMuted DEF Muted
  <2> QED BY <1>7, <2>1, <2>2, <2>4
<1>9. CASE ChildFailsSomewhere
  <2>1. PICK priority \in {LOG_CRIT, LOG_ERR} : LogMsg("child", priority) /\ UNCHANGED config
    BY <1>9 DEF ChildFailsSomewhere, ChildFails
  <2>2. pc["child"] \in Stages /\ pc'["child"] = "return" /\ pc'["parent"] = pc["parent"]
    BY <1>0, <1>9 DEF ChildFailsSomewhere, ChildFails, ChildGoes, Goto, Stages
  <2>3. GaveUp'
    <3> DEFINE m == Message("child", priority)
    <3>0. level' \in 0..7 /\ foreground' \in BOOLEAN /\ priority \in Priority
      BY <2>1, Priorities DEF config, settings, TypeOK
    <3>1. /\ said' = Append(said, m) /\ said \in Seq(Messages) /\ m \in Messages
          /\ m.priority = priority /\ m.who = "child"
      BY <2>1, <3>0, MessageType DEF LogMsg, TypeOK
    <3>2. priority <= LOG_ERR
      BY DEF LOG_CRIT, LOG_ERR
    <3> HIDE DEF m
    <3>3. Len(said) + 1 \in DOMAIN said' /\ said'[Len(said) + 1] = m
      BY <3>1
    <3> QED BY <3>1, <3>2, <3>3 DEF GaveUp
  <2>4. Muted'
    BY <2>2, <2>3 DEF Muted, Detaching
  <2>5. priority \in Priority
    BY Priorities
  <2> QED BY <1>7, <2>1, <2>2, <2>4, <2>5 DEF Stages
<1>10. ASSUME pc["child"] \notin {"none", "return", "exited"}, pc'["parent"] = pc["parent"],
              UNCHANGED <<config, said, buffer, screen>>, Muted'
       PROVE  EInv'
  BY <1>10, <1>s, SilentEach DEF config
<1>11. CASE BecomeSessionLeader \/ OpenDevNull \/ RedirectStdin
  <2>1. /\ UNCHANGED <<config, said, buffer, screen>> /\ pc["child"] \in Stages
        /\ pc'["child"] \in {"open", "stdin", "stdout"} /\ pc'["parent"] = pc["parent"]
    BY <1>0, <1>11 DEF BecomeSessionLeader, OpenDevNull, RedirectStdin, ChildGoes, Goto, Stages, logs
  <2>2. Muted'
    BY <2>1 DEF Muted, Detaching
  <2> QED BY <1>10, <2>1, <2>2 DEF Stages
<1>12. CASE RedirectStdout
  <2>1. /\ UNCHANGED <<config, said, buffer, screen>> /\ pc["child"] = "stdout"
        /\ pc'["child"] = "stderr" /\ pc'["parent"] = pc["parent"]
        /\ table' = [table EXCEPT !["child"][1] = table["child"][fd]]
    BY <1>0, <1>12 DEF RedirectStdout, Dup2, ChildGoes, Goto, logs
  <2>2. fd \in Fd /\ table["child"][fd] = "null"
    BY <2>1 DEF Opened, Redirecting, DInv, Replaced
  <2>3. table'["child"][1] = "null"
    BY <1>0, <2>1, <2>2 DEF TypeOK
  <2>4. Muted'
    BY <2>1, <2>3 DEF Muted
  <2> QED BY <1>10, <2>1, <2>4
<1>13. CASE /\ ~Fork
            /\ RedirectStderr \/ CloseDevNull \/ OpenLog("child") \/ CloseLog("child")
               \/ \E here \in {"pid_file", "write_pid"} : CreatePidFile(here)
  <2>1. /\ UNCHANGED <<config, said, buffer, screen>> /\ pc'["parent"] = pc["parent"]
        /\ pc["child"] \in {"stderr", "close", "pid_file", "write_pid", "open_log", "close_log"}
        /\ pc'["child"] \in {"close", "pid_file", "open_log", "started", "return"}
    BY <1>0, <1>13 DEF RedirectStderr, CloseDevNull, CreatePidFile, OpenLog, CloseLog, ChildGoes, Goto, logs
  <2>2. table["child"][1] # "inherited"
    BY <2>1 DEF EInv, Muted, Detaching
  <2>3. table'["child"][1] # "inherited"
    BY <1>13, <1>k, <2>2, StaysMuted
  <2>4. Muted'
    BY <2>1, <2>3 DEF Muted
  <2> QED BY <1>10, <2>1, <2>4
<1>14. ASSUME NEW p \in Process, Return(p) PROVE EInv'
  BY <1>14, ReturnEach
<1> QED BY <1>1, <1>2, <1>4, <1>5, <1>6, <1>8, <1>9, <1>11, <1>12, <1>13, <1>14, NextIs
        DEF ByParent, Detaches

\* Buffered or not, through fork, failures and the end of both processes, no message
\* is written twice to the stdout the program inherited, unless the child has given up
\* before it redirected its own.
THEOREM WrittenOnce == Spec => []EachOnce
<1>1. Init => EInv
  <2> SUFFICES ASSUME Init PROVE EInv
    OBVIOUS
  <2>1. /\ said = <<>> /\ screen = <<>> /\ pc["child"] = "none" /\ \A p \in Process : buffer[p] = <<>>
    BY DEF Init
  <2>2. KnownAll(said, <<>>) /\ NoTwice(<<>>)
    BY DEF KnownAll, NoTwice
  <2> QED BY <2>1, <2>2 DEF EInv, Muted, Waiting, OnScreen, Detaching
<1>2. EInv => EachOnce
  BY DEF EInv, OnScreen, NoTwice, Spilled, EachOnce
<1> QED BY <1>1, <1>2, NextEInv, SysInvAlways, PTL DEF Spec
=============================================================================
