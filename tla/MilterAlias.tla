----------------------------- MODULE MilterAlias ----------------------------
(***************************************************************************)
(* The program as a whole: main, as module Lifecycle has it, with the      *)
(* callbacks of module MilterSession that libmilter runs while main is in  *)
(* smfi_main, and what both sides use, ldap_handle of src/extldap.c.       *)
(*                                                                         *)
(* One instance runs at a time (~Overlap).  The callbacks die with it, and *)
(* a null pointer in a callback ends main too.                             *)
(***************************************************************************)
EXTENDS Lifecycle

CONSTANTS Session, Sender, Account, NoAccount, NoMail, ListAnswers, OwnAnswers,
          Id, NULL, Free, AddMayFail, MayAbort, MayHangUp, AuthMayLapse,
          LdapMayFail, AllocMayFail                 \* as in MilterSession

VARIABLES login, mail, gone, abandoned, priv, heap, at, list, bcc, delivered,
          drained,   \* smfi_main returns only when no callback is running
          handle     \* ldap_handle is a connection, not NULL

main == vars
sessions == <<login, mail, gone, abandoned, priv, heap, at, list, bcc, delivered>>
programVars == <<main, sessions, drained, handle>>

\* The threads of the callbacks live as long as the process.
alive == \E p \in Proc : Runs(p)

S == INSTANCE MilterSession WITH pc <- at

\* As the callbacks need it.
ASSUME SessionAssumption ==
  S!AccountsAssumption /\ S!NullsAssumption /\ S!AnswersAssumption /\ S!OptionsAssumption

ProgramInit ==
  /\ Init /\ S!NoSession
  /\ drained \in BOOLEAN
  /\ handle = FALSE

-----------------------------------------------------------------------------
(* main.  No callback runs before smfi_main or, if it waits, after it.     *)

AllIdle == \A s \in Session : at[s] = "idle"

\* The process is gone, with main and every callback.
Ends == S!Crash /\ handle' = FALSE

Connect(p) ==
  /\ ConnectLdap(p)
  /\ handle' = TRUE
  /\ UNCHANGED <<sessions, drained>>

\* ldap_handle becomes NULL whatever the result.
Disconnect(p) ==
  /\ DisconnectLdap(p) \/ DisconnectLdapFails(p)
  /\ handle' = FALSE
  /\ UNCHANGED <<sessions, drained>>

\* smfi_main returns.
LeaveSmfiMain(p) ==
  /\ drained => AllIdle
  /\ Stop(p) \/ SmfiMainFails(p)
  /\ UNCHANGED <<sessions, drained, handle>>

GoOn(p) ==
  /\ \/ Start(p) \/ Fork(p) \/ Detach(p) \/ CreatePidFile(p) \/ OpenLog(p)
     \/ SetupSmfi(p) \/ Serve(p)
     \/ CleanupSmfi(p) \/ CleanupSmfiFails(p)
     \/ CleanupDaemon(p) \/ CleanupDaemonFails(p)
  /\ UNCHANGED <<sessions, drained, handle>>

\* Returning from main, with failure or after everything, or being killed.
End(p) ==
  /\ \/ Refuse(p) \/ ForkFails(p) \/ DetachFails(p) \/ CreatePidFileFails(p)
     \/ SetupSmfiFails(p) \/ ConnectLdapFails(p)
     \/ Terminate(p) \/ Kill(p)
  /\ Ends
  /\ UNCHANGED drained

-----------------------------------------------------------------------------
(* The callbacks.                                                          *)

Serving == \E p \in Proc : pc[p] = "serving"
Searching(s) == at[s] \in {"list", "own"}

\* New work arrives only while smfi_main accepts it.
Arrive(s) ==
  /\ Serving /\ UNCHANGED <<main, drained, handle>>
  /\ S!Connection(s) \/ S!EomPass(s) \/ S!EomSearch(s)

\* A callback once begun goes on whatever main does meanwhile.
Search(s) ==
  /\ handle /\ UNCHANGED <<main, drained, handle>>
  /\ S!ListAnswered(s) \/ S!OwnAnswered(s)

Answer(s) ==
  /\ UNCHANGED <<main, drained, handle>>
  /\ S!AddRecipient(s) \/ S!EomAnswered(s) \/ S!EomUnheard(s)

\* libldap is called with a connection that main has closed, or with NULL.
SearchUnbound(s) == alive /\ Searching(s) /\ ~handle

\* A callback ends the process: main is in whatever call it is in.
CallbackCrashes(s) ==
  /\ \E p \in Proc : Die(p)
  /\ \/ S!Fatal(s)
     \/ SearchUnbound(s) /\ S!Crash
  /\ handle' = FALSE
  /\ UNCHANGED <<faults, drained>>

Main(p) == Connect(p) \/ Disconnect(p) \/ LeaveSmfiMain(p) \/ GoOn(p) \/ End(p)

Callback(s) == Arrive(s) \/ Search(s) \/ Answer(s) \/ CallbackCrashes(s)

ProgramNext == (\E p \in Proc : Main(p)) \/ (\E s \in Session : Callback(s))

Program == ProgramInit /\ [][ProgramNext]_programVars

\* main goes on as long as it runs, the operator starts a new instance when there
\* is none, and a callback goes on unless it waits for the directory.  Nobody has to
\* stop an instance and nothing has to fail.
FairProgram ==
  /\ Program
  /\ \A p \in Proc : WF_programVars((Succeed(p) \/ SmfiMainFails(p)) /\ Main(p))
  /\ WF_programVars(\E p \in Proc : Start(p) /\ Main(p))
  /\ \A s \in Session : WF_programVars(Answer(s))

\* The directory answers every search, with a result or with a failure: the code
\* sets no timeout.
DirectoryAnswers ==
  \A s \in Session :
    WF_programVars(Searching(s) /\ (Search(s) \/ CallbackCrashes(s)))

-----------------------------------------------------------------------------
(* Properties.                                                             *)

\* A callback never searches through a directory connection that is not there,
\* unless smfi_main returns before the callbacks do.
SearchesBound ==
  \A s \in Session : Searching(s) => handle \/ (~drained /\ ~Serving)

\* Through stops, failures, crashes and restarts of the process every mail that
\* is delivered through the filter gained what was promised.
ImplementsExpansion == S!ImplementsExpansion

\* Nor do they leave private data behind, as long as no mail is given up.
NothingLeaked == S!NothingLeaked

\* Unless the directory stops answering, every end-of-message callback ends: it
\* returns, or dies with the process.
EveryEomEnds ==
  DirectoryAnswers => \A s \in Session : at[s] # "idle" ~> at[s] = "idle"

\* The filter heals: as long as new instances are started it serves again and
\* again, although the first one after a crash stumbles over the stale socket.
ServesAgain == []<>Serving
=============================================================================
