# Verification of milter-alias

milter-alias is a mail filter (milter) in C. When a user who has authenticated
sends a mail under the address of a mailing list, the filter adds the members of
the list, without the addresses of the user, as recipients. These TLA+ modules
model the program at the level of its functions and callbacks, TLC checks them
on small instances, and TLAPS proves the safety properties for every size.
Source paths are relative to the root of the repository.

## 1. The system

| component | state it keeps | operations | modules |
|---|---|---|---|
| string array, `src/src/string_array.c` | `capacity`, `size`, block of pointers; the strings | create, push with doubling, sort, difference of two sorted arrays | `StringArray`, `StringList`, `SubstractStringArray` |
| string helpers, `src/src/extstring.c` | none | `str_replace` | `CStrings`, `Placeholders` |
| callbacks, `src/src/smfi_cb.c`, with private data, `src/src/priv_data.c` | one `priv_data_t` per mail, its pointer in the libmilter context | `mlfi_envfrom_cb` (MAIL FROM), `mlfi_eom_cb` (end of message) | `MilterSession`, `AliasExpansion` |
| LDAP, `src/src/extldap.c` | one handle for all threads | connect, disconnect, two searches | `LdapSearch` (a search), `MilterSession` (its answers), `Lifecycle`, `MilterAlias` (the handle) |
| main program, `src/src/main.c` | `result_code` | start, serve, clean up | `Lifecycle`, `MilterAlias` |
| daemon, `src/src/daemon.c` | PID file, `is_daemonized`, descriptors | fork, detach, PID file, clean-up | `Daemon`, `Lifecycle` |
| logging, `src/src/log.c` | what syslog and stdio keep for it | `open_log`, `log_msg`, `close_log`, names of levels and facilities | `Daemon`, `RuntimeSetting` (names) |
| filter set-up, `src/src/smfi.c` | socket file | set-up, clean-up | `Lifecycle` |
| service manager, `src/src/service_manager.c` | none (what systemd has heard) | ready, failed, terminated | `Lifecycle` |
| settings, `src/src/runtime_setting.c` | `rt_setting` | defaults, command line, file, clean-up | `RuntimeSetting` |
| INI parser, `src/src/ini_parser.c` | two buffers, section, first error | lines, sections, entries | `IniParser` (characters), `RuntimeSetting` (meaning) |

How they interact. `main` calls the settings, then daemon, service manager,
filter set-up and LDAP in turn, and gives the thread to `smfi_main` of
libmilter. libmilter calls the two callbacks: those of one connection one after
the other, those of different connections in parallel. The callbacks share the
heap, the settings, the LDAP handle and the fate of the process. Instances of
the program share two paths, the PID file and the socket. Outside are the MTA,
libmilter, the directory, the kernel and the service manager.

What is hard in this code:

* *interleaving*: end-of-message callbacks of two connections, each with two
  searches and one call per recipient, run in between each other and beside a
  `main` that may already be shutting down;
* *protocol sequences*: a connection carries many mails, any of which may be
  given up after MAIL FROM, and the filter registers no callback that tells it;
* *failure in the middle*: `main` has eleven calls that may fail, and after some
  of the failures it goes on; memory may run out between any two steps of a
  search or of MAIL FROM;
* *crash and restart*: an instance may be killed anywhere, or be taken along by a
  callback, and leaves its files;
* *boundaries*: doubling at capacity 0, the slot for the last `NULL`, in-place
  merging with three positions, a buffer sized by one loop and filled by
  another, lines exactly as long as the buffer;
* *copies*: `fork` copies descriptors, a half-full buffer of stdout and what
  syslog believes to own;
* *order*: the file is read after the command line and writes the same settings,
  and what is logged on the way obeys the settings read so far.

The hazards are listed one by one, at their lines, in `PROJECT.json`.

## 2. Modules, and how they correspond to the code

**`SubstractStringArray`** is `substract_string_array`. `values`, `size`, `i1`,
`i2`, `j` are the variables of the code; one action is one turn of a loop
(`MergeDiscard`, `MergeKeep`, `MergeAdvance`, `TailKeep`) or the end (`Finish`).
A string is its rank in the order of `strcmp`. A string is also an allocation:
equal strings at different addresses are different members of `values`, so that
leaks and double frees can be stated.

**`StringArray`** is the array with its memory: `room` is the size of the block,
`wild` the slots written outside it. `Push` is `push_onto_string_array_l` with
or without growth, `PushNoMemory` its early return, `Sort` the call of `qsort`.
A write outside the block is undefined behaviour, and the model stops there.
**`StringList`** is what the header promises, a list; `StringArray` implements
it (`ImplementsStringList`).

**`CStrings`** has the strings of C as sequences, `strstr`, the parts of a mail
address, and as references what replacing (`Replaced`) and filling a template
(`Filled`) are to compute. **`Placeholders`** is `replace_placeholders`: three
calls of `str_replace` one on the result of the other, whose two loops are
`CountTurn` and `CopyTurn`, one turn each, with the block that `Allocate` has
sized from the count. An early return of `NULL` is handed to the next call, as
in the code (`NullOrig`, `AllocateFails`).

**`LdapSearch`** is a search: filter and base built by `Placeholders`, the
answer of the directory, and the three nested loops over entries, attributes and
values, which push onto a `StringArray` (both are instances). `held` counts what
libldap and the code have allocated. Every allocation may fail where the code
goes on: `DecomposeNoMemory`, `CreateNoMemory` (an array that could not be
allocated is dereferenced by the first push, and returned if there is none), the
pushes, `GetValuesFails`.
The two public searches differ in their settings only.
**`MCLdapSearch`** lists templates, addresses and answers.

**`MilterSession`** has one set of variables per connection: what the MTA knows
(`login`, `mail`, `gone`, `bcc`, `delivered`), the context's pointer `priv`, the
place `pc` of the callback and its local `list`; `heap` is shared. `abandoned` is
history: the last authenticated mail of the connection was given up, so its
private data is still there.
`EnvfromAuthenticated` and `EnvfromUnauthenticated` are the two paths of
`mlfi_envfrom_cb`; `Recorded` is what its setters store when memory runs out, and
`EnvfromNoMemory` the null pointer it dereferences then. `mlfi_eom_cb` is cut
where other threads or the MTA can observe it: `EomPass` or `EomSearch`,
`ListAnswered`, `OwnAnswered` (which sorts and subtracts), `AddRecipient` once
per recipient in the order of the array, and `Finished`. `Returned` is what a
search makes of an answer when memory may run out: everything, or everything but
one value, since the push of the last one may fail unnoticed. Freeing the data
and resetting the pointer (`Release`) is one step, because only the callback's own
thread looks at the context in between. `SearchFailed` is the search that returns
`NULL`, or that is given `NULL`; with `Crash` the process and all sessions are
gone, and `alive` tells such an end of a callback from a return. `Authenticate`,
`Lapse`, `Abort`, `Close`, `HangUp` belong to the MTA, and so does `Deliver`. The
result of the two array operations is the set difference, which is what
`SubstractStringArrayProofs` proves of them. A mail is a record of a sender and an
account; the brackets that `mlfi_envfrom_cb` strips are left out.
**`AliasExpansion`** is the promise: a mail gains one of its expansions, nobody
gains anything else, and nothing of the filter's state appears. It is the
abstract specification of `MilterSession` and of `MilterAlias`
(`ImplementsExpansion`), with the answers of the directory as `Returned` leaves
them. The promise covers every mail (`Covered`, `LastCovered`) except one: an
unauthenticated mail after an authenticated one that was given up. What happens to
that one is shown by the run `MilterSessionStale`.
**`MCMilterSession`** gives TLC a directory.

**`Lifecycle`** runs `main` for a set of processes. `pc` is the call `main` is
about to make, `told` the history of what the service manager heard, `code` the
`result_code`; each call has an action for its success and one for its failure
(`SetupSmfi`, `SetupSmfiFails`), and failing takes the branch of the code:
`ReturnFailure` tells and returns, `GoOnAfterFailure` tells and goes on.
`pidFile` and `socketFile` name the process that made the file. `Refuse` stands
for everything `RuntimeSetting` models in detail, `Fork` and `Detach` for what
`Daemon` does. `smfi_main` is external: it binds the socket unless the path
exists, and may remove its own socket when it is stopped. A process is started
again with all its variables reset (`Renewed`).

**`MilterAlias`** composes `Lifecycle`, which it extends, with an instance of
`MilterSession`, and has `ProgramInit`, `ProgramNext` and `Program` beside `Init`,
`Next` and `Spec` of `Lifecycle`: the processes that run `main`, the callbacks that
libmilter starts while one of them is in `smfi_main`, and `handle`, the `ldap_handle` that `Connect` and
`Disconnect` set and the searches use. Whether `smfi_main` waits for running
callbacks before it returns is up to libmilter, so it is a constant of each
behaviour, `drained`. A callback that dereferences `NULL`, or searches through a
handle that is gone, ends `main` wherever it is (`CallbackCrashes`); every end of
`main` ends the callbacks (`End`). `FairProgram` adds what is assumed about
progress, and `DirectoryAnswers` what is assumed about the directory where a
property needs it. **`MCMilterAlias`** gives TLC a directory.

**`Daemon`** is one start of the program as the two processes it becomes. `table`
is a table of descriptors each, `buffer` what stdio has not written yet, `logFd`
the descriptor that syslog(3) keeps; `Fork` copies all three. It begins with the
settings, because they are logged while they are read and decide on the way what
is logged and where: `ReadSetting` stores a mode, a level or a PID file and logs
it, `Refuse` (an illegal option or entry) logs, and resets the mode or the level
when their value is the illegal one. `LogOption` is the second message of such an
option, `UnknownOption` an option `getopt` does not know, `AskUsage` stands for
`-h` and `-v`; `OpenConfig` and `CloseConfig` give the file its descriptor.
`verdict` is what `main` concludes. `OpenDevNull` to `CloseDevNull` are the calls
of `detach_std_io`. `LogMsg` is `log_msg` with its three cases, and a message
carries the level and mode in force when it is said. `LogMsgCrashes` is the second
use of a `va_list`. Text for stdout goes where descriptor 1 refers to
(`WriteStdout`), which is the system logger if syslog(3) got that descriptor. The
C library is external, with one convention of glibc: sending to the logger through
a descriptor that is something else fails and connects anew. Left out are the
descriptor the PID file has while it is written, messages between "started" and
"terminating", and a buffer of stdout that fills up before the process ends.

**`RuntimeSetting`** reads a command line and a file: `SettingOption`,
`ModeOption` and `InvalidOption` are the turns of `getopt`'s loop, `BlankLine`,
`SectionLine`, `UnclosedLine`, `EntryLine` and `NoiseLine` those of
`parse_ini_stream`. The settings are stored in three ways, which the module
keeps apart: `EnumeratedWritten` (a wrong value resets to the default),
`OptionalWritten` (an empty value removes it), `MandatoryWritten` (an empty value
is an error). `General`, `Ldap` and `Log` are the three sections: the first
accepts options it does not know. **`MCRuntimeSetting`** chooses options and
lines.

**`IniParser`** is `parse_ini_stream` by the character: `Read`, `GrowLine` and
`LineRead` are `fgets` into the line buffer and the loop that doubles it,
`SectionLine`, `GrowSection` and `SectionRead` the same for the name of a
section, and the rest the branches of a line. `calls` is what the handler has
been called with. `file` is what can be read: a read error is the end of the file
to this code, which never asks `ferror`. `RuntimeSetting` begins where this module
ends.
**`MCIniParser`** puts files together from short lines.

Operators named after a definition with a suffix (`Discard_Leak`) are the
mistakes each property is tested against. The specifications never use them.

## 3. What the runs check

| run | states | shows |
|---|---|---|
| `SubstractStringArray` | 31,688 | the merge computes the difference, owns every string once, and ends |
| `StringArray` | 1,232 | every capacity and every failure of the allocator: always terminated, pushes stay in a block that is what its capacity says, refinement of `StringList` |
| `LdapSearch` | 214,472 | placeholders are all replaced, inside the buffer and as the comment says; all values are collected; two objects are kept and no other; a search ends, and pushes only onto arrays that can grow |
| `MilterSession` | 1,415,973 | two connections that give up mails, hang up and lose their authentication, a directory and an allocator that fail: `DataPrivate`, `DataOfThisMail`, refinement of `AliasExpansion` |
| `MilterAlias` | 134,424 | the program through failures, crashes and restarts: notifications, exit statuses, PID file; callbacks search through a connection unless `smfi_main` returns before them, leave no data behind and end; the refinement of `AliasExpansion` holds; the filter serves again after any crash |
| `Daemon` | 1,859,725 | descriptors, messages and PID file of a start with any descriptors closed, whatever settings are read |
| `RuntimeSetting` | 1,022,879 | settings are legal, no error is forgotten or misplaced, the last writer wins |
| `IniParser` | 99,723 | lines, section names and entries arrive whole, the buffers hold, parsing ends |

Bounds, and why they are enough.

* `MaxSize` 4 and `MaxDiffSize` 3 over three strings: all turns occur in all
  orders, with duplicates at both ends, and unsorted inputs too.
* `MaxSize` 5 with capacities 0, 1 and 3: an array of capacity 1 grows three
  times, and the program creates its arrays with three slots per entry.
* Templates of up to three pieces (the placeholders, a lone `%`, a letter) with
  seven addresses, without and with one or two `@` or a `%`, so that occurrences
  touch each other and the ends, overlap in looks, and appear in what is
  inserted. Answers of up to two entries of up to two attributes, and one of
  seven values, for which an array of three slots grows twice.
* Two connections suffice for interference: every step but the crash touches the
  state of one connection and at most one object. Three objects (`Id`) allow two
  mails to be given up before none is left; then the program would go on and the
  model stops, which is why deadlock is not checked there. The directory has a
  list whose members change, and two accounts, one of which loses its address.
  Connections and objects are interchangeable, which `Symmetry` uses; the run has
  no liveness property. Every option is on but `AddMayFail`: with refused
  recipients the promise shrinks to parts of an expansion, and that case is left to
  the theorems, which hold for every value of the options.
* `MilterAlias` has three processes, `MaxFaults` 2 and all three modes: a crash, a
  failure while the next instance recovers, and a third instance. Crashes of
  callbacks come on top and are not bounded. A process is reused only when no file
  names it, as if PIDs were not reused while they are remembered. One connection is
  enough, since two of them are in `MilterSession` and what is new here is `main`
  moving on beside a callback; `MayAbort` and `AllocMayFail` are FALSE, since no
  private data is left behind only as long as no mail is given up.
* `FdMax` 5 in `Daemon`: descriptors 0 to 5 in any pattern, hence tables that are
  full, that leave only standard descriptors, and that leave two others free for
  `/dev/null` and the logger. `MaxEarly` is 3 messages about settings, so that a
  mode or level may change and change back between messages, and three `Levels`:
  one that drops all messages, the first that lets "started" pass, and one that drops
  none, beside the default.
* `MaxOptions` 2 and `MaxLines` 3: a header, an entry and what follows it,
  after two options that write the same setting. One LDAP field stands for
  nine that are stored alike.
* `INI_INITIAL_ALLOC` is 2 or 3 instead of 200, so that lines of a few characters
  make both buffers double several times and end exactly at their size.

Fairness. `SubstractStringArray!FairSpec`, `LdapSearch!FairSpec` and
`IniParser!FairSpec` are weak fairness of the next turn: these functions run in
one thread, wait for nothing but the directory and a file, and must end whatever
fails. `MilterAlias!FairProgram` is weak fairness of `main` of every instance, of
starting a new one when there is none, and of a callback that has its answers
(`Answer`): libmilter gives each a thread. Nothing makes a client go on, nothing
has to be stopped, and nothing has to fail. The unit file has no `Restart=`, so the
starting is an assumption about the operator. That the directory answers is no
part of it: `ldap_search_ext_s` is called without a timeout (`extldap.c:135`), so a
silent directory stops a callback for ever. `EveryEomEnds` therefore names its
assumption, `DirectoryAnswers`, itself; and it promises an end, not a return, since
a search that fails kills the process (`smfi_cb.c:83-90`).

### Where code and documentation differ

Each of these runs checks one sentence of a comment or a header, and TLC finds a
behaviour of the code that contradicts it.

| run | what happens |
|---|---|
| `MilterSessionLeak` | the private data of a mail that is given up is never freed |
| `MilterSessionStale` | an unauthenticated mail gains recipients: it follows an authenticated one that was given up, and `mlfi_envfrom_cb` returns before it replaces the private data (`smfi_cb.c:20`) |
| `LifecycleOverlap` | a second instance removes the socket of the first |
| `LifecycleStatus` | a failure of the filter loop is announced, the clean-up overwrites `result_code`, and `main` returns 0 (`main.c:83-107`, against `service_manager.h:39-40`); `FailureStatusTold` says what does hold |

More differences show in the models without a run of their own:

* `push_onto_string_array_l` stores the doubled capacity before `realloc`, and
  keeps it when `realloc` fails (`string_array.c:59`, against the comment on
  `capacity` in `string_array.c:14-15`, `CapacityIsRoom` of `StringArray`); later
  pushes of the same search write behind the block, hence `lost` in `SearchEnds`;
* an array created with capacity 0 never grows, since twice 0 is 0; therefore
  `WritesInBlock` leaves capacity 0 out, and `SearchEnds` shows that the program
  never pushes onto such an array;
* a failed search returns `NULL`, which the callback dereferences
  (`smfi_cb.c:83`, against `extldap.h:25`);
* the result message of a search without entries is not freed
  (`extldap.c:158`, named in `Releases`);
* an address with a `%`, or a template with a stray one, is not filled as the
  comment on `replace_placeholders` says, since each replacement works on the
  result of the one before (`extldap.c:107-109`, hence `Plain` in
  `FillsTemplates`);
* a search whose last push fails returns an array without that value, and nobody
  notices (`extldap.c:178`): a member of the list is missing, or an own address is
  not subtracted (`Returned`);
* refused recipients go unnoticed (`smfi_cb.c:100`, against `smfi_cb.h:22-23`);
* `READY=1` is sent before the filter is set up and the directory is connected
  (`main.c:54`, against `service_manager.h:10`);
* graceful termination is announced after a failure too (`main.c:104`, against
  `service_manager.h:20-21`);
* a failed start leaves the PID file (`main.c:58-74`);
* callbacks that outlive `smfi_main` search through a handle that `main` has
  closed (`main.c:83`, `drained` in `SearchesBound`);
* messages go to stdout, not to stderr (`log.c:87-89`, against `log.h:30-43`);
  before the fork a message with arguments that goes to syslog as well uses its
  `va_list` twice (`LogMsgCrashes`);
* when stdout is closed at the start, syslog(3) gets descriptor 1, and what is
  printed reaches the logger a second time (`log.c:87`), messages said in the
  foreground included; `SyslogComplete` therefore says "none twice" of the other
  starts only;
* messages are logged before the mode and the level are known, and go where the
  settings read so far send them: with `-f` and a file that chooses the mode `fork`,
  those up to that line appear on stdout only. `SyslogComplete` measures each
  message by the settings of its moment;
* a read error, and a configuration file that is a directory, is an end of file
  (`ini_parser.c:94` and `107`): the filter starts with what has been read;
* the file overrides `-f` (`main.c:36`, against the usage text), which is what
  `LastWriterWins` says;
* `cleanup_rt_setting` does not free `log_ident` (`runtime_setting.c:89`);
* the handler of INI entries returns zero on success, not nonzero
  (`ini_parser.c:168`, against `ini_parser.h:19`).

## 4. What is proved

Every theorem is about the specification its run checks, for all values of the
constants that satisfy the named assumptions. Type invariants that are proved
(`TypeCorrect`) are not checked by a run again, unless they say more than types.

**`SubstractStringArrayProofs`**, from `StringsAssumption` and
`BoundsAssumption` alone, hence for arrays of every length. `DifferenceComputed`
speaks of the end only and `EveryStringOwnedOnce` does not say where strings
lie, so neither is inductive. The inductive invariant `IInv` adds `Layout` (the
kept strings lie in front, in the order they came; nothing from `i2` on has been
touched; `freed` is what lies before `i2` and was not kept), which needs no
assumption about the inputs, and `Order`, for sorted inputs: what is kept
ascends strictly and avoids `diff`, what was inspected is kept or in `diff`, and
what `diff` has passed is below everything to come. Lemmas per operation
(`DiscardLayout`, `KeepLayout`, `DiscardOrder`, `KeepOrder`, `FinishLayout`) are
put together in `NextIInv`. Results: `TypeCorrect`, `OwnedOnce`,
`DifferenceCorrect`.

**`StringArrayProofs`**: `TypeCorrect`; `PushesFit`, from the invariant
`Bounded` that, until a write misses it, the block holds the entries and is not
larger than the capacity says; `EndFound`, that the entries are followed by
`NULL`; `NoOverrun`, for any number of pushes under `Ample` (capacities of at
least 1 and a `realloc` that succeeds) from the invariant `Roomy` that the block
has one slot more than the capacity; `ImplementsList`, for all capacities and
failures: steps map to `Push`, `PushHole`, `PushFailed` or `Sort` of the list.

**`LdapSearchProofs`**, for templates, addresses and answers of every length, from
`QueriesAssumption` (their types), `CharacterAssumption` (the letters of the
placeholders are characters) and `ArrayAssumption` (that of `StringArray`). `CountInv` ties the two loops of `str_replace`
to the occurrences (`Hits`) both see: those counted and those ahead make up all of
them; afterwards those to be copied are the ones ahead, and the block has the
room that the rest of the text takes. `WritesInBuffer` does not mention the first
loop, so it is not inductive. The lemmas `HitsNext` and `HitsShort` need that the
string looked for consists of two different characters: occurrences then do not
overlap, so a shorter replacement cannot make the size negative. `BufferInv` is
`CountInv` in a search, which enters `Placeholders` with `Call` and then takes its
steps. `HeldInv` says what is allocated at every place of a search. Results:
`NothingOverrun`, `ReleasesAll`.

`SearchTyped` uses `Bounded` of `StringArrayProofs` for the array of the search
(`ShapeInv`). For `AllCollected` the places of an answer are ordered as the loops
pass them, and `CollectInv` says that the entries of the array are the values in
front of `Here`, each where its rank puts it (`Gathered`), as long as no push has
failed (`Intact`). `ReplacesEvery` and `TemplatesFilled` are about the recursive
functions `Replaced` and `Filled`. That such a function exists, and what it is at
each place of a string, is proved from the end of the string to its beginning by
a least counterexample (`Backwards`), which needs no induction theorem.
`ReplaceInv` then says that what `str_replace` has written, followed by what the
rest of the text still makes it write, is the whole result; `FillInv` that each
call has got what the calls before it make of the template (`Stage`). `OneByOne`
is the lemma that makes the comment on `replace_placeholders` true where it is:
for `Plain` templates and addresses, replacing one placeholder after the other is
filling all of them at once.

**`MilterSessionProofs`**, for any number of connections, objects, senders,
accounts and answers, and every value of the options. `MemInv` (types,
`DataPrivate`, and that a running callback has data and a mail or nobody) is
inductive under every failure and gives `TypeCorrect` and `DataStaysPrivate`.
`Attributed` adds that the data outlives a mail only in a connection marked as
`abandoned`, and never its successor; it gives `DataIsOfThisMail`, without an
assumption about who gives up what. `NoDataLeaked` needs `~MayAbort`: an object is
only ever left behind by a mail that is given up. `Progressed` adds that what has
been added and what is still to be added make up an expansion; with it every step
maps to a step of `AliasExpansion` or to a stutter (`NextPromise`), which is
`KeepsPromise`.

**`MilterAliasProofs`** has two parts. The first is about `main` alone, for any
number of instances, modes and failures. What an instance has told determines
where it is: the invariant `Told` says for every place of `main` whether it has
spoken (`Speaks`), in which order (`Ordered`), what its last word was and how it
relates to `code` (`Status`), and what an instance without a failure has cleaned
up (`Clean`). None of the four properties is inductive, as they speak of the end.
Results: `Notified`, `EndAnnounced`, `StatusTold`, `EndsClean`.
`NamedInFile` needs `~Overlap` and the invariant `FileInv`: only one instance runs
(`Alone`), and the PID file names it from its creation on (`NamesDaemon`).

The second part is about the program with its callbacks. `SearchesConnected`
needs `~Overlap` and the invariant `BInv`: only one instance runs (`OneRuns`),
`handle` is a connection wherever `main` is between `connect_ldap` and
`disconnect_ldap` (`Connected`), and no callback runs outside `smfi_main` if that
waits for them (`Drained`). `ProgramKeepsPromise` says that the whole program
implements `AliasExpansion`. Each step of the program leaves the callbacks alone,
ends them all (`Nobody`), or is one of theirs; so the invariant `CInv`, which is
`MemInv`, `Attributed` and `Progressed` of `MilterSessionProofs` for the callbacks
of a process, survives `main`, and a step maps to one of `AliasExpansion` or to a
stutter. In the same way `ProgramLeaksNothing` follows from `NoDataLeaked`'s step,
under `~MayAbort`.

**`DaemonProofs`**, for any number of descriptors, in use in any pattern, any
levels and any number of messages while the settings are read. Messages are said in
many places, so a lemma (`LogMsgSays`) reduces each to `Says`: dropped, sent,
written, or both. `DInv` follows the child: its table is that of the parent
(`Copied`) until it opens `/dev/null`, then `Replaced` says which of the standard
descriptors have been redirected so far and that the parent had the extra one
closed, which is why closing it restores the parent's table (`Detached`); `Waits`
keeps the parent from changing its table meanwhile, `Forked` says that only a
daemon mode gets there, and `Inherited` and `Apart` keep syslog away from the
standard descriptors unless it had one before the fork. Results: `LeavesNothing`,
`StandardStays` (the daemon's standard descriptors stay redirected), `NamesChild`.

For messages, `SysInv` says that the journal and every buffer of stdio hold only
severe messages that have been said (`Sound`), that the journal has all that are
due (`HasAll`), and, if stdout was open at the start, in their order and from
daemon modes only (`InOrder`); the last rests on `StdoutApart`, that syslog's socket
never gets descriptor 1 then, so that no buffer is ever written to it. This gives
`LoggerReceivesAll`. `EInv` gives `WrittenOnce`: no message is twice in a buffer of
stdio (`Waiting`) or on the screen (`OnScreen`), as long as the child writes its
copy of the parent's buffer to `/dev/null` (`Muted`); a child that gives up before
that is the one exception (`Spilled`).

**`RuntimeSettingProofs`**, for command lines and files of every length: the
invariant `LineInv` relates `section` and `first_error_line_no` to the lines read
so far, `CliInv` does so for `result_code` and the options. `WriteInv` says that
every setting has what the last of the lines and options read so far has written
to it (`WrittenTo`), for both ways of reading and while the file is read after
the command line. Results: `TypeCorrect`, `FirstBlamed`, `NothingForgotten`,
`LastOneWins`.

**`IniParserProofs`**, for files and buffers of every size, from
`AllocsAssumption` and `FilesAssumption`. `LineInv` says how much has been read:
up to an end of a line (`EndsAt`), or to somewhere in one, whose beginning is then
in the buffer (`Between`); the buffers hold it, and what is in the second is the
name of the section as far as it fits (`Copied`). `SectionInv` adds that the
section between lines is `SectionOf` the lines read, and `EntryInv` that the
handler has been called in ascending order (`Ordered`), of every entry line read
and of none ahead (`AllCalled`, `CallsPast`), with names and values of the right
form (`Shaped`). That last conjunct rests on lemmas about trimming, separators and
comments (`TrimIs`, `FindIs`, `NameShape`, `ValueShape`, `EntryShape`). Results:
`BuffersAlwaysHold`, `LinesWhole`, `SectionsWhole`, `EntriesArriveWhole`.

Only model-checked: the liveness properties (`Termination`, `SearchEnds`,
`EveryEomEnds`, `ServesAgain`, `Ends`), since liveness under fairness needs
ENABLED, which is beyond the prover, and the four runs that find a difference
between code and documentation. Every invariant, action property and refinement
of the other runs is a theorem. Only proved is what refused recipients
(`AddMayFail`) and more than two connections, three processes and so on bring.

## 5. What is not modelled

* What libldap does with one handle in several threads: libldap is external. A
  directory that never answers is a behaviour of `MilterAlias` like any other, but
  nothing is claimed of the callback that waits for it, nor does `smfi_main` return
  then if it waits for callbacks (`drained`).
* Read errors of the configuration file as such: to the code they are its end.
* The sort of an array with a hole, and everything after a write outside a block:
  undefined behaviour, where the models stop.
* The printing functions (`print_usage`, `print_version`, `log_rt_settings`), the
  wording of messages, `str_or_null`, `free_string_array` and the getters of the
  array, which change nothing that another part reads.
* Allocations of setting values, whose results the code does not check, and the
  dependency of the LDAP password on the bind DN (`extldap.c:36`).
* In `Daemon`: the descriptor of the PID file while it is written, messages of the
  callbacks, and a buffer of stdout that fills up before the process ends.
* How systemd takes the exit of the parent process when the unit says
  `Type=notify`.
* NUL bytes in the configuration file, behind which the rest of a line would be
  out of sight (`FilesAssumption`).
* The build, and the tests other than as a source of intended behaviour.

## 6. Plan

Done, in this order: `SubstractStringArray`; `StringArray`; `MilterSession` with
`AliasExpansion`; `Lifecycle`; `RuntimeSetting`, each with proofs; failing
allocations in MAIL FROM; `Placeholders` and `LdapSearch` with proofs; `Daemon`
with proofs; `MilterAlias` with proofs; `IniParser`; proofs of `IniParser`, of the
refinement by `MilterAlias`, of the recursive functions of `LdapSearch`, and of
the messages of `Daemon` and the settings of `RuntimeSetting`; the data of mails
that are given up, answers cut short, and the settings `Daemon` reads, with proofs.

Worth doing next:

1. `LdapSearch` as an implementation of the answers `MilterSession` assumes, which
   joins the two at the search.
2. `SearchesConnected` without the assumption that instances do not overlap: the
   handle belongs to a process.
