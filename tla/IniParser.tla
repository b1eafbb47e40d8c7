------------------------------ MODULE IniParser -----------------------------
(***************************************************************************)
(* parse_ini_stream of src/ini_parser.c, character by character: lines of  *)
(* any length in a buffer that grows, names of sections in another, white  *)
(* space and comments.  Module RuntimeSetting starts where this one ends,  *)
(* with what the lines say.  fgets, strncpy and realloc are the C          *)
(* library's; the handler accepts or refuses as it likes.                  *)
(***************************************************************************)
EXTENDS Integers, SequencesExt

CONSTANTS Files,           \* what may be read from the configuration file
          InitialAllocs    \* values for INI_INITIAL_ALLOC

ASSUME AllocsAssumption == InitialAllocs \subseteq Nat \ {0, 1}

\* A byte 0, behind which the rest of a line would be out of sight, is left out.
ASSUME FilesAssumption == Files \subseteq Seq(STRING \ {"NUL"})

\* A read error is the end of the file to the code, which never asks ferror: file
\* is what can be read up to there.
VARIABLES file,           \* its characters (never written)
          pos,            \* how many of them have been read
          line_size, section_size,
          line_buf,       \* the string in the line buffer
          section_buf,    \* the section buffer up to the first NUL, if it has one
          line_no,
          start,          \* the line without the white space around it
          first_error_line_no,
          calls,          \* what the handler was called with, and its verdicts
          pc              \* "read", "grow", "line", "section"; "done", "no_memory"

sizes == <<line_size, section_size>>
line == <<line_buf, line_no, start>>
vars == <<file, pos, sizes, line, section_buf, first_error_line_no, calls, pc>>

Init ==
  /\ file \in Files /\ pos = 0
  /\ \E n \in InitialAllocs : line_size = n /\ section_size = n
  /\ line_buf = <<>> /\ section_buf = <<>>
  /\ line_no = 0 /\ start = <<>> /\ first_error_line_no = 0
  /\ calls = <<>>
  /\ pc = "read"

-----------------------------------------------------------------------------
(* Strings.                                                                *)

Newline == "\n"
IsSpace(c) == c \in {" ", Newline}
Comments == {";", "#"}

Ink(t) == {k \in DOMAIN t : ~IsSpace(t[k])}

\* ini_lskip of ini_rstrip.
Trim(t) == IF Ink(t) = {} THEN <<>> ELSE SubSeq(t, Min(Ink(t)), Max(Ink(t)))

\* ini_find_chars_or_comment: the first of these characters, or the first
\* comment, which needs a space before it, or the end.
FindCharsOrComment(t, chars) ==
  Min({k \in DOMAIN t : t[k] \in chars \/ (k > 1 /\ IsSpace(t[k-1]) /\ t[k] \in Comments)}
      \cup {Len(t) + 1})

Char(t, k) == IF k \in DOMAIN t THEN t[k] ELSE "NUL"
Before(t, k) == SubSeq(t, 1, k - 1)
After(t, k) == SubSeq(t, k + 1, Len(t))

\* A byte order mark in front of the first line is skipped.
Mark == <<"EF", "BB", "BF">>
SkipMark(t, n) == IF n = 1 /\ IsPrefix(Mark, t) THEN After(t, Len(Mark)) ELSE t

-----------------------------------------------------------------------------
(* Reading a line into the buffer.                                         *)

\* What fgets reads into a buffer of this size: up to a newline, the end of the
\* file or the last byte but one; nothing at the end, and that is where a read
\* error is taken to be.
Fgets(room) ==
  LET rest == SubSeq(file, pos + 1, Len(file))
      stop == {k \in DOMAIN rest : rest[k] = Newline} \cup {Len(rest), room - 1}
  IN SubSeq(rest, 1, Min(stop))

Read ==
  /\ pc = "read" /\ Fgets(line_size) # <<>>
  /\ line_buf' = Fgets(line_size)
  /\ pos' = pos + Len(line_buf')
  /\ pc' = "grow"
  /\ UNCHANGED <<file, sizes, line_no, start, section_buf, first_error_line_no, calls>>

EndOfFile ==
  /\ pc = "read" /\ Fgets(line_size) = <<>>
  /\ pc' = "done"
  /\ UNCHANGED <<file, pos, sizes, line, section_buf, first_error_line_no, calls>>

\* The buffer is full and the line may go on.
\* Mutant: the terminator is forgotten.
Unfinished_Terminator == Len(line_buf) = line_size /\ line_buf[Len(line_buf)] # Newline
Unfinished == Len(line_buf) = line_size - 1 /\ line_buf[Len(line_buf)] # Newline

\* Mutant: the room left is taken for the whole buffer.
Rest_WholeBuffer == Fgets(2 * line_size)
Rest == Fgets(2 * line_size - Len(line_buf))

GrowLine ==
  /\ pc = "grow" /\ Unfinished /\ Rest # <<>>
  /\ line_size' = 2 * line_size
  /\ line_buf' = line_buf \o Rest
  /\ pos' = pos + Len(Rest)
  /\ UNCHANGED <<file, section_size, line_no, start, section_buf, first_error_line_no, calls, pc>>

\* The buffer grows even when it turns out that the file ends here.
LineRead ==
  /\ pc = "grow" /\ (Unfinished => Rest = <<>>)
  /\ line_size' = IF Unfinished THEN 2 * line_size ELSE line_size
  /\ line_no' = line_no + 1
  /\ start' = Trim(SkipMark(line_buf, line_no'))
  /\ pc' = "line"
  /\ UNCHANGED <<file, pos, section_size, line_buf, section_buf, first_error_line_no, calls>>

-----------------------------------------------------------------------------
(* The line.                                                               *)

Note(good) ==
  first_error_line_no' =
    IF good \/ first_error_line_no # 0 THEN first_error_line_no ELSE line_no

Line == pc = "line" /\ UNCHANGED <<file, pos, sizes, line>>

\* strchr finds the terminator of an empty line, too.
CommentLine ==
  /\ Line /\ Char(start, 1) \in Comments \cup {"NUL"}
  /\ pc' = "read"
  /\ UNCHANGED <<section_buf, first_error_line_no, calls>>

\* strncpy of a name into the section buffer from an offset on.
Strncpy(name, offset, room) ==
  SubSeq(section_buf, 1, offset) \o SubSeq(name, offset + 1, Min({Len(name), room}))

Header(t) == Char(t, 1) = "["
Name(t) == Before(After(t, 1), FindCharsOrComment(After(t, 1), {"]"}))
Closed(t) == Char(After(t, 1), FindCharsOrComment(After(t, 1), {"]"})) = "]"

SectionLine ==
  /\ Line /\ Header(start) /\ Closed(start)
  /\ section_buf' = Strncpy(Name(start), 0, section_size)
  /\ pc' = "section"
  /\ UNCHANGED <<first_error_line_no, calls>>

\* Mutant: it is thought to hold the terminator.
NameCut_TooFar == Len(section_buf) > section_size
NameCut == Len(section_buf) = section_size

\* Mutant: the buffer keeps its size.
GrowSection_SameSize ==
  /\ pc = "section" /\ NameCut
  /\ section_buf' = Strncpy(Name(start), section_size, section_size)
  /\ UNCHANGED <<file, pos, sizes, line, first_error_line_no, calls, pc>>
GrowSection ==
  /\ pc = "section" /\ NameCut
  /\ section_size' = 2 * section_size
  /\ section_buf' = Strncpy(Name(start), section_size, 2 * section_size)
  /\ UNCHANGED <<file, pos, line_size, line, first_error_line_no, calls, pc>>

SectionRead ==
  /\ pc = "section" /\ ~NameCut
  /\ pc' = "read"
  /\ UNCHANGED <<file, pos, sizes, line, section_buf, first_error_line_no, calls>>

UnclosedLine ==
  /\ Line /\ Header(start) /\ ~Closed(start)
  /\ section_buf' = <<>>
  /\ Note(FALSE) /\ pc' = "read"
  /\ UNCHANGED calls

Entry(t) == Char(t, 1) \notin Comments \cup {"[", "NUL"}
Separator(t) == FindCharsOrComment(t, {"=", ":"})
IsPair(t) == Char(t, Separator(t)) \in {"=", ":"}

\* Mutant: a comment stays part of the value.
Value_Commented(t) == Trim(After(t, Separator(t)))
Value(t) ==
  LET v == After(t, Separator(t)) IN Trim(Before(v, FindCharsOrComment(v, {})))

EntryLine ==
  /\ Line /\ Entry(start) /\ IsPair(start)
  /\ \E good \in BOOLEAN :
       /\ calls' = Append(calls, [section |-> section_buf,
                                  name    |-> Trim(Before(start, Separator(start))),
                                  value   |-> Value(start),
                                  line_no |-> line_no,
                                  good    |-> good])
       /\ Note(good)
  /\ pc' = "read"
  /\ UNCHANGED section_buf

NoiseLine ==
  /\ Line /\ Entry(start) /\ ~IsPair(start)
  /\ Note(FALSE) /\ pc' = "read"
  /\ UNCHANGED <<section_buf, calls>>

\* A buffer cannot be had or grown.
NoMemory ==
  /\ \/ pc = "read" /\ pos = 0
     \/ pc = "grow" /\ Unfinished
     \/ pc = "section" /\ NameCut
  /\ pc' = "no_memory"
  /\ UNCHANGED <<file, pos, sizes, line, section_buf, first_error_line_no, calls>>

Go ==
  \/ Read \/ EndOfFile \/ GrowLine \/ LineRead
  \/ CommentLine \/ SectionLine \/ GrowSection \/ SectionRead \/ UnclosedLine
  \/ EntryLine \/ NoiseLine

Next == Go \/ NoMemory

Spec == Init /\ [][Next]_vars

\* One thread, which reads a file that has an end.
FairSpec == Spec /\ WF_vars(Go)

-----------------------------------------------------------------------------
(* Properties.                                                             *)

\* Neither buffer is written behind its end, and whenever it is read as a string
\* it has room for its terminator.
BuffersHold ==
  /\ Len(line_buf) < line_size
  /\ Len(section_buf) <= section_size
  /\ pc \in {"read", "line", "done"} => Len(section_buf) < section_size

\* The lines of the file, read off its newlines.
Newlines == {k \in DOMAIN file : file[k] = Newline}
NthEnd(n) == {k \in Newlines \cup {Len(file)} : Cardinality({j \in Newlines : j < k}) = n - 1}
NthLine(n) ==
  LET first == IF n = 1 THEN 1 ELSE Min(NthEnd(n - 1)) + 1 IN SubSeq(file, first, Min(NthEnd(n)))

\* However often the buffer had to grow, a line is looked at when it is there as
\* a whole, and as the line it is.
LineWhole == pc \in {"line", "section"} => line_buf = NthLine(line_no)

Text(k) == Trim(SkipMark(NthLine(k), k))
HeadersUpTo(n) == {k \in 1..n : Header(Text(k))}

\* Between lines the section is that of the last header, with its whole name,
\* and none after a header that is not closed.
SectionWhole ==
  pc \in {"read", "done"} =>
    section_buf = IF HeadersUpTo(line_no) = {} THEN <<>>
                  ELSE LET t == Text(Max(HeadersUpTo(line_no))) IN
                       IF Closed(t) THEN Name(t) ELSE <<>>

\* Every entry line read so far has reached the handler, once and in order, with
\* a name and a value that hold no comment and no white space around them; nor is
\* anything missing: with one separator and what was left out they make up the
\* line again.
Blank(t) == Ink(t) = {}
IsComment(t) == Len(t) > 1 /\ IsSpace(t[1]) /\ Char(Trim(t), 1) \in Comments
EntriesWhole ==
  /\ \A i, j \in DOMAIN calls : i < j => calls[i].line_no < calls[j].line_no
  /\ \A i \in DOMAIN calls :
       LET c == calls[i]
           t == Text(c.line_no)
           n == Len(c.name)
       IN /\ c.name = Trim(c.name) /\ c.value = Trim(c.value)
          /\ \A k \in 1..n : c.name[k] \notin {"=", ":"}
          /\ \A k \in 1..Len(c.value)-1 : ~IsComment(After(c.value, k))
          /\ IsPrefix(c.name, t)
          /\ \E s \in n+1..Len(t), w \in n+1..Len(t) :
               /\ t[s] \in {"=", ":"} /\ s <= w
               /\ Blank(SubSeq(t, n + 1, s - 1)) /\ Blank(SubSeq(t, s + 1, w))
               /\ IsPrefix(c.value, After(t, w))
               /\ LET rest == After(t, w + Len(c.value)) IN Blank(rest) \/ IsComment(rest)
  /\ pc \in {"read", "done"} =>
       \A k \in 1..line_no :
         Entry(Text(k)) /\ IsPair(Text(k)) <=> \E i \in DOMAIN calls : calls[i].line_no = k

\* Whatever the file, parsing ends.
Ends == <>(pc \in {"done", "no_memory"})
=============================================================================
