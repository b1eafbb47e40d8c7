---------------------------- MODULE Placeholders ----------------------------
(***************************************************************************)
(* replace_placeholders of src/extldap.c: three calls of str_replace of    *)
(* src/extstring.c, each on the result of the one before, that put a mail  *)
(* address, its domain and its local part into a template.                 *)
(***************************************************************************)
EXTENDS CStrings

CONSTANT MallocMayFail    \* TRUE when str_replace may get no memory

VARIABLES address,    \* mail_address
          call,       \* which call of str_replace runs, 4 when all are done
          step,       \* its loop: "count" or "copy"
          text,       \* orig on entry to the call, in the end the result
          at,         \* ins when counting, orig when copying: a position of text
          count,      \* occurrences counted, or still to be copied
          room,       \* size of the block result points to
          result      \* what has been written there

vars == <<address, call, step, text, at, count, room, result>>

-----------------------------------------------------------------------------

Old == <<"%", <<"u", "d", "n">>[call]>>
\* Mutant: domain and local part are swapped.
New_Swapped == <<address, LocalPart(address), DomainPart(address)>>[call]
New == <<address, DomainPart(address), LocalPart(address)>>[call]

\* A call of replace_placeholders is entered.
Call(template, addr) ==
  /\ address' = addr
  /\ text' = template
  /\ call' = 1 /\ step' = "count" /\ at' = 1 /\ count' = 0
  /\ room' = 0 /\ result' = <<>>

\* str_replace returns s, and the next call gets it.
Return(s) ==
  /\ text' = s
  /\ call' = call + 1 /\ step' = "count" /\ at' = 1 /\ count' = 0
  /\ room' = 0 /\ result' = <<>>
  /\ UNCHANGED address

NullOrig == call < 4 /\ text = NULL /\ Return(NULL)

Counting == call < 4 /\ text # NULL /\ step = "count"

\* Mutant: only one character is skipped after an occurrence of two.
CountTurn_TooFar ==
  /\ Counting
  /\ \E j \in at..Len(text) : IsNextHit(text, Old, at, j) /\ at' = j + 3
  /\ count' = count + 1
  /\ UNCHANGED <<address, call, step, text, room, result>>
CountTurn ==
  /\ Counting
  /\ \E j \in at..Len(text) : IsNextHit(text, Old, at, j) /\ at' = j + Len(Old)
  /\ count' = count + 1
  /\ UNCHANGED <<address, call, step, text, room, result>>

Allocate_NoTerminator ==
  /\ Counting /\ NoHit(text, Old, at)
  /\ room' = Len(text) + (Len(New) - Len(Old)) * count
  /\ step' = "copy" /\ at' = 1
  /\ UNCHANGED <<address, call, text, count, result>>
Allocate ==
  /\ Counting /\ NoHit(text, Old, at)
  /\ room' = Len(text) + (Len(New) - Len(Old)) * count + 1
  /\ step' = "copy" /\ at' = 1
  /\ UNCHANGED <<address, call, text, count, result>>

AllocateFails == Counting /\ NoHit(text, Old, at) /\ MallocMayFail /\ Return(NULL)

Copying == call < 4 /\ text # NULL /\ step = "copy"

\* Mutant: the search goes on behind as many characters as were inserted.
CopyTurn_SkipsNew ==
  /\ Copying /\ count > 0
  /\ \E j \in at..Len(text) :
       /\ IsNextHit(text, Old, at, j)
       /\ result' = result \o SubSeq(text, at, j - 1) \o New
       /\ at' = j + Len(New)
  /\ count' = count - 1
  /\ UNCHANGED <<address, call, step, text, room>>
CopyTurn ==
  /\ Copying /\ count > 0
  /\ \E j \in at..Len(text) :
       /\ IsNextHit(text, Old, at, j)
       /\ result' = result \o SubSeq(text, at, j - 1) \o New
       /\ at' = j + Len(Old)
  /\ count' = count - 1
  /\ UNCHANGED <<address, call, step, text, room>>

CopyTail == Copying /\ count = 0 /\ Return(result \o SubSeq(text, at, Len(text)))

Init ==
  /\ address \in Seq(Character)
  /\ text \in Seq(Character) \cup {NULL}
  /\ call = 1 /\ step = "count" /\ at = 1 /\ count = 0
  /\ room = 0 /\ result = <<>>

Next ==
  NullOrig \/ CountTurn \/ Allocate \/ AllocateFails \/ CopyTurn \/ CopyTail

Spec == Init /\ [][Next]_vars

-----------------------------------------------------------------------------
(* Properties.                                                             *)

TypeOK ==
  /\ address \in Seq(Character)
  /\ call \in 1..4 /\ step \in {"count", "copy"}
  /\ text \in Seq(Character) \cup {NULL}
  /\ at \in Nat \ {0} /\ (text # NULL => at <= Len(text) + 1)
  /\ count \in Nat
  /\ room \in Nat
  /\ result \in Seq(Character)

\* Everything that is written, the 0 behind it included, fits into the block
\* that was allocated for the number of occurrences counted; the block is filled
\* exactly; and the copying loop finds every occurrence it was promised.
WritesInBuffer ==
  Copying =>
    /\ Len(result) + 1 <= room
    /\ count = 0 => Len(result) + (Len(text) + 1 - at) + 1 = room
    /\ count > 0 => ~NoHit(text, Old, at)

\* Each call replaces every occurrence, or returns NULL without any memory.
ReplacesAll ==
  [][call' # call /\ call' # 1 /\ text' # NULL => text' = Replaced(text, Old, New)]_vars
=============================================================================
