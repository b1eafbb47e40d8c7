----------------------------- MODULE LdapSearch -----------------------------
(***************************************************************************)
(* search_mail_addresses_of_list and search_mail_addresses_by_account of   *)
(* src/extldap.c, which differ in their settings only: filter and base are *)
(* built from templates (module Placeholders), the directory is searched,  *)
(* and the values found are pushed onto a string array (module             *)
(* StringArray).  libldap is external: what it answers is chosen in the    *)
(* beginning, and what it allocates for the code to free is counted.       *)
(***************************************************************************)
EXTENDS CStrings, FiniteSets

CONSTANTS Strings, Uninitialised,     \* these as in StringArray
          MallocMayFail, ReallocMayFail, CopyMayFail,
          MaxSize,         \* bound: pushes onto one array
          Queries,         \* settings, mail address and answer of a search
          Failed,          \* in place of an answer: the search fails
          Uncountable      \* its result cannot be counted

\* An answer of the directory is a sequence of entries, an entry a sequence of
\* attributes, an attribute a sequence of values or NULL if libldap cannot
\* decode it.

ASSUME QueriesAssumption ==
  /\ <<>> \notin {Failed, Uncountable}
  /\ \A q \in Queries :
       /\ q.filter \in {NULL} \cup Seq(Character) /\ q.base \in {NULL} \cup Seq(Character)
       /\ q.address \in Seq(Character)
       /\ q.answer \in {Failed, Uncountable} \cup Seq(Seq({NULL} \cup Seq(Strings)))

VARIABLES query,       \* the member of Queries
          pc,          \* where the search is
          filter, base,
          entry, attr, val,    \* positions of the three loops
          held,        \* what is allocated and still to be freed
          lost,        \* TRUE when a push has returned NULL
          address, call, step, text, at, count, room, result,    \* Placeholders
          capacity, size, block, values, returned, wild          \* StringArray

filling == <<address, call, step, text, at, count, room, result>>
array == <<capacity, size, block, values, returned, wild>>
loops == <<entry, attr, val>>
vars == <<query, pc, filter, base, loops, held, lost, filling, array>>

Fill == INSTANCE Placeholders
Arr == INSTANCE StringArray WITH room <- block, Capacities <- Nat

\* As the string array needs it.
ASSUME ArrayAssumption ==
  Arr!StringsAssumption /\ Arr!FailuresAssumption /\ MaxSize \in Nat

Resource == {"filter", "base", "message", "array", "attribute", "ber", "values"}

Acquire(R) == held' = [r \in Resource |-> held[r] + IF r \in R THEN 1 ELSE 0]
FreeOf(R) == held' = [r \in Resource |-> held[r] - IF r \in R THEN 1 ELSE 0]

Answer == query.answer

Init ==
  /\ query \in Queries
  /\ pc = "filter"
  /\ filter = NULL /\ base = NULL
  /\ entry = 1 /\ attr = 1 /\ val = 1
  /\ held = [r \in Resource |-> 0]
  /\ lost = FALSE
  /\ address = query.address /\ text = query.filter
  /\ call = 1 /\ step = "count" /\ at = 1 /\ count = 0 /\ room = 0 /\ result = <<>>
  /\ capacity = 0 /\ size = 0 /\ block = 0 /\ values = <<>> /\ returned = NULL
  /\ wild = {}

-----------------------------------------------------------------------------
(* The two templates.                                                      *)

ReplacePlaceholders ==
  /\ pc \in {"filter", "base"} /\ Fill!Next
  /\ UNCHANGED <<query, pc, filter, base, loops, held, lost, array>>

\* malloc fails in decompose_mail_address, which writes to what it got.
DecomposeNoMemory ==
  /\ pc \in {"filter", "base"} /\ call = 1 /\ step = "count" /\ at = 1
  /\ MallocMayFail
  /\ pc' = "crashed"
  /\ UNCHANGED <<query, filter, base, loops, held, lost, filling, array>>

FilterReady ==
  /\ pc = "filter" /\ call = 4
  /\ filter' = text
  /\ Acquire(IF text = NULL THEN {} ELSE {"filter"})
  /\ Fill!Call(query.base, query.address)
  /\ pc' = "base"
  /\ UNCHANGED <<query, base, loops, lost, array>>

BaseReady ==
  /\ pc = "base" /\ call = 4
  /\ base' = text
  /\ Acquire(IF text = NULL THEN {} ELSE {"base"})
  /\ pc' = "search"
  /\ UNCHANGED <<query, filter, loops, lost, filling, array>>

-----------------------------------------------------------------------------
(* The search.                                                             *)

\* ldap_msgfree, and NULL is returned.  The message of a search that fails may
\* be NULL; ldap_msgfree accepts that.
SearchFails ==
  /\ pc = "search" /\ Answer \in {Failed, Uncountable}
  /\ pc' = "return"
  /\ UNCHANGED <<query, filter, base, loops, held, lost, filling, array>>

Searched ==
  /\ pc = "search" /\ Answer \notin {Failed, Uncountable}
  /\ Acquire({"message"})
  /\ pc' = "create"
  /\ UNCHANGED <<query, filter, base, loops, lost, filling, array>>

\* An estimate of three addresses per entry.
\* Mutant: the array starts empty and is left to grow.
Estimate_None == 0
Estimate == 3 * Len(Answer)

CreateArray ==
  /\ pc = "create"
  /\ capacity' = Estimate /\ size' = 0 /\ block' = Estimate + 1
  /\ values' = [q \in 0..Estimate |-> IF q = 0 THEN NULL ELSE Uninitialised]
  /\ returned' = NULL /\ wild' = {}
  /\ Acquire({"array"})
  /\ pc' = IF Len(Answer) = 0 THEN "return" ELSE "entry"
  /\ UNCHANGED <<query, filter, base, loops, lost, filling>>

\* No value is met by the loops, nor an attribute that libldap cannot decode.
NoValues == \A e \in 1..Len(Answer) : \A a \in 1..Len(Answer[e]) : Answer[e][a] = <<>>

\* The first push dereferences the array that is not there.  The loops end, and
\* the caller gets NULL, only if there is nothing to push.
CreateNoMemory ==
  /\ pc = "create" /\ MallocMayFail
  /\ IF Answer # <<>> /\ NoValues THEN FreeOf({"message"}) ELSE UNCHANGED held
  /\ pc' = IF NoValues THEN "return" ELSE "crashed"
  /\ UNCHANGED <<query, filter, base, loops, lost, filling, array>>

FirstAttribute ==
  /\ pc = "entry" /\ entry <= Len(Answer)
  /\ Acquire({"ber"})
  /\ attr' = 1
  /\ pc' = "attribute"
  /\ UNCHANGED <<query, filter, base, entry, val, lost, filling, array>>

GetValues ==
  /\ pc = "attribute" /\ attr <= Len(Answer[entry]) /\ Answer[entry][attr] # NULL
  /\ Acquire({"attribute", "values"})
  /\ val' = 1
  /\ pc' = "value"
  /\ UNCHANGED <<query, filter, base, entry, attr, lost, filling, array>>

\* ldap_get_values_len returned NULL, and values[0] is read.
GetValuesFails ==
  /\ pc = "attribute" /\ attr <= Len(Answer[entry]) /\ Answer[entry][attr] = NULL
  /\ pc' = "crashed"
  /\ UNCHANGED <<query, filter, base, loops, held, lost, filling, array>>

\* The result of the push is only logged.
\* Mutant: only the first value of an attribute is taken.
PushValue_FirstOnly ==
  /\ pc = "value" /\ val <= Len(Answer[entry][attr])
  /\ Arr!Push(Answer[entry][attr][val]) \/ Arr!PushNoMemory
  /\ lost' = (lost \/ returned' = NULL)
  /\ val' = Len(Answer[entry][attr]) + 1
  /\ UNCHANGED <<query, pc, filter, base, entry, attr, held, filling>>
PushValue ==
  /\ pc = "value" /\ val <= Len(Answer[entry][attr])
  /\ Arr!Push(Answer[entry][attr][val]) \/ Arr!PushNoMemory
  /\ lost' = (lost \/ returned' = NULL)
  /\ val' = val + 1
  /\ UNCHANGED <<query, pc, filter, base, entry, attr, held, filling>>

\* Mutant: the name of the attribute is not freed.
FreeValues_Only ==
  /\ pc = "value" /\ val > Len(Answer[entry][attr]) /\ wild = {}
  /\ FreeOf({"values"})
  /\ attr' = attr + 1
  /\ pc' = "attribute"
  /\ UNCHANGED <<query, filter, base, entry, val, lost, filling, array>>
FreeValues ==
  /\ pc = "value" /\ val > Len(Answer[entry][attr]) /\ wild = {}
  /\ FreeOf({"values", "attribute"})
  /\ attr' = attr + 1
  /\ pc' = "attribute"
  /\ UNCHANGED <<query, filter, base, entry, val, lost, filling, array>>

NextEntry ==
  /\ pc = "attribute" /\ attr > Len(Answer[entry])
  /\ FreeOf({"ber"})
  /\ entry' = entry + 1
  /\ pc' = "entry"
  /\ UNCHANGED <<query, filter, base, attr, val, lost, filling, array>>

Collect ==
  /\ pc = "entry" /\ entry > Len(Answer)
  /\ FreeOf({"message"})
  /\ pc' = "return"
  /\ UNCHANGED <<query, filter, base, loops, lost, filling, array>>

Return ==
  /\ pc = "return"
  /\ held' = [held EXCEPT !["filter"] = 0, !["base"] = 0]
  /\ pc' = "returned"
  /\ UNCHANGED <<query, filter, base, loops, lost, filling, array>>

Next ==
  \/ ReplacePlaceholders \/ DecomposeNoMemory \/ FilterReady \/ BaseReady
  \/ SearchFails \/ Searched \/ CreateArray \/ CreateNoMemory
  \/ FirstAttribute \/ GetValues \/ GetValuesFails \/ PushValue \/ FreeValues
  \/ NextEntry \/ Collect \/ Return

Spec == Init /\ [][Next]_vars

\* The code of a search is sequential and waits for nothing but the directory.
FairSpec == Spec /\ WF_vars(Next)

-----------------------------------------------------------------------------
(* Properties.                                                             *)

TypeOK ==
  /\ pc \in {"filter", "base", "search", "create", "entry", "attribute", "value",
             "return", "returned", "crashed"}
  /\ Fill!TypeOK
  /\ filter \in Seq(Character) \cup {NULL} /\ base \in Seq(Character) \cup {NULL}
  /\ entry \in Nat \ {0} /\ attr \in Nat \ {0} /\ val \in Nat \ {0}
  /\ held \in [Resource -> {0, 1}]
  /\ lost \in BOOLEAN
  /\ held["array"] = 1 => Arr!TypeOK

\* str_replace never writes behind the block it has allocated.
WritesInBuffer == Fill!WritesInBuffer

\* str_replace replaces every occurrence or returns NULL.
ReplacesAll == Fill!ReplacesAll

\* Filter and base are the templates with the placeholders filled as the comment
\* on replace_placeholders says, whatever the order of the three replacements,
\* provided the address contains no % and the template no other.
FillsTemplates ==
  /\ filter # NULL /\ Plain(query.filter, query.address) =>
       filter = Filled(query.filter, query.address)
  /\ base # NULL /\ Plain(query.base, query.address) =>
       base = Filled(query.base, query.address)

\* The values of the answer, each by the numbers of its entry and its attribute
\* and its place there, and those in front of it.
Places ==
  UNION {UNION {{<<e, a, v>> : v \in 1..Len(Answer[e][a])} : a \in 1..Len(Answer[e])} :
           e \in 1..Len(Answer)}

Precedes(s, t) ==
  \/ s[1] < t[1]
  \/ s[1] = t[1] /\ s[2] < t[2]
  \/ s[1] = t[1] /\ s[2] = t[2] /\ s[3] < t[3]

InFront(t) == {s \in Places : Precedes(s, t)}

\* Unless memory ran out, a search with an answer returns all values of all
\* attributes of all entries, in order: each behind those in front of it.
CollectsAll ==
  pc = "returned" /\ Answer \notin {Failed, Uncountable} /\ ~lost /\ held["array"] = 1 =>
    /\ size = Cardinality(Places)
    /\ \A t \in Places : values[Cardinality(InFront(t))] = Answer[t[1]][t[2]][t[3]]

\* Nothing is freed twice or kept, but the array for the caller and the message
\* of an answer without entries.
Releases ==
  pc = "returned" =>
    \A r \in Resource \ {"array"} :
      held[r] = IF r = "message" /\ Answer = <<>> THEN 1 ELSE 0

\* Whatever the directory answers, a search comes to its end: it returns or, when
\* memory runs out or an attribute has no values, the process is lost.  The array
\* grows from the estimate without a write outside its block, unless growing it
\* has failed before.
SearchEnds == <>(pc \in {"returned", "crashed"} \/ (wild # {} /\ lost))
=============================================================================
