---------------------------- MODULE MCLdapSearch ----------------------------
(***************************************************************************)
(* Searches for LdapSearch: every template of up to three pieces with      *)
(* every address for one answer, and every answer for one template.        *)
(***************************************************************************)
EXTENDS LdapSearch

Pieces == {<<"%", "u">>, <<"%", "d">>, <<"%", "n">>, <<"%">>, <<"d">>}

Templates ==
  {NULL, <<>>} \cup Pieces \cup {a \o b : a, b \in Pieces}
    \cup {a \o b \o c : a, b, c \in Pieces}

\* Without and with an @ or two, without one of the parts, with a placeholder.
Addresses ==
  {<<>>, <<"u">>, <<"u", "@">>, <<"@", "d">>, <<"n", "u", "@", "d">>, <<"@", "u", "@">>,
   <<"%", "d", "@", "n">>}

TheTemplate == <<"n", "%", "u">>
TheAddress == <<"n", "@", "d">>
TheAnswer == <<<<<<1>>>>>>

\* Up to two entries of up to two attributes, or one of which the array has to
\* grow twice.
Attributes == {NULL, <<>>, <<2, 1>>}
Entries == {<<>>} \cup {<<a>> : a \in Attributes} \cup {<<a, b>> : a, b \in Attributes}
Answers ==
  {Failed, Uncountable, <<>>, <<<<<<1, 2, 1, 2, 1, 2, 1>>>>>>}
    \cup {<<e>> : e \in Entries} \cup {<<e, f>> : e, f \in Entries}

MCQueries ==
  [filter : Templates, base : {<<"d">>, NULL}, address : Addresses, answer : {TheAnswer}]
    \cup [filter : {TheTemplate}, base : {<<"%", "d">>}, address : {TheAddress},
          answer : Answers]

MCCharacter == {"%", "u", "d", "n", "@"}
=============================================================================
