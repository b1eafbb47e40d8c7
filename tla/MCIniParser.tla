----------------------------- MODULE MCIniParser ----------------------------
(***************************************************************************)
(* Files for IniParser: up to two lines of a list that has short and long  *)
(* headers, open ones, comments before, within and after values, empty     *)
(* names and values, and noise; three lines after a header; the last line  *)
(* with or without its newline, the first with or without a byte order     *)
(* mark.                                                                   *)
(***************************************************************************)
EXTENDS IniParser

Texts ==
  {<<>>, <<" ">>, <<";", "a">>, <<"a">>, <<"[", "]">>, <<"[", "a">>, <<" ", "[", "a", "]">>,
   <<"[", "a", "b", "c", "]", "d">>, <<"[", "a", " ", "#", "]">>,
   <<"a", "=", "b">>, <<"a", " ", ":", " ", "b", "=", " ", ";", "c">>,
   <<"a", "=", ";", "b", " ">>, <<"=">>, <<"a", " ", "#", "=", "b">>}

Ended(t) == Append(t, Newline)

OneLine == Texts \cup {Ended(t) : t \in Texts}
TwoLines == {Ended(t) \o u : t \in Texts, u \in OneLine}
ThreeLines == {Ended(t) \o u : t \in {t \in Texts : Header(Trim(t))}, u \in TwoLines}

MCFiles == OneLine \cup TwoLines \cup ThreeLines \cup {Mark \o f : f \in TwoLines}
=============================================================================
