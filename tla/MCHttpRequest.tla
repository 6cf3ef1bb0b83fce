--------------------------- MODULE MCHttpRequest ---------------------------
(***************************************************************************)
(* Every legal text of an address, some that are not, and userinfo with    *)
(* each of the separators in it, plain and encoded.                        *)
(***************************************************************************)
EXTENDS HttpRequest

LegalNames == {h[1] \o p[1] : h \in Hosts, p \in Suffixes}

MCNames == LegalNames \cup {V6Text, <<"[">> \o NameText \o <<"]">>}

MCUserinfos ==
  {<<>>, <<"user">>, <<"user", ":">>, <<"user", ":", "pass", ":", "word">>,
   <<"user", "@", "home", ":", "pass">>, <<"user", "%40", "home">>,
   <<"user", ":", "pass", "%3A", "word">>, <<"user", "%3A", "%40">>,
   <<"user", "%FF">>, <<"user", ":", "%FF">>}

\* The tokens these are made of.
MCWords == UNION {{s[i] : i \in DOMAIN s} : s \in MCNames \cup MCUserinfos}
=============================================================================
