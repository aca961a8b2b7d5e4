------------------------------- MODULE MCBoot -------------------------------
(* Names, and the configurations a flash may hold: none, ones of either    *)
(* version that are short, full, too long, hold names that are empty, too  *)
(* long or those of the built-in services, and one of an unknown version.  *)
EXTENDS Boot

MCName == {"echo", "ota", "brake", "lamp", "cut"}

Stored(form, names) == [form |-> form, services |-> names]

\* The entries of one image differ: the first deadline does not fit, the second priority
\* does not exist and its deadline is negative.
Priorities == <<2, 3, 0, 1>>
Deadlines  == <<20, -1, 7, 0>>
Entries(names) ==
  [i \in DOMAIN names |-> [name |-> names[i], priority |-> Priorities[i], deadline_ms |-> Deadlines[i]]]

Lists == {<<"brake">>, <<"brake", "lamp">>, <<"lamp", "", "brake">>, <<"too long", "brake">>,
          <<"brake", "ota">>, <<"echo", "lamp">>, <<"brake", "lamp", "lamp">>,
          <<"lamp", "brake", "ota">>, <<"brake", "lamp", "brake", "ota">>}

MCImage ==
  {Stored("none", << >>), Stored("other", <<"brake">>)}
  \cup {Stored("v1", names) : names \in Lists} \cup {Stored("v2", Entries(names)) : names \in Lists}
=============================================================================
