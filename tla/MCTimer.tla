------------------------------ MODULE MCTimer -------------------------------
EXTENDS Timer

Conf(flags, reload) == [flags |-> flags, reloadValue |-> reload]

\* One that reloads, one that counts once, the second chained to the first, and
\* one that counts from the greatest value, configured enabled as the
\* integration tests do.
MCConfigs == {Conf({"IE", "RS"}, 0), Conf({"IE", "CH"}, 1), Conf({"EN", "IE"}, 2)}
OneShot == {Conf({"IE"}, 0)}
=============================================================================
