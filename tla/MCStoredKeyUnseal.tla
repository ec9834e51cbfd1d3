------------------------- MODULE MCStoredKeyUnseal -------------------------
(* StoredKeyUnseal for TLC: a Vault opened by two of its shares.           *)
EXTENDS StoredKeyUnseal

CONSTANTS g1, g2, bad, torn   \* two good shares, a wrong one and a malformed one

Shares == {g1, g2, bad, torn}
Good   == {g1, g2}
Torn   == {torn}

\* The right shares, too few of them, and shares that Vault rejects, at once or
\* only when they are combined.
Files  == {<<g1, g2>>, <<g1>>, <<bad, g1>>, <<g1, torn, g2>>}

\* ... and no Secret.
FilesOrNone == Files \cup {<<>>}
=============================================================================
