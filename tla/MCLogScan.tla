------------------------------- MODULE MCLogScan -------------------------------
(* LogScan over all short files, and over pairs of files and of zip members    *)
EXTENDS LogScan

UpTo(n) == UNION {[1 .. l -> Chars] : l \in 0 .. n}
Of(kind, parts) == [kind |-> kind, parts |-> parts]
Some == {<<>>, <<"a">>, <<"b", NL>>, <<"a", "x", NL, "b", NL>>, <<"b", NL, "x", "a">>,
         <<"a", NL, "a", "x", NL, "b">>}
Few == {<<"a">>, <<"b", NL>>, <<"x", "a", NL>>}

Singles == {Of(kind, <<text>>) : kind \in {"plain", "gzip"}, text \in UpTo(5)}
Zips == {Of("zip", parts) : parts \in (UpTo(2) \X UpTo(2)) \cup (Few \X Few \X Few)}
Several == {Of(kind, <<text>>) : kind \in Kinds, text \in Some}

MCInputs ==
  {<<>>} \cup {<<f>> : f \in Singles \cup Zips} \cup {<<f, g>> : f, g \in Several}
=============================================================================
