------------------------------- MODULE MCSigned -------------------------------
EXTENDS Signed, TLC

\* Two checks with nonces of two symbols.  "IP" and "ip" are two spellings of the
\* checker's address.
MCChecks == {"c1", "c2"}
MCNonceOf == [c \in MCChecks |-> <<c, "n">>]
MCDirect == <<"IP">>
MCSpellings == {<<"IP">>, <<"ip">>}
MCNonceChars == MCChecks \cup {"n", "IP", "elite"}
MCNonceLen == 2..3
MCNonces == {<<"c1", "n">>, <<"c2", "n">>, <<"c1", "n", LF, "IP">>}
MCDirects == {<<"IP">>, <<"IP", LF, "IP">>}
MCBodies == {<<"elite">>, <<"transparent">>, <<"IP", LF, "elite">>}
MCSymbols == MCNonceChars \cup {LF, "proxpulse-judge-v1", "transparent"}
MCSymmetry == Permutations(Replicas)
=============================================================================
