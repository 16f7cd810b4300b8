------------------------------- MODULE MCWire -------------------------------
EXTENDS Wire

\* The first byte of the magic occurs in several payloads, once with all of it.
MCMagic == <<9, 2>>
MCNouns ==
    LET a(k) == <<k>>
        z == <<a(0), a(0)>>
    IN  {a(0), a(5), a(37), <<a(0), a(1)>>, <<a(9), a(9)>>, <<a(0), z>>, <<z, z>>, <<a(0), <<a(1), z>>>>}
MCWords == {<<b>> : b \in {0, 9, 12, 15}} \cup {<<9, 2, 1, 1>>, <<9, 2, 1, 4>>, <<3, 9>>, <<1, 9, 2>>, <<13, 3>>, <<5, 6>>}
MCPayloads == {Jam(n) : n \in MCNouns} \cup MCWords
MCNoise == {<<9>>, <<4>>, <<15>>}
=============================================================================
