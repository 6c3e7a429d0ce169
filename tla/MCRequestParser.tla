--------------------------- MODULE MCRequestParser ---------------------------
(* Requests, and everything that differs from them in one character.         *)
EXTENDS RequestParser

mcLine == <<"a", "sp", "/", "a", "sp", "H", "T", "T", "P", "/", "0", ".", "0", "cr", "lf">>
mcHeader == <<"a", ":", "sp", "a", "cr", "lf">>
mcFolded == <<"sp", "a", "cr", "lf">>
mcEnd == <<"cr", "lf">>

mcRequests == {mcLine \o mcEnd,
               mcLine \o mcHeader \o mcFolded \o mcHeader \o mcEnd,
               mcLine \o mcHeader \o mcEnd \o mcLine}

Cut(s, i, j) == SubSeq(s, 1, i) \o SubSeq(s, j, Len(s))
Put(s, i, j, c) == SubSeq(s, 1, i) \o <<c>> \o SubSeq(s, j, Len(s))

\* A character is missing, another one is in its place, or one is inserted.
mcInputs ==
  UNION {    {s} \cup {Cut(s, i - 1, i + 1) : i \in 1..Len(s)}
        \cup {Put(s, i - 1, i + 1, c) : i \in 1..Len(s), c \in Char}
        \cup {Put(s, i, i + 1, c) : i \in 0..Len(s), c \in Char} : s \in mcRequests}
=============================================================================
