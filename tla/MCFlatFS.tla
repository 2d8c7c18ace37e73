------------------------------ MODULE MCFlatFS ------------------------------
EXTENDS FlatFS

\* Names that are no prefixes of each other, and names that are.
PlainNames == {"profile", "a", "b"}
PrefixNames == {"profile", "a", "ab"}

Itself == [n \in {"profile", "a", "b", "ab"} |-> n]
MCStored == [n \in Names |-> Itself[n]]
Same == {<<n, n>> : n \in Names}
Prefix == Same \cup {<<"a", "ab">>}

\* "big" is longer than a buffer of two sectors.
MCSectors == [c \in Contents |->
  CASE c = "empty" -> 0 [] c = "one" -> 1 [] c = "uno" -> 1
    [] c = "two" -> 2 [] c = "duo" -> 2
    [] c = "big" -> 3]
=============================================================================
