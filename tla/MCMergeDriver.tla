---------------------------- MODULE MCMergeDriver ----------------------------
EXTENDS MergeDriver

CONSTANTS x, y

Line(b, n) == [body |-> b, other |-> NoBody, cr |-> n]
Text(l, m) == <<l, m>>

(* A first region with any line ending, and a second that CRLF detection    *)
(* does not look at.                                                        *)
SomeVersions ==
  {Text(Line(b, n), m) : b \in {x, y}, n \in 0 .. 2, m \in {Line(x, 0), Line(y, 1)}}
    \cup {Text(Line(Markers, 0), m) : m \in {Line(x, 0), Line(y, 1)}}
    \cup {Text(Line(Latin, 0), Line(x, 0)), Text(EmptyLine, EmptyLine)} \cup Specials
==============================================================================
