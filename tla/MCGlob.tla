------------------------------- MODULE MCGlob -------------------------------
(***************************************************************************)
(* All patterns of up to three of a few bytes, and some with classes.      *)
(***************************************************************************)
EXTENDS Glob

a == 97
b == 98

UpTo(n, bytes) == UNION {[1 .. k -> bytes] : k \in 1 .. n}

Classes == {<<Open, a, Close>>, <<Open, Bang, a, Close>>,
            <<Open, a, Dash, b, Close>>, <<Open, Bang, a, Dash, b, Close>>,
            <<Open, Close, a, Close>>, <<Open, a, Dash, Close>>,
            <<Open, b, Dash>>, <<Open, Bang, Close>>}
AllPatterns ==
  UpTo(4, {a, b, Star, Question}) \cup
  {x \o class \o y : class \in Classes,
                     x \in UpTo(1, {a, Star}) \cup {<<>>},
                     y \in UpTo(1, {b, Question}) \cup {<<>>}}

AllListings ==
  {<<>>} \cup {<<x>> : x \in UpTo(3, {a, b})}
  \cup {<<x, y>> : x \in UpTo(2, {a, b}), y \in {<<b>>, <<a, b>>, <<Dash>>}}
  \cup {<< <<Open, b, Dash>>, <<Close, b>> >>}

Tails == {<<NUL>>, <<b, NUL>>}
=============================================================================
