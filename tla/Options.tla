------------------------------ MODULE Options ------------------------------
(* An optional value is a set of at most one element; what a filter keeps of a *)
(* sequence is its elements at some places, in their order; an object that is *)
(* spread over another (`{...old, ...new}`) hides its fields.                 *)
EXTENDS Naturals, FiniteSets, Sequences

Optional(S) == {{}} \cup {{x} : x \in S}
AtMostOne(option, S) == option \subseteq S /\ \A x, y \in option : x = y
The(option) == CHOOSE x \in option : TRUE

Picked(s, places) ==
  LET upTo[n \in 0 .. Len(s)] ==
        IF n = 0 THEN <<>> ELSE IF n \in places THEN Append(upTo[n - 1], s[n]) ELSE upTo[n - 1]
  IN upTo[Len(s)]

\* What a loop over 1..n makes of `start`.
Looped(n, start, step(_, _)) ==
  LET after[i \in 0 .. n] == IF i = 0 THEN start ELSE step(after[i - 1], i) IN after[n]

Overlaid(new, old) ==
  [x \in DOMAIN new \cup DOMAIN old |-> IF x \in DOMAIN new THEN new[x] ELSE old[x]]
=============================================================================
