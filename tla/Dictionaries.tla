----------------------------- MODULE Dictionaries ------------------------------
(***************************************************************************)
(* Dictionaries of the Python code as functions from their keys, and       *)
(* sorted().                                                               *)
(***************************************************************************)
EXTENDS Integers, FiniteSets

Empty == [k \in {} |-> 0]

\* d[key] = value
With(d, key, value) ==
  [k \in DOMAIN d \cup {key} |-> IF k = key THEN value ELSE d[k]]

\* old | new: the new value of a key that has two.
Updated(old, new) ==
  [k \in DOMAIN old \cup DOMAIN new |-> IF k \in DOMAIN new THEN new[k] ELSE old[k]]

\* What a sequence of dictionaries leaves, each written over those before it.
LastWith(parts, key) ==
  CHOOSE i \in DOMAIN parts : /\ key \in DOMAIN parts[i]
                              /\ \A j \in DOMAIN parts : key \in DOMAIN parts[j] => j <= i

Overlaid(parts) ==
  [k \in UNION {DOMAIN parts[i] : i \in DOMAIN parts} |-> parts[LastWith(parts, k)][k]]

\* sorted(): every number has as many below it as stand before it.
Below(numbers, n) == Cardinality({m \in numbers : m < n})

Ascending(numbers) ==
  [i \in 1..Cardinality(numbers) |-> CHOOSE n \in numbers : Below(numbers, n) = i - 1]
=============================================================================
