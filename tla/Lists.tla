-------------------------------- MODULE Lists --------------------------------
(***************************************************************************)
(* Lists as the stages use them: a comprehension that keeps what is in a set *)
(* keeps the order of what it keeps.                                         *)
(***************************************************************************)
EXTENDS Naturals, Sequences

Elements(s) == {s[i] : i \in 1 .. Len(s)}

\* The part of a list that is in a set, and a set of positions as a list.
Filtered(s, S) ==
  LET upto[n \in 0 .. Len(s)] ==
        IF n = 0 THEN << >>
        ELSE IF s[n] \in S THEN Append(upto[n - 1], s[n]) ELSE upto[n - 1]
  IN upto[Len(s)]

Ascending(S, n) == Filtered([k \in 1 .. n |-> k], S)

\* The elements of a list, each where it occurs first; a list of lists as one; the first n.
Unique(s) ==
  LET at == Ascending({i \in 1 .. Len(s) : \A j \in 1 .. i - 1 : s[j] # s[i]}, Len(s))
  IN [i \in 1 .. Len(at) |-> s[at[i]]]

Joined(ss) ==
  LET upto[n \in 0 .. Len(ss)] == IF n = 0 THEN << >> ELSE upto[n - 1] \o ss[n]
  IN upto[Len(ss)]

Cut(s, n) == SubSeq(s, 1, IF n < Len(s) THEN n ELSE Len(s))
==============================================================================
