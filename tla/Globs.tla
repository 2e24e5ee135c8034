------------------------------- MODULE Globs -------------------------------
(***************************************************************************)
(* The patterns of watched_paths and excluded_paths.  A name is a sequence  *)
(* of characters.                                                          *)
(***************************************************************************)
EXTENDS Naturals, Sequences, SequencesExt

Star == "*"
Slash == "/"

\* What a pattern means: a star stands for any sequence, slashes included.
RECURSIVE Means(_, _)
Means(p, s) ==
  IF p = <<>> THEN s = <<>>
  ELSE IF Head(p) = Star
  THEN \E n \in 0..Len(s) : Means(Tail(p), SubSeq(s, n + 1, Len(s)))
  ELSE s # <<>> /\ Head(s) = Head(p) /\ Means(Tail(p), Tail(s))

\* FilesystemMonitor::wildcard_match: one pass, which goes back to the last star.
WildcardMatch(s, p) ==
  LET RECURSIVE Loop(_, _, _, _)
      Loop(si, pi, star, mark) ==
        IF si > Len(s) THEN \A k \in pi..Len(p) : p[k] = Star
        ELSE IF pi <= Len(p) /\ p[pi] = s[si] THEN Loop(si + 1, pi + 1, star, mark)
        ELSE IF pi <= Len(p) /\ p[pi] = Star THEN Loop(si, pi + 1, pi, si)
        ELSE IF star > 0 THEN Loop(mark + 1, star + 1, star, mark + 1)
        ELSE FALSE
  IN Loop(1, 1, 0, 0)

\* is_excluded: a pattern without a star is looked for anywhere in the path.
IsExcluded(path, p) ==
  IF \E i \in 1..Len(p) : p[i] = Star
  THEN \/ WildcardMatch(path, p)
       \/ WildcardMatch(path, p \o <<Slash, Star>>)
  ELSE \E i \in 0..(Len(path) - Len(p)) : SubSeq(path, i + 1, i + Len(p)) = p

\* match_component: one component of a watched path, split at its first star;
\* a second star is an ordinary character of the suffix.
MatchComponent(s, p) ==
  LET at == SelectInSeq(p, LAMBDA c : c = Star)
      prefix == SubSeq(p, 1, at - 1)
      suffix == SubSeq(p, at + 1, Len(p))
  IN IF at = 0 THEN s = p
     ELSE IsPrefix(prefix, s) /\ IsSuffix(suffix, s) /\ Len(s) >= Len(prefix) + Len(suffix)

---------------------------------------------------------------------------
Names(n) == UNION {[1..k -> {"a", "b", Slash}] : k \in 0..n}
Patterns(n) == UNION {[1..k -> {"a", Slash, Star}] : k \in 0..n}
Stars(p) == {i \in 1..Len(p) : p[i] = Star}

\* On names without a star the pass agrees with the meaning; a name that has
\* one is compared with the pattern character by character first, and may be
\* refused (name "*b", pattern "*").
WildcardIsRight == \A s \in Names(5), p \in Patterns(4) : WildcardMatch(s, p) <=> Means(p, s)
NameWithStar == Means(<<Star>>, <<Star, "b">>) /\ ~WildcardMatch(<<Star, "b">>, <<Star>>)

\* What an exclusion with a star excludes, it excludes with all that is below.
ExclusionIsDeep ==
  \A s \in Names(3), p \in Patterns(3), c \in {"a", "b"} :
    (Stars(p) # {} /\ IsExcluded(s, p)) => IsExcluded(s \o <<Slash, c>>, p)

ComponentIsRight ==
  \A s \in Names(4), p \in {q \in Patterns(4) : Cardinality(Stars(q)) <= 1} :
    MatchComponent(s, p) <=> Means(p, s)

ASSUME GlobsAssumption == WildcardIsRight /\ NameWithStar /\ ExclusionIsDeep /\ ComponentIsRight
=============================================================================
