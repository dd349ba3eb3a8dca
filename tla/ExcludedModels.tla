--------------------------- MODULE ExcludedModels ---------------------------
(***************************************************************************)
(* Which models an account or the host excludes (models.go of either       *)
(* plugin, the same code in both).  A pattern and an id are sequences of   *)
(* letters; case and blanks are left out.                                  *)
(***************************************************************************)
EXTENDS Lists

Stars(pattern) == {i \in DOMAIN pattern : pattern[i] = "*"}

\* The segment stands in the value and ends there.
EndsAt(segment, value, end) == SubSeq(value, end - Len(segment) + 1, end) = segment

\* The segment that a star ends, of strings.Split(pattern, "*").
SegmentAt(pattern, star) ==
  SubSeq(pattern, Max({i \in Stars(pattern) : i < star}) + 1, star - 1)

\* Where it is found in the value, up to a limit, of which some letters are used.
Ends(segment, value, used, limit) ==
  {end \in used + Len(segment)..limit : EndsAt(segment, value, end)}

NotFound == -1

\* What is used when the next letter of the pattern is looked at.
NextUsed(pattern, value, limit, i, used) ==
  LET ends == Ends(SegmentAt(pattern, i), value, used, limit) IN
  IF pattern[i] # "*" \/ used = NotFound THEN used
  ELSE IF ends = {} THEN NotFound ELSE Min(ends)

\* The segments between the first and the last star, each looked for after the one before.
LettersUsed(pattern, value, limit) ==
  LET first == Min(Stars(pattern))
      used[i \in 0..Len(pattern)] ==
        IF i <= first THEN first - 1 ELSE NextUsed(pattern, value, limit, i, used[i - 1])
  IN used[Len(pattern)]

\* Variant: the suffix is looked for in the whole value.
matchExcludedModel_Overlap(pattern, value) ==
  LET first == Min(Stars(pattern))
      suffix == SubSeq(pattern, Max(Stars(pattern)) + 1, Len(pattern))
      limit == Len(value) - Len(suffix)
  IN IF Stars(pattern) = {} THEN pattern # <<>> /\ pattern = value
     ELSE /\ first - 1 <= Len(value) /\ EndsAt(SubSeq(pattern, 1, first - 1), value, first - 1)
          /\ 0 <= limit /\ EndsAt(suffix, value, Len(value))
          /\ LettersUsed(pattern, value, limit) # NotFound

matchExcludedModel(pattern, value) ==
  LET first == Min(Stars(pattern))
      suffix == SubSeq(pattern, Max(Stars(pattern)) + 1, Len(pattern))
      limit == Len(value) - Len(suffix)
  IN IF Stars(pattern) = {} THEN pattern # <<>> /\ pattern = value
     ELSE /\ first - 1 <= Len(value) /\ EndsAt(SubSeq(pattern, 1, first - 1), value, first - 1)
          /\ first - 1 <= limit /\ EndsAt(suffix, value, Len(value))
          /\ LettersUsed(pattern, value, limit) # NotFound

applyExcludedModels(models, excluded) ==
  Without(models, {model \in ToSet(models) :
                     \E i \in DOMAIN excluded : matchExcludedModel(excluded[i], model.id)})

\* The host's merged list if it sends one, else the global and the account's.
excludedModelsForRequest(x) ==
  IF x.attributes # <<>> THEN x.attributes ELSE x.host \o x.storage

\* Reference: the letters of the pattern take up the value, one after the other.  A star takes
\* any number of letters, everything else itself.
Matches(pattern, value) ==
  \E taken \in [0..Len(pattern) -> 0..Len(value)] :
    /\ taken[0] = 0 /\ taken[Len(pattern)] = Len(value)
    /\ \A i \in DOMAIN pattern :
         IF pattern[i] = "*" THEN taken[i - 1] <= taken[i]
         ELSE taken[i] = taken[i - 1] + 1 /\ pattern[i] = value[taken[i]]
=============================================================================
