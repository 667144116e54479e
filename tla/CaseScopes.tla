---------------------------- MODULE CaseScopes ----------------------------
(***************************************************************************)
(* How a question is tied to police cases and how the evidence is cut down *)
(* to them: the pure functions at the end of                               *)
(* apps/api/src/retrieval/pipeline.ts.                                     *)
(*                                                                         *)
(* A scope is a normalised case number, "112/2024" or just "112": key is   *)
(* the part before the slash, year the rest of it, NoYear when there is no *)
(* slash.  Years are taken to be of one length, so that specificity is     *)
(* having one or not.                                                      *)
(***************************************************************************)
EXTENDS Naturals, Sequences, FiniteSets, SequencesExt

NoYear == "none"
NoScope == [key |-> "none", year |-> NoYear]
HasYear(scope) == scope.year # NoYear

PickPreferredCaseScope(existing, candidate) ==
  IF HasYear(candidate) /\ ~HasYear(existing) THEN candidate ELSE existing

\* One scope for each key, in the order in which the keys were first seen.
CollectCaseScopes(scopes) ==
  LET Add(found, scope) ==
        IF \A i \in DOMAIN found : found[i].key # scope.key
        THEN Append(found, scope)
        ELSE [i \in DOMAIN found |->
                IF found[i].key = scope.key
                THEN PickPreferredCaseScope(found[i], scope) ELSE found[i]]
  IN FoldLeft(Add, <<>>, scopes)

SameCaseScopes(left, right) == CollectCaseScopes(left) = CollectCaseScopes(right)

CaseSignalMatchesScope(signal, scope) ==
  \/ signal = scope
  \/ signal.key = scope.key /\ ~(HasYear(signal) /\ HasYear(scope))

-----------------------------------------------------------------------------
(* The evidence.  A chunk has the scopes that its document's case          *)
(* reference, FIR number and title give (signals), and from the filter on  *)
(* the requested scopes that it was matched with.                          *)

MapSeq(Op(_), s) == [i \in DOMAIN s |-> Op(s[i])]
\* SetToSortSeq and SelectSeq, by ranks: the proof system cannot expand theirs.
InOrder(S, Before(_, _)) ==
  [k \in 1 .. Cardinality(S) |-> CHOOSE i \in S : Cardinality({j \in S : Before(j, i)}) = k - 1]
Kept(s, positions) == MapSeq(LAMBDA i : s[i], InOrder(positions, LAMBDA i, j : i < j))
Filtered(s, Test(_)) == Kept(s, {i \in DOMAIN s : Test(s[i])})
FirstOf(s, n) == SubSeq(s, 1, IF n < Len(s) THEN n ELSE Len(s))
AfterFirst(s, n) == SubSeq(s, n + 1, Len(s))

ChunkMatchedCaseScopes(chunk, scopes) ==
  Filtered(CollectCaseScopes(scopes),
           LAMBDA scope : \E s \in chunk.signals : CaseSignalMatchesScope(s, scope))

FilterChunksByCaseScopes(chunks, scopes) ==
  LET ScopesOf(c) == ChunkMatchedCaseScopes(c, scopes)
      matched == Filtered(chunks, LAMBDA c : ScopesOf(c) # <<>>)
      DocumentScopes(d) ==
        CollectCaseScopes(FlattenSeq(MapSeq(ScopesOf,
                            Filtered(matched, LAMBDA c : c.document = d))))
      unresolved == MapSeq(LAMBDA c : [c EXCEPT !.matched = DocumentScopes(c.document)],
                           Filtered(chunks, LAMBDA c : c.signals = {}))
      resolved == Filtered(unresolved, LAMBDA c : c.matched # <<>>)
  IN IF Len(CollectCaseScopes(scopes)) > 1 \/ matched # <<>>
     THEN MapSeq(LAMBDA c : [c EXCEPT !.matched = ScopesOf(c)], matched) \o resolved
     ELSE unresolved

MatchedOf(chunk, scopes) ==
  IF chunk.matched # <<>> THEN CollectCaseScopes(chunk.matched)
  ELSE ChunkMatchedCaseScopes(chunk, scopes)

BalanceChunksAcrossCaseScopes(chunks, scopes, maxChunks) ==
  LET normalized == CollectCaseScopes(scopes)
      Bucket(s) == Filtered(chunks, LAMBDA c : MatchedOf(c, normalized) = <<s>>)
      shared == Filtered(chunks, LAMBDA c : Len(MatchedOf(c, normalized)) > 1)
      share == maxChunks \div Len(normalized)
      quota == IF share > 1 THEN share ELSE 1
      selected == FlattenSeq(MapSeq(LAMBDA s : FirstOf(Bucket(s), quota), normalized))
      spare == shared \o FlattenSeq(MapSeq(LAMBDA s : AfterFirst(Bucket(s), quota), normalized))
      Before(i, j) == \/ spare[i].score > spare[j].score
                      \/ spare[i].score = spare[j].score /\ i < j
      overflow == MapSeq(LAMBDA i : spare[i], InOrder(DOMAIN spare, Before))
  IN IF Len(normalized) <= 1 \/ Len(chunks) <= 1 THEN FirstOf(chunks, maxChunks)
     ELSE selected \o (IF Len(selected) >= maxChunks THEN <<>>
                       ELSE FirstOf(overflow, maxChunks - Len(selected)))

-----------------------------------------------------------------------------
(* What a question asks about.  The regular expressions only say that it   *)
(* names cases (named), asks about all of them (global), compares those it *)
(* had before (comparative) or could follow up on one (followUp).          *)

ScopedFollowUp(question) ==
  question.followUp /\ ~question.global /\ ~question.comparative

Resolution(scopes, mode, source) ==
  [scopes |-> scopes, mode |-> mode, source |-> source, clarify |-> FALSE]
ScopeSources == {"none", "global", "explicit_multi", "explicit_single", "follow_up_multi",
                 "follow_up_single"}
GlobalScope == Resolution(<<>>, "global", "global")

\* pinned.multi and pinned.mode are what the conversation pinned before.
ResolveScopeResolution(question, named, pinned) ==
  LET explicit == CollectCaseScopes(named)
      several == pinned.mode = "multi" /\ Len(pinned.multi) > 1
  IN CASE Len(explicit) > 1 -> Resolution(explicit, "multi", "explicit_multi")
       [] Len(explicit) = 1 -> Resolution(explicit, "single", "explicit_single")
       [] Len(explicit) = 0 /\ several /\ question.comparative ->
            Resolution(CollectCaseScopes(pinned.multi), "multi", "follow_up_multi")
       [] Len(explicit) = 0 /\ several /\ ScopedFollowUp(question) ->
            [GlobalScope EXCEPT !.clarify = TRUE]
       [] Len(explicit) = 0 /\ ~several /\ ScopedFollowUp(question) /\ pinned.case # NoScope ->
            Resolution(<<pinned.case>>, "single", "follow_up_single")
       [] OTHER -> GlobalScope

\* What a conversation remembers: set says whether pinned_filters is there at all,
\* own stands for the filters that are not about cases.
NotPinned == [set |-> FALSE, case |-> NoScope, multi |-> <<>>, mode |-> "none",
              source |-> "none", own |-> "none"]

\* Drops what the user had pinned.
NextPinnedAfresh(pinned, res) ==
  IF res.mode = "global" THEN pinned
  ELSE [NotPinned EXCEPT !.set = TRUE, !.mode = res.mode, !.source = res.source,
          !.case = IF Len(res.scopes) = 1 THEN res.scopes[1] ELSE NoScope,
          !.multi = IF Len(res.scopes) > 1 THEN res.scopes ELSE <<>>]
\* buildNextPinnedFilters; pinned itself where it returns undefined.
NextPinned(pinned, res) ==
  LET single == res.source = "explicit_single" /\ Len(res.scopes) = 1
      multi == res.source = "explicit_multi" /\ Len(res.scopes) > 1
      written == pinned.set \/ res.mode # "global"
  IN [pinned EXCEPT
        !.set = written,
        !.case = IF single THEN res.scopes[1] ELSE @,
        !.multi = IF single THEN <<>>
                  ELSE IF multi /\ ~SameCaseScopes(@, res.scopes) THEN res.scopes ELSE @,
        !.mode = IF written THEN res.mode ELSE @,
        !.source = IF written THEN res.source ELSE @]

\* buildCacheActiveFilters and normalizeFilterValue, which sorts the scopes.
CacheActiveFilters(own, scopes) == [own |-> own, scopes |-> ToSet(CollectCaseScopes(scopes))]
=============================================================================
