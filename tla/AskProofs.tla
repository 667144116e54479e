------------------------------ MODULE AskProofs ------------------------------
(***************************************************************************)
(* Proofs about Ask, for any number of requests, conversations, documents  *)
(* and changes.                                                            *)
(*                                                                         *)
(* What a conversation keeps (its messages, its count, its pinned filters) *)
(* depends on a step of a request only through the request's pc, its       *)
(* conversation and its own copy of the pinned filters; RequestMoves sums  *)
(* up the fifteen steps and the exception that way, and the invariants     *)
(* need nothing else.  What the questions resolve to plays no part.        *)
(***************************************************************************)
EXTENDS Ask, CaseScopesProofs

-----------------------------------------------------------------------------
(* The records.                                                            *)

IsPinned(p) ==
  p \in [set : {p.set}, case : {p.case}, multi : {p.multi}, mode : {p.mode},
         source : {p.source}, own : {p.own}]

IsConversation(row) ==
  /\ row \in [state : {"free", "live", "deleted"}, archived : BOOLEAN, rows : Nat, count : Nat,
              pinned : {row.pinned}]
  /\ IsPinned(row.pinned)

IsRequest(q) ==
  /\ q \in [pc : {q.pc}, conversation : Conversations \cup {NoConversation},
            question : {q.question}, how : {q.how}, pinned : {q.pinned},
            resolution : {q.resolution}, key : {q.key}, ranked : {q.ranked}, hit : {q.hit},
            answer : {q.answer}]
  /\ IsPinned(q.pinned)

Shapes ==
  /\ conversation = [c \in Conversations |-> conversation[c]]
  /\ \A c \in Conversations : IsConversation(conversation[c])
  /\ request = [r \in Requests |-> request[r]]
  /\ \A r \in Requests : IsRequest(request[r])
  /\ admitted \in [Conversations -> SUBSET Requests]

-----------------------------------------------------------------------------
(* The invariant of conversations and requests.                            *)

\* A request that has inserted a message and not counted it.
Counting == {"countUser", "count", "uncounted"}
Uncounted(c) == {r \in Requests : request[r].conversation = c /\ request[r].pc \in Counting}

\* A conversation that was never inserted is empty, and no request is about it.
FreeIsUnused ==
  \A c \in Conversations :
    conversation[c].state = "free" =>
      /\ conversation[c].rows = 0 /\ conversation[c].count = 0
      /\ \A r \in Requests : request[r].conversation # c

ArchivedIsLive ==
  \A c \in Conversations : conversation[c].archived => conversation[c].state = "live"

\* What is past the check in an archived conversation was under way before it was archived.
ArchivedAdmits ==
  \A c \in Conversations : \A r \in Requests :
    conversation[c].archived /\ UnderWay(r, c) /\ request[r].pc # "archived" => r \in admitted[c]

AskInv == Shapes /\ FreeIsUnused /\ CountTracksMessages /\ ArchivedIsLive /\ ArchivedAdmits

-----------------------------------------------------------------------------
(* Lemmas about the operators.                                             *)

LEMMA ConstantRecords ==
  /\ IsPinned(NotPinned) /\ IsPinned(EmptyPinned)
  /\ IsConversation(NoRow) /\ NoRow.state = "free" /\ NoRow.archived = FALSE
  /\ NoRow.rows = 0 /\ NoRow.count = 0 /\ NoRow.pinned = NotPinned
  /\ IsRequest(NotAsked) /\ NotAsked.pc = "idle" /\ NotAsked.conversation = NoConversation
<1>1. IsPinned(NotPinned)
  BY DEF IsPinned, NotPinned
<1>2. IsPinned(EmptyPinned)
  BY <1>1 DEF IsPinned, EmptyPinned
<1>3. /\ NoRow.state = "free" /\ NoRow.archived = FALSE /\ NoRow.rows = 0 /\ NoRow.count = 0
      /\ NoRow.pinned = NotPinned
  BY DEF NoRow
<1>4. IsConversation(NoRow)
  BY <1>1 DEF IsConversation, NoRow
<1>5. IsRequest(NotAsked) /\ NotAsked.pc = "idle" /\ NotAsked.conversation = NoConversation
  BY <1>1 DEF IsRequest, NotAsked
<1>. QED  BY <1>1, <1>2, <1>3, <1>4, <1>5

\* buildNextPinnedFilters leaves the filters that are not about cases alone.
LEMMA NextPinnedKeepsOwn ==
  ASSUME NEW p, IsPinned(p), NEW res
  PROVE  IsPinned(NextPinned(p, res)) /\ NextPinned(p, res).own = p.own
<1>1. PICK a, b, c, d, e :
        NextPinned(p, res) = [p EXCEPT !.set = a, !.case = b, !.multi = c, !.mode = d, !.source = e]
  BY ZenonT(60) DEF NextPinned
<1>. DEFINE q == [p EXCEPT !.set = a, !.case = b, !.multi = c, !.mode = d, !.source = e]
<1>2. q = [set |-> a, case |-> b, multi |-> c, mode |-> d, source |-> e, own |-> p.own]
  <2>1. q \in [set : {a}, case : {b}, multi : {c}, mode : {d}, source : {e}, own : {p.own}]
    BY DEF IsPinned
  <2>. HIDE DEF q
  <2>. QED  BY <2>1
<1>3. IsPinned(q) /\ q.own = p.own
  <2>. HIDE DEF q
  <2>. QED  BY <1>2 DEF IsPinned
<1>. HIDE DEF q
<1>. QED  BY <1>1, <1>3 DEF q

\* A request goes on, keeping its conversation.
GoesOn(r, pc) ==
  /\ request' = [q \in Requests |-> IF q = r THEN request'[r] ELSE request[q]]
  /\ IsRequest(request'[r]) /\ request'[r].pc = pc
  /\ request'[r].conversation = request[r].conversation

LEMMA GotoGoesOn ==
  ASSUME Shapes, NEW r \in Requests, NEW pc, Goto(r, pc)
  PROVE  GoesOn(r, pc)
<1>1. request' = [request EXCEPT ![r] = [request[r] EXCEPT !.pc = pc]]
  BY DEF Goto
<1>2. IsRequest([request[r] EXCEPT !.pc = pc]) /\ [request[r] EXCEPT !.pc = pc].pc = pc
      /\ [request[r] EXCEPT !.pc = pc].conversation = request[r].conversation
  BY DEF Shapes, IsRequest
<1>. QED  BY <1>1, <1>2 DEF Shapes, GoesOn

LEMMA EndGoesOn ==
  ASSUME Shapes, NEW r \in Requests, NEW pc, End(r, pc)
  PROVE  GoesOn(r, pc)
<1>. DEFINE new == [NotAsked EXCEPT !.pc = pc, !.conversation = request[r].conversation]
<1>1. request' = [request EXCEPT ![r] = new]
  BY DEF End
<1>2. IsRequest(new) /\ new.pc = pc /\ new.conversation = request[r].conversation
  <2>1. request[r].conversation \in Conversations \cup {NoConversation}
    BY DEF Shapes, IsRequest
  <2>2. IsRequest(NotAsked)
    BY ConstantRecords
  <2>. QED  BY <2>1, <2>2 DEF IsRequest
<1>. HIDE DEF new
<1>. QED  BY <1>1, <1>2 DEF Shapes, GoesOn

LEMMA ChangeGoesOn ==
  ASSUME Shapes, NEW r \in Requests, NEW new, IsRequest(new),
         new.conversation = request[r].conversation, request' = [request EXCEPT ![r] = new]
  PROVE  GoesOn(r, new.pc)
BY DEF Shapes, GoesOn

-----------------------------------------------------------------------------
(* What a step of a request does to its conversation.                      *)

Grows(r, pc) ==
  LET c == ConversationOf(r)
  IN /\ pc \in Counting /\ ~At(r, "archived") /\ Live(c)
     /\ conversation' = [conversation EXCEPT ![c].rows = @ + 1]

Counts(r, pc) ==
  LET c == ConversationOf(r)
  IN /\ request[r].pc \in {"countUser", "count"} /\ pc \notin Counting
     /\ conversation' = IF Live(c) THEN [conversation EXCEPT ![c].count = @ + 1]
                        ELSE conversation

Pins(r, pc) ==
  /\ pc \notin Counting /\ ~At(r, "archived")
  /\ \E found : WritePinned(r, NextPinned(request[r].pinned, found))

Passes(r, pc) ==
  LET c == ConversationOf(r)
  IN /\ (pc \in Counting) <=> (request[r].pc \in Counting)
     /\ At(r, "archived") /\ pc \in Steps => ~(Live(c) /\ conversation[c].archived)
     /\ UNCHANGED conversation

Moves(r) ==
  LET pc == request'[r].pc
  IN /\ GoesOn(r, pc)
     /\ request[r].pc \in Steps /\ request[r].pc # pc /\ pc \notin {"idle", "archived"}
     /\ UNCHANGED admitted
     /\ \/ request[r].pc \in Steps \ Counting /\ Grows(r, pc)
        \/ Counts(r, pc)
        \/ request[r].pc \in Steps \ Counting /\ Pins(r, pc)
        \/ Passes(r, pc)

\* The steps that leave the conversation alone and change the pc and some locals.
LEMMA MovesQuietly ==
  ASSUME Shapes, NEW r \in Requests, NEW pc, GoesOn(r, pc),
         request[r].pc \in Steps \ {"archived"}, request[r].pc # pc, pc \notin {"idle", "archived"},
         (pc \in Counting) <=> (request[r].pc \in Counting),
         UNCHANGED <<conversation, admitted>>
  PROVE  Moves(r)
BY DEF Moves, Passes, GoesOn, At

LEMMA RequestMoves ==
  ASSUME Shapes, NEW r \in Requests, Query(r) \/ Throw(r)
  PROVE  Moves(r)
<1>. DEFINE q == request[r]  c == ConversationOf(r)
<1>0. IsRequest(q) /\ IsPinned(q.pinned) /\ IsPinned(NotPinned)
  BY ConstantRecords DEF Shapes, IsRequest
<1>1. CASE CheckArchived(r)
  <2>1. UNCHANGED <<conversation, admitted>> /\ q.pc = "archived"
    BY <1>1 DEF CheckArchived, At
  <2>2. CASE Live(c) /\ conversation[c].archived
    <3>1. GoesOn(r, "done")
      BY <1>1, <2>2, EndGoesOn DEF CheckArchived
    <3>. QED  BY <2>1, <3>1 DEF Moves, Passes, GoesOn, Steps, Counting
  <2>3. CASE ~(Live(c) /\ conversation[c].archived)
    <3>1. GoesOn(r, "pinned")
      BY <1>1, <2>3, GotoGoesOn DEF CheckArchived
    <3>. QED  BY <2>1, <2>3, <3>1 DEF Moves, Passes, GoesOn, Steps, Counting
  <2>. QED  BY <2>2, <2>3
<1>2. CASE ReadPinned(r)
  <2>. DEFINE pc == IF q.how = "regenerate" THEN "scope" ELSE "user"
  <2>1. PICK seen \in {NotPinned} \cup {conversation[x].pinned : x \in {d \in {c} : Live(d)}} :
          request' = [request EXCEPT ![r].pinned = seen, ![r].pc = pc]
    BY <1>2 DEF ReadPinned
  <2>2. ASSUME NEW x, x = c, Live(x)
        PROVE  IsPinned(conversation[x].pinned)
    <3>1. x \in Conversations
      BY <1>0, <2>2 DEF IsRequest, Live, ConversationOf
    <3>. QED  BY <3>1 DEF Shapes, IsConversation
  <2>3. IsPinned(seen)
    BY <1>0, <2>1, <2>2
  <2>4. /\ request' = [request EXCEPT ![r] = [q EXCEPT !.pinned = seen, !.pc = pc]]
    BY <2>1 DEF Shapes
  <2>5. /\ IsRequest([q EXCEPT !.pinned = seen, !.pc = pc])
        /\ [q EXCEPT !.pinned = seen, !.pc = pc].pc = pc
        /\ [q EXCEPT !.pinned = seen, !.pc = pc].conversation = q.conversation
    BY <1>0, <2>3 DEF IsRequest
  <2>6. GoesOn(r, pc)
    BY <2>4, <2>5, ChangeGoesOn
  <2>7. UNCHANGED <<conversation, admitted>> /\ q.pc = "pinned"
    BY <1>2 DEF ReadPinned, At
  <2>. QED  BY <2>6, <2>7, MovesQuietly DEF Steps, Counting
<1>3. ASSUME NEW then, InsertMessage(r, then), UNCHANGED admitted,
             q.pc \in Steps \ (Counting \cup {"archived"}), then \in Counting
      PROVE  Moves(r)
  <2>1. CASE Live(c)
    <3>1. GoesOn(r, then)
      BY <1>3, <2>1, GotoGoesOn DEF InsertMessage
    <3>2. conversation' = [conversation EXCEPT ![c].rows = @ + 1]
      BY <1>3, <2>1 DEF InsertMessage
    <3>3. q.pc # then /\ then \notin {"idle", "archived"}
      BY <1>3 DEF Counting
    <3>. QED  BY <1>3, <2>1, <3>1, <3>2, <3>3 DEF Moves, Grows, GoesOn, At
  <2>2. CASE ~Live(c)
    <3>1. GoesOn(r, "failed") /\ UNCHANGED conversation
      BY <1>3, <2>2, EndGoesOn DEF InsertMessage
    <3>. QED  BY <1>3, <3>1, MovesQuietly DEF Steps, Counting
  <2>. QED  BY <2>1, <2>2
<1>4. ASSUME NEW then, CountMessage(r, then), UNCHANGED admitted,
             q.pc \in {"countUser", "count"}, then \in Steps \ (Counting \cup {"archived"})
      PROVE  Moves(r)
  <2>1. GoesOn(r, then)
    BY <1>4, GotoGoesOn DEF CountMessage
  <2>2. Counts(r, then)
    BY <1>4 DEF CountMessage, Counts
  <2>3. q.pc # then /\ then \notin {"idle", "archived"}
    BY <1>4 DEF Counting, Steps
  <2>4. q.pc \in Steps
    BY <1>4 DEF Steps
  <2>. QED  BY <1>4, <2>1, <2>2, <2>3, <2>4 DEF Moves, GoesOn
<1>5. CASE SaveQuestion(r)
  BY <1>5, <1>3 DEF SaveQuestion, At, Steps, Counting
<1>6. CASE CountQuestion(r)
  BY <1>6, <1>4 DEF CountQuestion, At, Steps, Counting
<1>7. CASE SaveAnswer(r)
  BY <1>7, <1>3 DEF SaveAnswer, At, Steps, Counting
<1>8. CASE CountAnswer(r)
  BY <1>8, <1>4 DEF CountAnswer, At, Steps, Counting
<1>9. CASE FindScope(r)
  <2>. DEFINE found == ResolveScopeResolution(q.question, q.question.named, q.pinned)
              pinned == NextPinned(q.pinned, found)
              own == CacheActiveFilters(q.pinned.own, found.scopes)
  <2>0. q.pc = "scope" /\ UNCHANGED admitted
    BY <1>9 DEF FindScope, At
  <2>1. CASE found.clarify
    <3>1. /\ request' = [request EXCEPT ![r].pc = "reply", ![r].answer = FixedText,
                           ![r].resolution = found]
          /\ UNCHANGED conversation
      BY <1>9, <2>1 DEF FindScope
    <3>2. GoesOn(r, "reply")
      <4>. HIDE DEF found
      <4>. DEFINE new == [q EXCEPT !.pc = "reply", !.answer = FixedText, !.resolution = found]
      <4>1. request' = [request EXCEPT ![r] = new]
        BY <3>1 DEF Shapes
      <4>2. IsRequest(new) /\ new.pc = "reply" /\ new.conversation = q.conversation
        BY <1>0 DEF IsRequest
      <4>. HIDE DEF new
      <4>. QED  BY <4>1, <4>2, ChangeGoesOn
    <3>. QED  BY <2>0, <3>1, <3>2, MovesQuietly DEF Steps, Counting
  <2>2. CASE ~found.clarify
    <3>1. /\ request' = [request EXCEPT ![r].pc = "lookup", ![r].resolution = found,
                           ![r].pinned = pinned, ![r].key = own]
          /\ WritePinned(r, pinned)
      BY <1>9, <2>2 DEF FindScope
    <3>2. IsPinned(pinned)
      BY <1>0, NextPinnedKeepsOwn
    <3>3. GoesOn(r, "lookup")
      <4>. HIDE DEF found, pinned, own
      <4>. DEFINE new == [q EXCEPT !.pc = "lookup", !.resolution = found, !.pinned = pinned,
                            !.key = own]
      <4>1. request' = [request EXCEPT ![r] = new]
        BY <3>1 DEF Shapes
      <4>2. IsRequest(new) /\ new.pc = "lookup" /\ new.conversation = q.conversation
        BY <1>0, <3>2 DEF IsRequest
      <4>. HIDE DEF new
      <4>. QED  BY <4>1, <4>2, ChangeGoesOn
    <3>4. Pins(r, "lookup")
      BY <2>0, <3>1 DEF Pins, At, Counting
    <3>. QED  BY <2>0, <3>3, <3>4 DEF Moves, GoesOn, Steps, Counting
  <2>. QED  BY <2>1, <2>2
<1>10. CASE LookUp(r)
  <2>0. q.pc = "lookup" /\ UNCHANGED <<conversation, admitted>>
    BY <1>10 DEF LookUp, At
  <2>1. CASE Goto(r, "detect")
    BY <2>0, <2>1, GotoGoesOn, MovesQuietly DEF Steps, Counting
  <2>2. ASSUME NEW entry,
               request' = [request EXCEPT ![r].pc = "reply", ![r].hit = TRUE,
                 ![r].answer = [kind |-> "answer", meant |-> entry.meant,
                                cites |-> Renumbered(entry.meant)]]
        PROVE  Moves(r)
    <3>. DEFINE ans == [kind |-> "answer", meant |-> entry.meant, cites |-> Renumbered(entry.meant)]
    <3>. HIDE DEF ans
    <3>. DEFINE new == [q EXCEPT !.pc = "reply", !.hit = TRUE, !.answer = ans]
    <3>1. request' = [request EXCEPT ![r] = new]
      BY <2>2 DEF Shapes, ans
    <3>2. IsRequest(new) /\ new.pc = "reply" /\ new.conversation = q.conversation
      BY <1>0 DEF IsRequest
    <3>. HIDE DEF new
    <3>. QED  BY <2>0, <3>1, <3>2, ChangeGoesOn, MovesQuietly DEF Steps, Counting
  <2>. QED  BY <1>10, <2>1, <2>2 DEF LookUp
<1>11. CASE Detect(r)
  <2>0. q.pc = "detect" /\ UNCHANGED admitted
    BY <1>11 DEF Detect, At
  <2>1. PICK detected, expanded \in Detected, analytics \in BOOLEAN :
          LET found == ScopeFound(r, detected, expanded)
          IN /\ WritePinned(r, NextPinned(q.pinned, found))
             /\ request' = [request EXCEPT ![r].question = "none", ![r].pinned = NotPinned,
                  ![r].resolution = [found EXCEPT !.source = "none"],
                  ![r].key = FinalKey(r, found),
                  ![r].answer = IF analytics THEN FixedText ELSE NoAnswer,
                  ![r].pc = IF analytics THEN "reply" ELSE "retrieve"]
    BY <1>11 DEF Detect
  <2>. DEFINE found == ScopeFound(r, detected, expanded)
              resolution == [found EXCEPT !.source = "none"]
              key == FinalKey(r, found)
              answer == IF analytics THEN FixedText ELSE NoAnswer
              pc == IF analytics THEN "reply" ELSE "retrieve"
  <2>2. /\ WritePinned(r, NextPinned(q.pinned, found))
        /\ request' = [request EXCEPT ![r].question = "none", ![r].pinned = NotPinned,
             ![r].resolution = resolution, ![r].key = key, ![r].answer = answer, ![r].pc = pc]
    BY <2>1
  <2>3. pc \in {"reply", "retrieve"}
    OBVIOUS
  <2>. HIDE DEF found, resolution, key, answer, pc
  <2>. DEFINE new == [q EXCEPT !.question = "none", !.pinned = NotPinned,
                        !.resolution = resolution, !.key = key, !.answer = answer, !.pc = pc]
  <2>4. request' = [request EXCEPT ![r] = new]
    BY <2>2 DEF Shapes
  <2>5. IsRequest(new) /\ new.pc = pc /\ new.conversation = q.conversation
    BY <1>0 DEF IsRequest
  <2>. HIDE DEF new
  <2>6. GoesOn(r, pc)
    BY <2>4, <2>5, ChangeGoesOn
  <2>7. Pins(r, pc)
    BY <2>0, <2>2, <2>3 DEF Pins, At, Counting
  <2>. QED  BY <2>0, <2>3, <2>6, <2>7 DEF Moves, GoesOn, Steps, Counting
<1>12. ASSUME NEW pc, NEW ranked, NEW answer,
              \/ request' = [request EXCEPT ![r].pc = pc, ![r].ranked = ranked]
              \/ request' = [request EXCEPT ![r].ranked = ranked, ![r].answer = answer, ![r].pc = pc]
              \/ request' = [request EXCEPT ![r].pc = pc, ![r].ranked = ranked, ![r].answer = answer]
       PROVE  GoesOn(r, pc)
  <2>. DEFINE one == [q EXCEPT !.pc = pc, !.ranked = ranked]
              new == [q EXCEPT !.pc = pc, !.ranked = ranked, !.answer = answer]
  <2>1. request' = [request EXCEPT ![r] = one] \/ request' = [request EXCEPT ![r] = new]
    <3>1. request \in [Requests -> {request[t] : t \in Requests}]
      BY DEF Shapes
    <3>. QED  BY <1>0, <1>12, <3>1
  <2>2. /\ IsRequest(one) /\ one.pc = pc /\ one.conversation = q.conversation
        /\ IsRequest(new) /\ new.pc = pc /\ new.conversation = q.conversation
    BY <1>0 DEF IsRequest
  <2>. HIDE DEF one, new
  <2>. QED  BY <2>1, <2>2, ChangeGoesOn
<1>13. CASE Retrieve(r)
  <2>1. q.pc = "retrieve" /\ UNCHANGED <<conversation, admitted>>
    BY <1>13 DEF Retrieve, At
  <2>2. PICK ranked : request' = [request EXCEPT ![r].pc = "screen", ![r].ranked = ranked]
    BY <1>13 DEF Retrieve
  <2>3. GoesOn(r, "screen")
    BY <1>12, <2>2
  <2>. QED  BY <2>1, <2>3, MovesQuietly DEF Steps, Counting
<1>14. CASE Screen(r)
  <2>1. q.pc = "screen" /\ UNCHANGED <<conversation, admitted>>
    BY <1>14 DEF Screen, At
  <2>2. PICK balanced :
          request' = [request EXCEPT ![r].ranked = balanced,
                        ![r].answer = IF balanced = <<>> THEN FixedText ELSE NoAnswer,
                        ![r].pc = IF balanced = <<>> THEN "reply" ELSE "generate"]
    BY <1>14 DEF Screen
  <2>. DEFINE answer == IF balanced = <<>> THEN FixedText ELSE NoAnswer
              pc == IF balanced = <<>> THEN "reply" ELSE "generate"
  <2>3. request' = [request EXCEPT ![r].ranked = balanced, ![r].answer = answer, ![r].pc = pc]
    BY <2>2
  <2>4. pc \in {"reply", "generate"}
    OBVIOUS
  <2>. HIDE DEF answer, pc
  <2>5. GoesOn(r, pc)
    BY <1>12, <2>3
  <2>. QED  BY <2>1, <2>4, <2>5, MovesQuietly DEF Steps, Counting
<1>15. CASE Generate(r)
  <2>1. q.pc = "generate" /\ UNCHANGED <<conversation, admitted>>
    BY <1>15 DEF Generate, At
  <2>2. PICK ranked, answer :
          request' = [request EXCEPT ![r].pc = "reply", ![r].ranked = ranked, ![r].answer = answer]
    BY <1>15 DEF Generate
  <2>3. GoesOn(r, "reply")
    BY <1>12, <2>2
  <2>. QED  BY <2>1, <2>3, MovesQuietly DEF Steps, Counting
<1>16. CASE SaveCitations(r)
  <2>1. q.pc = "cite" /\ UNCHANGED <<conversation, admitted>>
    BY <1>16 DEF SaveCitations, At
  <2>2. Goto(r, "store") \/ End(r, "failed")
    BY <1>16 DEF SaveCitations
  <2>3. GoesOn(r, "store") \/ GoesOn(r, "failed")
    BY <2>2, GotoGoesOn, EndGoesOn
  <2>. QED  BY <2>1, <2>3, MovesQuietly DEF Steps, Counting
<1>17. CASE Store(r)
  <2>1. q.pc = "store" /\ UNCHANGED <<conversation, admitted>> /\ Goto(r, "trace")
    BY <1>17 DEF Store, At
  <2>2. GoesOn(r, "trace")
    BY <2>1, GotoGoesOn
  <2>. QED  BY <2>1, <2>2, MovesQuietly DEF Steps, Counting
<1>18. CASE PersistTrace(r)
  <2>1. q.pc = "trace" /\ UNCHANGED <<conversation, admitted>>
    BY <1>18 DEF PersistTrace, At
  <2>2. End(r, "done") \/ End(r, "failed")
    BY <1>18 DEF PersistTrace
  <2>3. GoesOn(r, "done") \/ GoesOn(r, "failed")
    BY <2>2, EndGoesOn
  <2>. QED  BY <2>1, <2>3, MovesQuietly DEF Steps, Counting
<1>19. CASE Throw(r)
  <2>. DEFINE pc == IF q.pc \in {"countUser", "count"} THEN "uncounted" ELSE "failed"
  <2>1. q.pc \in Steps /\ UNCHANGED <<conversation, admitted>> /\ End(r, pc)
    BY <1>19 DEF Throw
  <2>2. GoesOn(r, pc)
    BY <2>1, EndGoesOn
  <2>3. Passes(r, pc)
    BY <2>1 DEF Passes, Steps, Counting
  <2>. QED  BY <2>1, <2>2, <2>3 DEF Moves, GoesOn, Steps
<1>. QED
  BY <1>1, <1>2, <1>5, <1>6, <1>7, <1>8, <1>9, <1>10, <1>11, <1>13, <1>14, <1>15, <1>16, <1>17,
     <1>18, <1>19 DEF Query

-----------------------------------------------------------------------------
(* The steps, as far as conversations and requests are concerned.          *)

\* A question is asked, in a new conversation or in one that there is or was.
Asks(r) ==
  /\ At(r, "idle") /\ UNCHANGED admitted
  /\ \E c \in Conversations :
       /\ request'[r].conversation = c
       /\ request' = [q \in Requests |-> IF q = r THEN request'[r] ELSE request[q]]
       /\ IsRequest(request'[r])
       /\ \/ /\ conversation[c].state = "free" /\ request'[r].pc \in {"user", "scope"}
             /\ conversation' = [conversation EXCEPT ![c] =
                  [@ EXCEPT !.state = "live", !.pinned = EmptyPinned]]
          \/ /\ conversation[c].state # "free" /\ request'[r].pc = "archived"
             /\ UNCHANGED conversation

LEMMA AskAsks ==
  ASSUME Shapes, NEW r \in Requests, Ask(r)
  PROVE  Asks(r)
<1>1. PICK c \in Conversations, question \in Questions[r], how \in {"plain", "regenerate"} :
        AskNew(r, c, question, how) \/ AskIn(r, c, question, how)
  BY DEF Ask
<1>2. CASE AskNew(r, c, question, how)
  <2>. DEFINE pc == IF how = "regenerate" THEN "scope" ELSE "user"
              new == [NotAsked EXCEPT !.pc = pc, !.conversation = c, !.question = question,
                                      !.how = how]
  <2>0. pc \in {"user", "scope"}
    OBVIOUS
  <2>1. IsRequest(new) /\ new.pc \in {"user", "scope"} /\ new.conversation = c
    <3>. HIDE DEF pc
    <3>. QED  BY <2>0, ConstantRecords DEF IsRequest
  <2>2. request' = [request EXCEPT ![r] = new]
    BY <1>2 DEF AskNew
  <2>3. request' = [q \in Requests |-> IF q = r THEN new ELSE request[q]] /\ request'[r] = new
    <3>. HIDE DEF new
    <3>. QED  BY <2>2 DEF Shapes
  <2>4. /\ At(r, "idle") /\ UNCHANGED admitted /\ conversation[c].state = "free"
        /\ conversation' = [conversation EXCEPT ![c] =
             [@ EXCEPT !.state = "live", !.pinned = EmptyPinned]]
    BY <1>2 DEF AskNew
  <2>. HIDE DEF new
  <2>. QED  BY <2>1, <2>3, <2>4 DEF Asks
<1>3. CASE AskIn(r, c, question, how)
  <2>. DEFINE new == [NotAsked EXCEPT !.pc = "archived", !.conversation = c,
                        !.question = question, !.how = how]
  <2>1. IsRequest(new) /\ new.pc = "archived" /\ new.conversation = c
    BY ConstantRecords DEF IsRequest
  <2>2. request' = [request EXCEPT ![r] = new]
    BY <1>3 DEF AskIn
  <2>3. request' = [q \in Requests |-> IF q = r THEN new ELSE request[q]] /\ request'[r] = new
    <3>. HIDE DEF new
    <3>. QED  BY <2>2 DEF Shapes
  <2>4. /\ At(r, "idle") /\ UNCHANGED <<admitted, conversation>> /\ conversation[c].state # "free"
    BY <1>3 DEF AskIn
  <2>. HIDE DEF new
  <2>. QED  BY <2>1, <2>3, <2>4 DEF Asks
<1>. QED  BY <1>1, <1>2, <1>3

LEMMA RequestsOrChanges ==
  ASSUME Shapes, [Next]_askVars
  PROVE  \/ \E r \in Requests : Asks(r) \/ Query(r) \/ Throw(r)
         \/ \E c \in Conversations : PatchConversation(c) \/ DeleteConversation(c)
         \/ UNCHANGED <<conversation, request, admitted>>
<1>1. CASE \E r \in Requests : Ask(r) \/ Query(r) \/ Throw(r)
  BY <1>1, AskAsks
<1>2. ASSUME NEW d \in Documents,
             PatchDocument(d) \/ DeleteDocument(d) \/ ReprocessDocument(d) \/ BatchReprocess(d)
               \/ MakeChunks(d) \/ WorkerFails(d)
      PROVE  UNCHANGED <<conversation, request, admitted>>
  BY <1>2 DEF PatchDocument, DeleteDocument, ReprocessDocument, BatchReprocess, MakeChunks, WorkerFails
<1>3. CASE InvalidateCache \/ UNCHANGED askVars
  BY <1>3 DEF InvalidateCache, askVars
<1>. QED  BY <1>1, <1>2, <1>3 DEF Next

LEMMA StepsOfConversations ==
  ASSUME Shapes, [Next]_askVars
  PROVE  \/ \E r \in Requests : Asks(r) \/ Moves(r)
         \/ \E c \in Conversations : PatchConversation(c) \/ DeleteConversation(c)
         \/ UNCHANGED <<conversation, request, admitted>>
BY RequestsOrChanges, RequestMoves

-----------------------------------------------------------------------------
(* What a step of a request leaves of the rows.                            *)

RowGrows(r, c) ==
  /\ Live(c) /\ request'[r].pc \in Counting /\ request[r].pc \in Steps \ (Counting \cup {"archived"})
  /\ conversation'[c].rows = conversation[c].rows + 1 /\ conversation'[c].count = conversation[c].count
RowCounts(r, c) ==
  /\ request'[r].pc \notin Counting /\ request[r].pc \in Counting
  /\ conversation'[c].rows = conversation[c].rows
  /\ Live(c) => conversation'[c].count = conversation[c].count + 1
  /\ ~Live(c) => conversation'[c].count = conversation[c].count
RowStays(r, c) ==
  /\ (request'[r].pc \in Counting) <=> (request[r].pc \in Counting)
  /\ conversation'[c].rows = conversation[c].rows /\ conversation'[c].count = conversation[c].count

LEMMA RowOfAMove ==
  ASSUME Shapes, NEW r \in Requests, Moves(r)
  PROVE  /\ Shapes'
         /\ \A c \in Conversations :
              /\ conversation'[c].state = conversation[c].state
              /\ conversation'[c].archived = conversation[c].archived
              /\ c # ConversationOf(r) => conversation'[c] = conversation[c]
              /\ c = ConversationOf(r) => RowGrows(r, c) \/ RowCounts(r, c) \/ RowStays(r, c)
              /\ conversation'[c].pinned.own # conversation[c].pinned.own =>
                   /\ c = ConversationOf(r) /\ Live(c)
                   /\ request[r].pinned # conversation[c].pinned
              /\ c = ConversationOf(r) /\ At(r, "archived") /\ request'[r].pc \in Steps =>
                   ~(Live(c) /\ conversation[c].archived)
<1>. DEFINE pc == request'[r].pc  c0 == ConversationOf(r)
<1>1. /\ GoesOn(r, pc) /\ UNCHANGED admitted
      /\ request[r].pc \in Steps /\ request[r].pc # pc
      /\ \/ request[r].pc \in Steps \ Counting /\ Grows(r, pc)
         \/ Counts(r, pc)
         \/ request[r].pc \in Steps \ Counting /\ Pins(r, pc)
         \/ Passes(r, pc)
  BY DEF Moves
<1>2. /\ request' = [q \in Requests |-> request'[q]]
      /\ \A q \in Requests : IsRequest(request'[q])
      /\ admitted' \in [Conversations -> SUBSET Requests]
  BY <1>1 DEF GoesOn, Shapes
<1>3. Live(c0) => c0 \in Conversations
  BY DEF Shapes, IsRequest, Live, ConversationOf
<1>4. ASSUME NEW row, IsConversation(row), c0 \in Conversations,
             conversation' = [conversation EXCEPT ![c0] = row]
      PROVE  /\ Shapes' /\ conversation'[c0] = row
             /\ \A c \in Conversations : c # c0 => conversation'[c] = conversation[c]
  BY <1>2, <1>4 DEF Shapes
<1>5. UNCHANGED conversation => Shapes'
  BY <1>2 DEF Shapes
<1>10. ASSUME NEW row, IsConversation(row), c0 \in Conversations, Live(c0),
              conversation' = [conversation EXCEPT ![c0] = row],
              row.state = conversation[c0].state, row.archived = conversation[c0].archived,
              RowGrows(r, c0) \/ RowCounts(r, c0) \/ RowStays(r, c0),
              row.pinned.own # conversation[c0].pinned.own => request[r].pinned # conversation[c0].pinned,
              ~(At(r, "archived") /\ pc \in Steps)
       PROVE  /\ Shapes'
             /\ \A c \in Conversations :
                  /\ conversation'[c].state = conversation[c].state
                  /\ conversation'[c].archived = conversation[c].archived
                  /\ c # ConversationOf(r) => conversation'[c] = conversation[c]
                  /\ c = ConversationOf(r) => RowGrows(r, c) \/ RowCounts(r, c) \/ RowStays(r, c)
                  /\ conversation'[c].pinned.own # conversation[c].pinned.own =>
                       /\ c = ConversationOf(r) /\ Live(c)
                       /\ request[r].pinned # conversation[c].pinned
                  /\ c = ConversationOf(r) /\ At(r, "archived") /\ request'[r].pc \in Steps =>
                       ~(Live(c) /\ conversation[c].archived)
  <2>1. Shapes'
    BY <1>4, <1>10
  <2>2. conversation'[c0] = row /\ \A c \in Conversations : c # c0 => conversation'[c] = conversation[c]
    BY <1>4, <1>10
  <2>. SUFFICES ASSUME NEW c \in Conversations
                PROVE  /\ conversation'[c].state = conversation[c].state
                       /\ conversation'[c].archived = conversation[c].archived
                       /\ c # c0 => conversation'[c] = conversation[c]
                       /\ c = c0 => RowGrows(r, c) \/ RowCounts(r, c) \/ RowStays(r, c)
                       /\ conversation'[c].pinned.own # conversation[c].pinned.own =>
                            c = c0 /\ Live(c) /\ request[r].pinned # conversation[c].pinned
                       /\ c = c0 /\ At(r, "archived") /\ pc \in Steps =>
                            ~(Live(c) /\ conversation[c].archived)
    BY <2>1
  <2>3. CASE c = c0
    BY <1>10, <2>2, <2>3
  <2>4. CASE c # c0
    BY <2>2, <2>4
  <2>. QED  BY <2>3, <2>4
<1>6. CASE request[r].pc \in Steps \ Counting /\ Grows(r, pc)
  <2>. DEFINE row == [conversation[c0] EXCEPT !.rows = @ + 1]
  <2>1. pc \in Counting /\ ~At(r, "archived") /\ Live(c0) /\ c0 \in Conversations
    BY <1>3, <1>6 DEF Grows
  <2>2. conversation' = [conversation EXCEPT ![c0] = row]
    BY <1>6, <2>1 DEF Grows
  <2>3. /\ IsConversation(row) /\ row.state = conversation[c0].state
        /\ row.archived = conversation[c0].archived /\ row.rows = conversation[c0].rows + 1
        /\ row.count = conversation[c0].count /\ row.pinned = conversation[c0].pinned
    <3>1. IsConversation(conversation[c0]) /\ conversation[c0].rows \in Nat
      BY <2>1 DEF Shapes, IsConversation
    <3>2. conversation[c0].rows + 1 \in Nat
      BY <3>1
    <3>. QED  BY <3>1, <3>2 DEF IsConversation
  <2>. HIDE DEF row
  <2>4. RowGrows(r, c0)
    BY <1>4, <1>6, <2>1, <2>2, <2>3 DEF RowGrows, At
  <2>. QED  BY <1>10, <2>1, <2>2, <2>3, <2>4
<1>7. CASE Counts(r, pc)
  <2>1. request[r].pc \in Counting /\ pc \notin Counting
    BY <1>7 DEF Counts, Counting
  <2>2. CASE Live(c0)
    <3>. DEFINE row == [conversation[c0] EXCEPT !.count = @ + 1]
    <3>1. conversation' = [conversation EXCEPT ![c0] = row] /\ c0 \in Conversations
      BY <1>3, <1>7, <2>2 DEF Counts
    <3>2. /\ IsConversation(row) /\ row.state = conversation[c0].state
          /\ row.archived = conversation[c0].archived /\ row.count = conversation[c0].count + 1
          /\ row.rows = conversation[c0].rows /\ row.pinned = conversation[c0].pinned
      <4>1. IsConversation(conversation[c0]) /\ conversation[c0].count \in Nat
        BY <3>1 DEF Shapes, IsConversation
      <4>2. conversation[c0].count + 1 \in Nat
        BY <4>1
      <4>. QED  BY <4>1, <4>2 DEF IsConversation
    <3>. HIDE DEF row
    <3>3. RowCounts(r, c0)
      BY <1>4, <2>1, <2>2, <3>1, <3>2 DEF RowCounts
    <3>4. ~At(r, "archived")
      BY <2>1 DEF At, Counting
    <3>. QED  BY <1>10, <2>2, <3>1, <3>2, <3>3, <3>4
  <2>3. CASE ~Live(c0)
    <3>1. UNCHANGED conversation
      BY <1>7, <2>3 DEF Counts
    <3>2. RowCounts(r, c0)
      BY <2>1, <2>3, <3>1 DEF RowCounts
    <3>. QED  BY <1>5, <2>1, <3>1, <3>2 DEF At, Counting
  <2>. QED  BY <2>2, <2>3
<1>8. CASE request[r].pc \in Steps \ Counting /\ Pins(r, pc)
  <2>1. pc \notin Counting /\ ~At(r, "archived")
    BY <1>8 DEF Pins
  <2>2. PICK found : WritePinned(r, NextPinned(request[r].pinned, found))
    BY <1>8 DEF Pins
  <2>. DEFINE pinned == NextPinned(request[r].pinned, found)
  <2>3. IsPinned(pinned) /\ pinned.own = request[r].pinned.own
    BY NextPinnedKeepsOwn DEF Shapes, IsRequest
  <2>4. CASE pinned # request[r].pinned /\ Live(c0)
    <3>. DEFINE row == [conversation[c0] EXCEPT !.pinned = pinned]
    <3>1. conversation' = [conversation EXCEPT ![c0] = row] /\ c0 \in Conversations
      BY <1>3, <2>2, <2>4 DEF WritePinned
    <3>2. /\ IsConversation(row) /\ row.state = conversation[c0].state
          /\ row.archived = conversation[c0].archived /\ row.rows = conversation[c0].rows
          /\ row.count = conversation[c0].count /\ row.pinned = pinned
      <4>. HIDE DEF pinned
      <4>1. IsConversation(conversation[c0])
        BY <3>1 DEF Shapes
      <4>. QED  BY <2>3, <4>1 DEF IsConversation
    <3>. HIDE DEF row, pinned
    <3>3. RowStays(r, c0)
      BY <1>4, <1>8, <2>1, <3>1, <3>2 DEF RowStays
    <3>4. row.pinned.own # conversation[c0].pinned.own =>
            request[r].pinned # conversation[c0].pinned
      BY <2>3, <3>2
    <3>. QED  BY <1>10, <2>1, <2>4, <3>1, <3>2, <3>3, <3>4
  <2>5. CASE ~(pinned # request[r].pinned /\ Live(c0))
    <3>1. UNCHANGED conversation
      BY <2>2, <2>5 DEF WritePinned
    <3>2. RowStays(r, c0)
      BY <1>8, <2>1, <3>1 DEF RowStays
    <3>. QED  BY <1>5, <2>1, <3>1, <3>2
  <2>. QED  BY <2>4, <2>5
<1>9. CASE Passes(r, pc)
  <2>1. UNCHANGED conversation /\ RowStays(r, c0)
    BY <1>9 DEF Passes, RowStays
  <2>2. At(r, "archived") /\ pc \in Steps => ~(Live(c0) /\ conversation[c0].archived)
    BY <1>9 DEF Passes
  <2>. QED  BY <1>5, <2>1, <2>2
<1>. QED  BY <1>1, <1>6, <1>7, <1>8, <1>9

-----------------------------------------------------------------------------
(* The other steps.                                                        *)

LEMMA RowOfAQuestion ==
  ASSUME Shapes, NEW r \in Requests, Asks(r)
  PROVE  /\ Shapes' /\ UNCHANGED admitted /\ request[r].pc = "idle"
         /\ \A q \in Requests \ {r} : request'[q] = request[q]
         /\ \E c \in Conversations :
              /\ request'[r].conversation = c
              /\ \A d \in Conversations \ {c} : conversation'[d] = conversation[d]
              /\ \/ /\ conversation[c].state = "free" /\ request'[r].pc \in {"user", "scope"}
                    /\ conversation'[c].state = "live"
                    /\ conversation'[c].archived = conversation[c].archived
                    /\ conversation'[c].rows = conversation[c].rows
                    /\ conversation'[c].count = conversation[c].count
                 \/ /\ conversation[c].state # "free" /\ request'[r].pc = "archived"
                    /\ conversation'[c] = conversation[c]
<1>1. PICK c \in Conversations :
        /\ request'[r].conversation = c
        /\ request' = [q \in Requests |-> IF q = r THEN request'[r] ELSE request[q]]
        /\ IsRequest(request'[r])
        /\ \/ /\ conversation[c].state = "free" /\ request'[r].pc \in {"user", "scope"}
              /\ conversation' = [conversation EXCEPT ![c] =
                   [@ EXCEPT !.state = "live", !.pinned = EmptyPinned]]
           \/ /\ conversation[c].state # "free" /\ request'[r].pc = "archived"
              /\ UNCHANGED conversation
  BY DEF Asks
<1>2. UNCHANGED admitted /\ request[r].pc = "idle"
  BY DEF Asks, At
<1>3. /\ request' = [q \in Requests |-> request'[q]] /\ \A q \in Requests : IsRequest(request'[q])
      /\ \A q \in Requests \ {r} : request'[q] = request[q]
  BY <1>1 DEF Shapes
<1>4. CASE /\ conversation[c].state # "free" /\ request'[r].pc = "archived"
           /\ UNCHANGED conversation
  <2>1. Shapes'
    BY <1>2, <1>3, <1>4 DEF Shapes
  <2>. QED  BY <1>1, <1>2, <1>3, <1>4, <2>1
<1>5. CASE /\ conversation[c].state = "free" /\ request'[r].pc \in {"user", "scope"}
           /\ conversation' = [conversation EXCEPT ![c] =
                [@ EXCEPT !.state = "live", !.pinned = EmptyPinned]]
  <2>. DEFINE row == [conversation[c] EXCEPT !.state = "live", !.pinned = EmptyPinned]
  <2>1. conversation' = [conversation EXCEPT ![c] = row]
    BY <1>5
  <2>2. /\ IsConversation(row) /\ row.state = "live" /\ row.archived = conversation[c].archived
        /\ row.rows = conversation[c].rows /\ row.count = conversation[c].count
    <3>1. IsConversation(conversation[c])
      BY DEF Shapes
    <3>. QED  BY <3>1, ConstantRecords DEF IsConversation
  <2>. HIDE DEF row
  <2>3. /\ conversation' = [d \in Conversations |-> conversation'[d]] /\ conversation'[c] = row
        /\ \A d \in Conversations \ {c} : conversation'[d] = conversation[d]
    BY <2>1 DEF Shapes
  <2>4. Shapes'
    BY <1>2, <1>3, <2>2, <2>3 DEF Shapes
  <2>. QED  BY <1>1, <1>2, <1>3, <1>5, <2>2, <2>3, <2>4
<1>. QED  BY <1>1, <1>4, <1>5

LEMMA RowOfAChange ==
  ASSUME Shapes, NEW c \in Conversations, PatchConversation(c) \/ DeleteConversation(c)
  PROVE  /\ Shapes' /\ UNCHANGED request /\ Live(c)
         /\ \A d \in Conversations \ {c} :
              conversation'[d] = conversation[d] /\ admitted'[d] = admitted[d]
         /\ \/ /\ conversation'[c].state = "live"
               /\ conversation'[c].rows = conversation[c].rows
               /\ conversation'[c].count = conversation[c].count
               /\ conversation'[c].archived =>
                    IF conversation[c].archived THEN admitted'[c] = admitted[c]
                    ELSE admitted'[c] = {r \in Requests : UnderWay(r, c)}
            \/ /\ conversation'[c].state = "deleted" /\ conversation'[c].archived = FALSE
               /\ conversation'[c].rows = 0
<1>0. IsConversation(conversation[c])
  BY DEF Shapes
<1>1. CASE PatchConversation(c)
  <2>1. PICK a \in BOOLEAN,
             p \in {conversation[c].pinned} \cup {[EmptyPinned EXCEPT !.own = o] : o \in OwnFilters} :
          /\ conversation' = [conversation EXCEPT ![c].archived = a, ![c].pinned = p]
          /\ admitted' = [admitted EXCEPT ![c] =
               IF a = conversation[c].archived THEN @
               ELSE IF a THEN {r \in Requests : UnderWay(r, c)} ELSE {}]
    BY <1>1 DEF PatchConversation
  <2>2. Live(c) /\ UNCHANGED request
    BY <1>1 DEF PatchConversation
  <2>3. IsPinned(p)
    <3>1. \A o : IsPinned([EmptyPinned EXCEPT !.own = o])
      BY ConstantRecords DEF IsPinned
    <3>. QED  BY <1>0, <2>1, <3>1 DEF IsConversation
  <2>. DEFINE row == [conversation[c] EXCEPT !.archived = a, !.pinned = p]
              who == IF a = conversation[c].archived THEN admitted[c]
                     ELSE IF a THEN {r \in Requests : UnderWay(r, c)} ELSE {}
  <2>4. conversation' = [conversation EXCEPT ![c] = row]
    BY <2>1 DEF Shapes
  <2>5. /\ IsConversation(row) /\ row.state = conversation[c].state /\ row.archived = a
        /\ row.rows = conversation[c].rows /\ row.count = conversation[c].count
    BY <1>0, <2>3 DEF IsConversation
  <2>6. who \in SUBSET Requests
    BY DEF Shapes
  <2>7. admitted' = [admitted EXCEPT ![c] = who]
    BY <2>1
  <2>8. a => IF conversation[c].archived THEN who = admitted[c]
             ELSE who = {r \in Requests : UnderWay(r, c)}
    <3>1. conversation[c].archived \in BOOLEAN
      BY <1>0 DEF IsConversation
    <3>. QED  BY <3>1
  <2>. HIDE DEF row, who
  <2>9. /\ conversation' = [d \in Conversations |-> conversation'[d]] /\ conversation'[c] = row
        /\ \A d \in Conversations \ {c} : conversation'[d] = conversation[d]
    BY <2>4 DEF Shapes
  <2>10. /\ admitted' \in [Conversations -> SUBSET Requests] /\ admitted'[c] = who
         /\ \A d \in Conversations \ {c} : admitted'[d] = admitted[d]
    BY <2>6, <2>7 DEF Shapes
  <2>11. Shapes'
    BY <2>2, <2>5, <2>9, <2>10 DEF Shapes
  <2>. QED  BY <2>2, <2>5, <2>8, <2>9, <2>10, <2>11 DEF Live
<1>2. CASE DeleteConversation(c)
  <2>. DEFINE row == [NoRow EXCEPT !.state = "deleted"]
  <2>1. /\ conversation' = [conversation EXCEPT ![c] = row]
        /\ Live(c) /\ UNCHANGED <<request, admitted>>
    BY <1>2 DEF DeleteConversation
  <2>2. IsConversation(row) /\ row.state = "deleted" /\ row.archived = FALSE /\ row.rows = 0
    BY ConstantRecords DEF IsConversation
  <2>. HIDE DEF row
  <2>3. /\ conversation' = [d \in Conversations |-> conversation'[d]] /\ conversation'[c] = row
        /\ \A d \in Conversations \ {c} : conversation'[d] = conversation[d]
    BY <2>1 DEF Shapes
  <2>4. Shapes'
    BY <2>1, <2>2, <2>3 DEF Shapes
  <2>. QED  BY <2>1, <2>2, <2>3, <2>4
<1>. QED  BY <1>1, <1>2

-----------------------------------------------------------------------------
(* The messages that are inserted and not counted.                         *)

\* One request has moved, in its conversation or into it.
LEMMA UncountedMoves ==
  ASSUME NEW r \in Requests, NEW c \in Conversations,
         \A q \in Requests \ {r} : request'[q] = request[q]
  PROVE  /\ IsFiniteSet(Uncounted(c)) /\ Cardinality(Uncounted(c)) \in Nat
         /\ (r \in Uncounted(c)') <=> (r \in Uncounted(c)) => Uncounted(c)' = Uncounted(c)
         /\ r \in Uncounted(c)' /\ r \notin Uncounted(c) =>
              Cardinality(Uncounted(c)') = Cardinality(Uncounted(c)) + 1
         /\ r \notin Uncounted(c)' /\ r \in Uncounted(c) =>
              Cardinality(Uncounted(c)) = Cardinality(Uncounted(c)') + 1
<1>. DEFINE U == Uncounted(c)  V == Uncounted(c)'
<1>1. U \subseteq Requests /\ V \subseteq Requests /\ IsFiniteSet(Requests)
  BY AskAssumption DEF Uncounted
<1>2. IsFiniteSet(U) /\ IsFiniteSet(V) /\ Cardinality(U) \in Nat /\ Cardinality(V) \in Nat
  BY <1>1, FS_Subset, FS_CardinalityType
<1>3. \A q \in Requests \ {r} : q \in V <=> q \in U
  BY DEF Uncounted
<1>. HIDE DEF U, V
<1>4. (r \in V <=> r \in U) => V = U
  BY <1>1, <1>3
<1>5. r \in V /\ r \notin U => Cardinality(V) = Cardinality(U) + 1
  <2>1. r \in V /\ r \notin U => V = U \cup {r}
    BY <1>1, <1>3
  <2>. QED  BY <1>2, <2>1, FS_AddElement
<1>6. r \notin V /\ r \in U => Cardinality(U) = Cardinality(V) + 1
  <2>1. r \notin V /\ r \in U => U = V \cup {r}
    BY <1>1, <1>3
  <2>. QED  BY <1>2, <2>1, FS_AddElement
<1>. QED  BY <1>2, <1>4, <1>5, <1>6 DEF U, V

-----------------------------------------------------------------------------
(* The invariant.                                                          *)

LEMMA InitAsk == Init => AskInv
<1>. SUFFICES ASSUME Init
              PROVE  AskInv
  OBVIOUS
<1>1. PICK old \in SUBSET Conversations :
        conversation = [c \in Conversations |->
          IF c \in old THEN [NoRow EXCEPT !.state = "live", !.pinned = EmptyPinned] ELSE NoRow]
  BY DEF Init
<1>. DEFINE row == [NoRow EXCEPT !.state = "live", !.pinned = EmptyPinned]
<1>2. /\ IsConversation(row) /\ row.state = "live" /\ row.archived = FALSE
      /\ row.rows = 0 /\ row.count = 0
  BY ConstantRecords DEF IsConversation
<1>3. conversation = [c \in Conversations |-> IF c \in old THEN row ELSE NoRow]
  BY <1>1
<1>. HIDE DEF row
<1>4. /\ request = [r \in Requests |-> NotAsked]
      /\ admitted = [c \in Conversations |-> {}]
  BY DEF Init
<1>5. Shapes
  BY <1>2, <1>3, <1>4, ConstantRecords DEF Shapes
<1>6. \A r \in Requests : request[r].pc = "idle" /\ request[r].conversation = NoConversation
  BY <1>4, ConstantRecords
<1>7. \A c \in Conversations :
        /\ conversation[c].archived = FALSE /\ conversation[c].rows = 0 /\ conversation[c].count = 0
  BY <1>2, <1>3, ConstantRecords
<1>8. FreeIsUnused
  BY <1>6, <1>7, AskAssumption DEF FreeIsUnused
<1>9. ArchivedIsLive /\ ArchivedAdmits
  BY <1>7 DEF ArchivedIsLive, ArchivedAdmits
<1>10. CountTracksMessages
  <2>1. ASSUME NEW c \in Conversations
        PROVE  Uncounted(c) = {}
    BY <1>6 DEF Uncounted, Counting
  <2>2. \A c \in Conversations : Cardinality(Uncounted(c)) = 0
    BY <2>1, FS_EmptySet
  <2>. QED  BY <1>7, <2>2 DEF CountTracksMessages, Uncounted, Counting
<1>. QED  BY <1>5, <1>8, <1>9, <1>10 DEF AskInv

Tracked(c) == Live(c) => conversation[c].rows = conversation[c].count + Cardinality(Uncounted(c))

LEMMA TrackedIsCounted == CountTracksMessages <=> \A c \in Conversations : Tracked(c)
BY DEF CountTracksMessages, Tracked, Uncounted, Counting

LEMMA NextAsk ==
  ASSUME AskInv, [Next]_askVars
  PROVE  AskInv'
<1>. USE DEF AskInv
<1>0. \A c \in Conversations : Tracked(c) /\ c # NoConversation
  BY TrackedIsCounted, AskAssumption
<1>1. \A c \in Conversations : /\ conversation[c].rows \in Nat /\ conversation[c].count \in Nat
                               /\ conversation[c].state \in {"free", "live", "deleted"}
  BY DEF Shapes, IsConversation
<1>2. ASSUME Shapes', \A c \in Conversations : Tracked(c)', FreeIsUnused', ArchivedIsLive',
             ArchivedAdmits'
      PROVE  AskInv'
  <2>1. CountTracksMessages' <=> \A c \in Conversations : Tracked(c)'
    BY DEF CountTracksMessages, Tracked, Uncounted, Counting
  <2>. QED  BY <1>2, <2>1
<1>3. ASSUME NEW r \in Requests, Asks(r)
      PROVE  AskInv'
  <2>1. /\ Shapes' /\ UNCHANGED admitted /\ request[r].pc = "idle"
        /\ \A q \in Requests \ {r} : request'[q] = request[q]
    BY <1>3, RowOfAQuestion
  <2>2. PICK c \in Conversations :
          /\ request'[r].conversation = c
          /\ \A d \in Conversations \ {c} : conversation'[d] = conversation[d]
          /\ \/ /\ conversation[c].state = "free" /\ request'[r].pc \in {"user", "scope"}
                /\ conversation'[c].state = "live"
                /\ conversation'[c].archived = conversation[c].archived
                /\ conversation'[c].rows = conversation[c].rows
                /\ conversation'[c].count = conversation[c].count
             \/ /\ conversation[c].state # "free" /\ request'[r].pc = "archived"
                /\ conversation'[c] = conversation[c]
    BY <1>3, RowOfAQuestion
  <2>3. ASSUME NEW d \in Conversations
        PROVE  Tracked(d)'
    <3>1. r \notin Uncounted(d) /\ r \notin Uncounted(d)'
      BY <2>1, <2>2 DEF Uncounted, Counting
    <3>2. Uncounted(d)' = Uncounted(d)
      BY <2>1, <3>1, UncountedMoves
    <3>3. CASE conversation[d].state = "free" /\ d = c
      <4>1. Uncounted(d) = {}
        BY <3>3 DEF FreeIsUnused, Uncounted
      <4>. QED  BY <2>2, <3>2, <3>3, <4>1, FS_EmptySet DEF FreeIsUnused, Tracked
    <3>4. CASE ~(conversation[d].state = "free" /\ d = c)
      <4>1. conversation'[d] = conversation[d]
        BY <2>2, <3>4
      <4>. QED  BY <1>0, <3>2, <4>1 DEF Tracked, Live
    <3>. QED  BY <3>3, <3>4
  <2>4. FreeIsUnused'
    BY <2>1, <2>2 DEF FreeIsUnused
  <2>5. ArchivedIsLive'
    BY <2>2 DEF ArchivedIsLive
  <2>6. ArchivedAdmits'
    <3>1. ASSUME NEW d \in Conversations, NEW q \in Requests, conversation'[d].archived,
                 UnderWay(q, d)', request'[q].pc # "archived"
          PROVE  q \in admitted'[d]
      <4>1. d # c \/ conversation[d].state # "free"
        BY <2>2, <3>1 DEF ArchivedIsLive
      <4>2. conversation[d].archived
        BY <2>2, <3>1
      <4>3. q # r
        BY <2>2, <3>1, <4>1 DEF UnderWay
      <4>. QED  BY <2>1, <3>1, <4>2, <4>3 DEF ArchivedAdmits, UnderWay
    <3>. QED  BY <3>1 DEF ArchivedAdmits, UnderWay
  <2>. QED  BY <1>2, <2>1, <2>3, <2>4, <2>5, <2>6
<1>4. ASSUME NEW r \in Requests, Moves(r)
      PROVE  AskInv'
  <2>. DEFINE c0 == ConversationOf(r)
  <2>1. /\ UNCHANGED admitted /\ request[r].pc \in Steps
        /\ request'[r].conversation = request[r].conversation
        /\ request'[r].pc \notin {"idle", "archived"}
        /\ \A q \in Requests \ {r} : request'[q] = request[q]
    BY <1>4 DEF Moves, GoesOn
  <2>2. Shapes'
    BY <1>4, RowOfAMove
  <2>3. \A c \in Conversations :
              /\ conversation'[c].state = conversation[c].state
              /\ conversation'[c].archived = conversation[c].archived
              /\ c # c0 => conversation'[c] = conversation[c]
              /\ c = c0 => RowGrows(r, c) \/ RowCounts(r, c) \/ RowStays(r, c)
              /\ c = c0 /\ At(r, "archived") /\ request'[r].pc \in Steps =>
                   ~(Live(c) /\ conversation[c].archived)
    BY <1>4, RowOfAMove
  <2>4. ASSUME NEW c \in Conversations
        PROVE  Tracked(c)'
    <3>1. Live(c)' <=> Live(c)
      BY <2>3 DEF Live
    <3>2. (r \in Uncounted(c) <=> c = c0 /\ request[r].pc \in Counting)
          /\ (r \in Uncounted(c)' <=> c = c0 /\ request'[r].pc \in Counting)
      BY <2>1 DEF Uncounted, ConversationOf
    <3>3. CASE c # c0
      <4>1. Uncounted(c)' = Uncounted(c)
        BY <2>1, <3>2, <3>3, UncountedMoves
      <4>. QED  BY <1>0, <2>3, <3>1, <3>3, <4>1 DEF Tracked
    <3>4. CASE c = c0 /\ RowGrows(r, c)
      <4>1. Cardinality(Uncounted(c)') = Cardinality(Uncounted(c)) + 1
            /\ Cardinality(Uncounted(c)) \in Nat
        BY <2>1, <3>2, <3>4, UncountedMoves DEF RowGrows
      <4>. QED  BY <1>0, <1>1, <3>1, <3>4, <4>1 DEF Tracked, RowGrows
    <3>5. CASE c = c0 /\ RowCounts(r, c)
      <4>1. Cardinality(Uncounted(c)) = Cardinality(Uncounted(c)') + 1
        BY <2>1, <3>2, <3>5, UncountedMoves DEF RowCounts
      <4>2. IsFiniteSet(Uncounted(c)') /\ Cardinality(Uncounted(c)') \in Nat
        <5>1. Uncounted(c)' \subseteq Requests
          BY DEF Uncounted
        <5>. QED  BY <5>1, AskAssumption, FS_Subset, FS_CardinalityType
      <4>. QED  BY <1>0, <1>1, <3>1, <3>5, <4>1, <4>2 DEF Tracked, RowCounts
    <3>6. CASE c = c0 /\ RowStays(r, c)
      <4>1. Uncounted(c)' = Uncounted(c)
        BY <2>1, <3>2, <3>6, UncountedMoves DEF RowStays
      <4>. QED  BY <1>0, <3>1, <3>6, <4>1 DEF Tracked, RowStays
    <3>. QED  BY <2>3, <3>3, <3>4, <3>5, <3>6
  <2>5. FreeIsUnused'
    <3>1. ASSUME NEW c \in Conversations, conversation'[c].state = "free"
          PROVE  /\ conversation'[c].rows = 0 /\ conversation'[c].count = 0
                 /\ \A q \in Requests : request'[q].conversation # c
      <4>1. conversation[c].state = "free" /\ c # c0
        BY <2>3, <3>1 DEF FreeIsUnused, ConversationOf
      <4>. QED  BY <2>1, <2>3, <4>1 DEF FreeIsUnused
    <3>. QED  BY <3>1 DEF FreeIsUnused
  <2>6. ArchivedIsLive'
    BY <2>3 DEF ArchivedIsLive
  <2>7. ArchivedAdmits'
    <3>1. ASSUME NEW c \in Conversations, NEW q \in Requests, conversation'[c].archived,
                 UnderWay(q, c)', request'[q].pc # "archived"
          PROVE  q \in admitted'[c]
      <4>1. conversation[c].archived /\ Live(c)
        BY <1>0, <2>3, <3>1 DEF ArchivedIsLive, Live
      <4>2. CASE q = r
        <5>1. c = c0 /\ request'[r].pc \in Steps
          BY <2>1, <3>1, <4>2 DEF UnderWay, ConversationOf
        <5>2. ~At(r, "archived")
          BY <2>3, <4>1, <5>1
        <5>3. UnderWay(r, c)
          BY <2>1, <5>1 DEF UnderWay, ConversationOf
        <5>. QED  BY <2>1, <4>1, <4>2, <5>2, <5>3 DEF ArchivedAdmits, At
      <4>3. CASE q # r
        BY <2>1, <3>1, <4>1, <4>3 DEF ArchivedAdmits, UnderWay
      <4>. QED  BY <4>2, <4>3
    <3>. QED  BY <3>1 DEF ArchivedAdmits, UnderWay
  <2>. QED  BY <1>2, <2>2, <2>4, <2>5, <2>6, <2>7
<1>5. ASSUME NEW c \in Conversations, PatchConversation(c) \/ DeleteConversation(c)
      PROVE  AskInv'
  <2>1. /\ Shapes' /\ UNCHANGED request /\ Live(c)
        /\ \A d \in Conversations \ {c} :
             conversation'[d] = conversation[d] /\ admitted'[d] = admitted[d]
        /\ \/ /\ conversation'[c].state = "live"
              /\ conversation'[c].rows = conversation[c].rows
              /\ conversation'[c].count = conversation[c].count
              /\ conversation'[c].archived =>
                   IF conversation[c].archived THEN admitted'[c] = admitted[c]
                   ELSE admitted'[c] = {r \in Requests : UnderWay(r, c)}
           \/ /\ conversation'[c].state = "deleted" /\ conversation'[c].archived = FALSE
              /\ conversation'[c].rows = 0
    BY <1>5, RowOfAChange
  <2>2. ASSUME NEW d \in Conversations
        PROVE  Tracked(d)'
    <3>1. Uncounted(d)' = Uncounted(d)
      BY <2>1 DEF Uncounted
    <3>. QED  BY <1>0, <2>1, <3>1 DEF Tracked, Live
  <2>3. FreeIsUnused'
    BY <2>1 DEF FreeIsUnused
  <2>4. ArchivedIsLive'
    BY <2>1 DEF ArchivedIsLive
  <2>5. ArchivedAdmits'
    BY <2>1 DEF ArchivedAdmits, UnderWay
  <2>. QED  BY <1>2, <2>1, <2>2, <2>3, <2>4, <2>5
<1>6. CASE UNCHANGED <<conversation, request, admitted>>
  <2>1. /\ conversation' = conversation /\ request' = request /\ admitted' = admitted
    BY <1>6
  <2>2. ASSUME NEW c \in Conversations
        PROVE  Tracked(c)'
    <3>1. Uncounted(c)' = Uncounted(c)
      BY <2>1 DEF Uncounted
    <3>. QED  BY <1>0, <2>1, <3>1 DEF Tracked, Live
  <2>3. Shapes' /\ FreeIsUnused' /\ ArchivedIsLive'
    BY <2>1 DEF Shapes, FreeIsUnused, ArchivedIsLive
  <2>4. ArchivedAdmits'
    BY <2>1 DEF ArchivedAdmits, UnderWay
  <2>. QED  BY <1>2, <2>2, <2>3, <2>4
<1>. QED  BY <1>3, <1>4, <1>5, <1>6, StepsOfConversations

THEOREM AskInvariant == Spec => []AskInv
<1>1. AskInv /\ [Next]_askVars => AskInv'
  BY NextAsk
<1>. QED  BY InitAsk, <1>1, PTL DEF Spec

\* However the requests interleave, with each other and with everything else, and wherever
\* they fail: message_count is behind the message rows by exactly the messages whose UPDATE
\* is still to come or never came (pipeline.ts inserts and counts in two statements).
THEOREM CountTracks == Spec => []CountTracksMessages
<1>1. AskInv => CountTracksMessages
  BY DEF AskInv
<1>. QED  BY AskInvariant, <1>1, PTL

\* A user's own pinned filters change only by PATCH, or by a request that had read the
\* column before it changed and writes it back whole (pipeline.ts, pinned_filters).
THEOREM OwnFiltersKept == Spec => OwnFiltersAreTheUsers
<1>. DEFINE OwnKept(c) ==
       Live(c) /\ conversation[c].pinned.own # conversation'[c].pinned.own =>
         \/ conversation'[c].state = "deleted" \/ request' = request
         \/ \E r \in Requests : /\ request[r] # request'[r] /\ ConversationOf(r) = c
                                /\ request[r].pinned # conversation[c].pinned
<1>1. ASSUME AskInv, [Next]_askVars, NEW c \in Conversations
      PROVE  OwnKept(c)
  <2>1. Shapes
    BY <1>1 DEF AskInv
  <2>2. ASSUME NEW r \in Requests, Asks(r)
        PROVE  OwnKept(c)
    <3>1. PICK d \in Conversations :
            /\ \A e \in Conversations \ {d} : conversation'[e] = conversation[e]
            /\ conversation[d].state = "free" \/ conversation'[d] = conversation[d]
      BY <2>1, <2>2, RowOfAQuestion
    <3>. QED  BY <3>1 DEF Live
  <2>3. ASSUME NEW r \in Requests, Moves(r)
        PROVE  OwnKept(c)
    <3>1. conversation'[c].pinned.own # conversation[c].pinned.own =>
            c = ConversationOf(r) /\ request[r].pinned # conversation[c].pinned
      BY <2>1, <2>3, RowOfAMove
    <3>2. request[r] # request'[r]
      BY <2>3 DEF Moves
    <3>. QED  BY <3>1, <3>2
  <2>4. ASSUME NEW d \in Conversations, PatchConversation(d) \/ DeleteConversation(d)
        PROVE  OwnKept(c)
    BY <2>1, <2>4, RowOfAChange
  <2>5. CASE UNCHANGED <<conversation, request, admitted>>
    BY <2>5
  <2>. QED  BY <1>1, <2>1, <2>2, <2>3, <2>4, <2>5, StepsOfConversations
<1>2. AskInv /\ [Next]_askVars => [\A c \in Conversations : OwnKept(c)]_askVars
  BY <1>1
<1>. QED  BY AskInvariant, <1>2, PTL DEF Spec, OwnFiltersAreTheUsers

\* An archived conversation grows only by the requests that were past the check when it
\* was archived (rag-routes.ts checks is_archived once, before the pipeline).
THEOREM ArchivedDrains == Spec => ArchivedOnlyDrains
<1>. DEFINE Drains(c) ==
       conversation[c].archived /\ conversation'[c].rows > conversation[c].rows =>
         \E r \in admitted[c] : request[r] # request'[r]
<1>1. ASSUME AskInv, [Next]_askVars, NEW c \in Conversations
      PROVE  Drains(c)
  <2>1. Shapes /\ ArchivedIsLive /\ ArchivedAdmits
    BY <1>1 DEF AskInv
  <2>2. conversation[c].rows \in Nat
    BY <2>1 DEF Shapes, IsConversation
  <2>3. ASSUME NEW r \in Requests, Asks(r)
        PROVE  Drains(c)
    <3>1. PICK d \in Conversations :
            /\ \A e \in Conversations \ {d} : conversation'[e] = conversation[e]
            /\ conversation'[d].rows = conversation[d].rows \/ conversation'[d] = conversation[d]
      BY <2>1, <2>3, RowOfAQuestion
    <3>2. conversation'[c].rows = conversation[c].rows
      BY <3>1
    <3>. QED  BY <2>2, <3>2
  <2>4. ASSUME NEW r \in Requests, Moves(r)
        PROVE  Drains(c)
    <3>1. /\ c # ConversationOf(r) => conversation'[c] = conversation[c]
          /\ c = ConversationOf(r) => RowGrows(r, c) \/ RowCounts(r, c) \/ RowStays(r, c)
      BY <2>1, <2>4, RowOfAMove
    <3>2. request[r] # request'[r]
      BY <2>4 DEF Moves
    <3>3. CASE c = ConversationOf(r) /\ RowGrows(r, c)
      BY <2>1, <3>2, <3>3 DEF ArchivedAdmits, UnderWay, RowGrows, ConversationOf
    <3>4. CASE ~(c = ConversationOf(r) /\ RowGrows(r, c))
      <4>1. conversation'[c].rows = conversation[c].rows
        BY <3>1, <3>4 DEF RowCounts, RowStays
      <4>. QED  BY <2>2, <4>1
    <3>. QED  BY <3>3, <3>4
  <2>5. ASSUME NEW d \in Conversations, PatchConversation(d) \/ DeleteConversation(d)
        PROVE  Drains(c)
    <3>1. conversation'[c].rows = conversation[c].rows \/ conversation'[c].rows = 0
      BY <2>1, <2>5, RowOfAChange
    <3>. QED  BY <2>2, <3>1
  <2>6. CASE UNCHANGED <<conversation, request, admitted>>
    BY <2>2, <2>6
  <2>. QED  BY <1>1, <2>1, <2>3, <2>4, <2>5, <2>6, StepsOfConversations
<1>2. AskInv /\ [Next]_askVars => [\A c \in Conversations : Drains(c)]_askVars
  BY <1>1
<1>. QED  BY AskInvariant, <1>2, PTL DEF Spec, ArchivedOnlyDrains

-----------------------------------------------------------------------------
(* The requests as exchanges of ConversationContract.                      *)

Shut(c) == Live(c) /\ conversation[c].archived

\* From where to where a request goes.
Follows(r) ==
  LET q == request[r]
      n == request'[r]
  IN \/ q.pc \in Steps /\ n.pc = "failed"
     \/ q.pc \in {"countUser", "count"} /\ n.pc = "uncounted"
     \/ q.pc = "archived" /\ n.pc = "done" /\ Shut(ConversationOf(r))
     \/ q.pc = "archived" /\ n.pc = "pinned" /\ n.how = q.how /\ ~Shut(ConversationOf(r))
     \/ q.pc = "pinned" /\ n.pc = IF q.how = "regenerate" THEN "scope" ELSE "user"
     \/ q.pc = "user" /\ n.pc = "countUser"
     \/ q.pc \in AfterQuestion \ {"reply"} /\ n.pc \in AfterQuestion \ {"countUser"}
     \/ q.pc = "reply" /\ n.pc = "count"
     \/ q.pc \in {"count", "cite", "store"} /\ n.pc \in {"cite", "store", "trace"}
     \/ q.pc = "trace" /\ n.pc = "done" /\ Live(ConversationOf(r))

LEMMA StepFollows ==
  ASSUME Shapes, NEW r \in Requests, Query(r) \/ Throw(r)
  PROVE  Follows(r)
<1>. DEFINE q == request[r]  n == request'[r]  c == ConversationOf(r)
<1>0. IsRequest(q) /\ request = [t \in Requests |-> request[t]]
  BY DEF Shapes
<1>1. ASSUME NEW pc, Goto(r, pc)
      PROVE  n.pc = pc /\ n.how = q.how
  BY <1>0, <1>1 DEF Goto, IsRequest
<1>2. ASSUME NEW pc, End(r, pc)
      PROVE  n.pc = pc
  <2>1. request' = [request EXCEPT ![r] =
                      [NotAsked EXCEPT !.pc = pc, !.conversation = q.conversation]]
    BY <1>2 DEF End
  <2>2. [NotAsked EXCEPT !.pc = pc, !.conversation = q.conversation].pc = pc
    BY DEF NotAsked
  <2>. QED  BY <1>0, <2>1, <2>2
<1>3. CASE CheckArchived(r)
  BY <1>1, <1>2, <1>3 DEF CheckArchived, At, Follows, Shut
<1>4. CASE ReadPinned(r)
  <2>. DEFINE pc == IF q.how = "regenerate" THEN "scope" ELSE "user"
  <2>1. q.pc = "pinned"
    BY <1>4 DEF ReadPinned, At
  <2>2. PICK seen : request' = [request EXCEPT ![r].pinned = seen, ![r].pc = pc]
    BY <1>4 DEF ReadPinned
  <2>3. n.pc = pc
    <3>. HIDE DEF pc
    <3>. QED  BY <1>0, <2>2 DEF IsRequest
  <2>. QED  BY <2>1, <2>3 DEF Follows
<1>5. ASSUME NEW then, InsertMessage(r, then)
      PROVE  n.pc = then \/ n.pc = "failed"
  BY <1>1, <1>2, <1>5 DEF InsertMessage
<1>6. CASE SaveQuestion(r) \/ SaveAnswer(r)
  BY <1>5, <1>6 DEF SaveQuestion, SaveAnswer, At, Follows, Steps
<1>7. CASE CountQuestion(r)
  <2>1. q.pc = "countUser" /\ Goto(r, "scope")
    BY <1>7 DEF CountQuestion, CountMessage, At
  <2>. QED  BY <1>1, <2>1 DEF Follows, AfterQuestion
<1>8. CASE CountAnswer(r)
  <2>1. PICK pc \in {"trace", "store", "cite"} : Goto(r, pc)
    BY <1>8 DEF CountAnswer, CountMessage
  <2>2. q.pc = "count"
    BY <1>8 DEF CountAnswer, At
  <2>. QED  BY <1>1, <2>1, <2>2 DEF Follows
<1>9. CASE FindScope(r)
  <2>1. q.pc = "scope"
    BY <1>9 DEF FindScope, At
  <2>. DEFINE found == ResolveScopeResolution(q.question, q.question.named, q.pinned)
              pinned == NextPinned(q.pinned, found)
              own == CacheActiveFilters(q.pinned.own, found.scopes)
  <2>2. \/ request' = [request EXCEPT ![r].pc = "reply", ![r].answer = FixedText,
                         ![r].resolution = found]
        \/ request' = [request EXCEPT ![r].pc = "lookup", ![r].resolution = found,
                         ![r].pinned = pinned, ![r].key = own]
    BY <1>9 DEF FindScope
  <2>3. n.pc \in {"reply", "lookup"}
    <3>. HIDE DEF found, pinned, own
    <3>. QED  BY <1>0, <2>2 DEF IsRequest
  <2>. QED  BY <2>1, <2>3 DEF Follows, AfterQuestion
<1>10. CASE LookUp(r)
  <2>1. q.pc = "lookup"
    BY <1>10 DEF LookUp, At
  <2>2. ASSUME NEW answer,
               request' = [request EXCEPT ![r].pc = "reply", ![r].hit = TRUE, ![r].answer = answer]
        PROVE  n.pc = "reply"
    BY <1>0, <2>2 DEF IsRequest
  <2>3. n.pc \in {"reply", "detect"}
    BY <1>1, <1>10, <2>2 DEF LookUp
  <2>. QED  BY <2>1, <2>3 DEF Follows, AfterQuestion
<1>11. CASE Detect(r)
  <2>1. q.pc = "detect"
    BY <1>11 DEF Detect, At
  <2>2. PICK detected, expanded \in Detected, analytics \in BOOLEAN :
          LET found == ScopeFound(r, detected, expanded)
          IN /\ WritePinned(r, NextPinned(q.pinned, found))
             /\ request' = [request EXCEPT ![r].question = "none", ![r].pinned = NotPinned,
                  ![r].resolution = [found EXCEPT !.source = "none"],
                  ![r].key = FinalKey(r, found),
                  ![r].answer = IF analytics THEN FixedText ELSE NoAnswer,
                  ![r].pc = IF analytics THEN "reply" ELSE "retrieve"]
    BY <1>11 DEF Detect
  <2>. DEFINE found == ScopeFound(r, detected, expanded)
              resolution == [found EXCEPT !.source = "none"]
              key == FinalKey(r, found)
              answer == IF analytics THEN FixedText ELSE NoAnswer
              pc == IF analytics THEN "reply" ELSE "retrieve"
  <2>3. n.pc \in {"reply", "retrieve"}
    <3>1. request' = [request EXCEPT ![r].question = "none", ![r].pinned = NotPinned,
            ![r].resolution = resolution, ![r].key = key, ![r].answer = answer, ![r].pc = pc]
      BY <2>2
    <3>2. pc \in {"reply", "retrieve"}
      OBVIOUS
    <3>. HIDE DEF found, resolution, key, answer, pc
    <3>. QED  BY <1>0, <3>1, <3>2 DEF IsRequest
  <2>. QED  BY <2>1, <2>3 DEF Follows, AfterQuestion
<1>12. CASE Retrieve(r)
  <2>1. q.pc = "retrieve"
    BY <1>12 DEF Retrieve, At
  <2>2. \E ranked : request' = [request EXCEPT ![r].pc = "screen", ![r].ranked = ranked]
    BY <1>12, Zenon DEF Retrieve
  <2>3. n.pc = "screen"
    BY <1>0, <2>2 DEF IsRequest
  <2>. QED  BY <2>1, <2>3 DEF Follows, AfterQuestion
<1>13. CASE Screen(r)
  <2>1. q.pc = "screen"
    BY <1>13 DEF Screen, At
  <2>2. \E balanced, answer :
          request' = [request EXCEPT ![r].ranked = balanced, ![r].answer = answer,
                        ![r].pc = IF balanced = <<>> THEN "reply" ELSE "generate"]
    BY <1>13, Zenon DEF Screen
  <2>3. n.pc \in {"reply", "generate"}
    BY <1>0, <2>2 DEF IsRequest
  <2>. QED  BY <2>1, <2>3 DEF Follows, AfterQuestion
<1>14. CASE Generate(r)
  <2>1. q.pc = "generate"
    BY <1>14 DEF Generate, At
  <2>2. \E answer : request' = [request EXCEPT ![r].pc = "reply", ![r].ranked = <<>>,
                                                ![r].answer = answer]
    BY <1>14, Zenon DEF Generate
  <2>3. n.pc = "reply"
    BY <1>0, <2>2 DEF IsRequest
  <2>. QED  BY <2>1, <2>3 DEF Follows, AfterQuestion
<1>15. CASE SaveCitations(r)
  <2>1. q.pc = "cite" /\ (Goto(r, "store") \/ End(r, "failed"))
    BY <1>15 DEF SaveCitations, At
  <2>. QED  BY <1>1, <1>2, <2>1 DEF Follows, Steps
<1>16. CASE Store(r)
  BY <1>1, <1>16 DEF Store, At, Follows
<1>17. CASE PersistTrace(r)
  BY <1>2, <1>17 DEF PersistTrace, At, Follows, Steps
<1>18. CASE Throw(r)
  <2>1. q.pc \in Steps /\ End(r, IF q.pc \in {"countUser", "count"} THEN "uncounted" ELSE "failed")
    BY <1>18 DEF Throw
  <2>. QED  BY <1>2, <2>1 DEF Follows
<1>. QED
  BY <1>3, <1>4, <1>6, <1>7, <1>8, <1>9, <1>10, <1>11, <1>12, <1>13, <1>14, <1>15, <1>16, <1>17,
     <1>18 DEF Query

LEMMA PhasesOfSteps ==
  ASSUME NEW q
  PROVE  /\ q.pc = "idle" => PhaseOf(q) = "none"
         /\ q.pc = "archived" =>
              PhaseOf(q) = IF q.how = "regenerate" THEN "repeating" ELSE "asking"
         /\ q.pc = "pinned" => PhaseOf(q) = IF q.how = "regenerate" THEN "asked" ELSE "open"
         /\ q.pc = "user" => PhaseOf(q) = "open"
         /\ q.pc \in AfterQuestion => PhaseOf(q) = "asked"
         /\ q.pc \in {"count", "cite", "store", "trace"} => PhaseOf(q) = "answered"
         /\ q.pc = "done" => PhaseOf(q) = "closed"
         /\ q.pc \in {"failed", "uncounted"} => PhaseOf(q) = "failed"
BY DEF PhaseOf, AfterQuestion

LEMMA ExchangeOfAMove ==
  ASSUME Shapes, NEW r \in Requests, Moves(r), Follows(r)
  PROVE  Conversational!ContractNext \/ UNCHANGED <<Talks, Exchanges>>
<1>. DEFINE q == request[r]  n == request'[r]  c == ConversationOf(r)
            p == PhaseOf(q)  m == PhaseOf(n)
            grows == q.pc \notin Counting /\ n.pc \in Counting
<1>1. /\ \A t \in Requests \ {r} : request'[t] = request[t]
      /\ n.conversation = c
  BY DEF Moves, GoesOn, ConversationOf
<1>2. /\ Exchanges' = [Exchanges EXCEPT ![r].phase = m]
      /\ Exchanges[r].phase = p /\ Exchanges[r].talk = c
      /\ p = m => UNCHANGED Exchanges
  <2>1. Exchanges[r] = [phase |-> p, talk |-> c]
    BY DEF Exchanges, ConversationOf
  <2>2. Exchanges'[r] = [phase |-> m, talk |-> c]
    BY <1>1 DEF Exchanges
  <2>3. \A t \in Requests \ {r} : Exchanges'[t] = Exchanges[t]
    <3>1. ASSUME NEW t \in Requests \ {r}
          PROVE  Exchanges'[t] = Exchanges[t]
      <4>1. request'[t] = request[t]
        BY <1>1
      <4>. QED  BY <4>1 DEF Exchanges, PhaseOf
    <3>. QED  BY <3>1
  <2>4. /\ Exchanges = [t \in Requests |-> Exchanges[t]]
        /\ Exchanges' = [t \in Requests |-> Exchanges'[t]]
    BY DEF Exchanges
  <2>. HIDE DEF p, m, c
  <2>. QED  BY <2>1, <2>2, <2>3, <2>4
<1>3. \A d \in Conversations :
        /\ conversation'[d].state = conversation[d].state
        /\ conversation'[d].archived = conversation[d].archived
        /\ d # c => conversation'[d] = conversation[d]
        /\ d = c => RowGrows(r, d) \/ RowCounts(r, d) \/ RowStays(r, d)
  BY RowOfAMove
<1>4. Live(c) => c \in Conversations
  BY DEF Shapes, IsRequest, Live, ConversationOf
<1>5. CASE grows
  <2>1. Live(c)
    BY <1>5 DEF Moves, Grows, Counts, Pins, Passes
  <2>2. conversation'[c].rows = conversation[c].rows + 1
    BY <1>3, <1>4, <1>5, <2>1 DEF RowGrows, RowCounts, RowStays
  <2>3. Talks' = [Talks EXCEPT ![c].rows = @ + 1]
    BY <1>3, <1>4, <2>1, <2>2 DEF Talks
  <2>4. Conversational!Grow(c)
    BY <1>4, <2>1, <2>3 DEF Conversational!Grow, Conversational!IsLive, Live, Talks
  <2>5. \/ p = "open" /\ m = "asked"
        \/ p = "asked" /\ m = "answered"
    BY <1>5, PhasesOfSteps DEF Follows, Counting, AfterQuestion
  <2>6. Conversational!AddQuestion(r) \/ Conversational!AddAnswer(r)
    <3>. HIDE DEF p, m, c
    <3>. QED  BY <1>2, <2>4, <2>5
              DEF Conversational!AddQuestion, Conversational!AddAnswer, Conversational!Phase
  <2>. QED  BY <2>6 DEF Conversational!ContractNext
<1>6. CASE ~grows
  <2>1. UNCHANGED Talks
    <3>1. ASSUME NEW d \in Conversations
          PROVE  conversation'[d].rows = conversation[d].rows
      BY <1>3, <1>6 DEF RowGrows, RowCounts, RowStays
    <3>. QED  BY <1>3, <3>1 DEF Talks
  <2>2. \/ p = m
        \/ p \in Conversational!Open /\ m = "failed"
        \/ /\ (p = "asking" /\ m = "open") \/ (p = "repeating" /\ m = "asked")
           /\ ~Shut(c)
        \/ p \in {"asking", "repeating"} /\ m = "closed" /\ Shut(c)
        \/ p = "answered" /\ m = "closed" /\ Live(c)
    <3>1. ASSUME q.pc \in Steps
          PROVE  p \in Conversational!Open
      BY <3>1, PhasesOfSteps DEF Steps, AfterQuestion, Conversational!Open
    <3>2. CASE n.pc \in {"failed", "uncounted"}
      <4>1. q.pc \in Steps /\ m = "failed"
        BY <3>2, PhasesOfSteps DEF Follows, Steps, AfterQuestion
      <4>. QED  BY <3>1, <4>1
    <3>3. CASE n.pc \notin {"failed", "uncounted"}
      <4>. HIDE DEF p, m
      <4>. QED  BY <1>6, <3>3, PhasesOfSteps DEF Follows, Counting, AfterQuestion, p, m
    <3>. QED  BY <3>2, <3>3
  <2>3. /\ Conversational!IsLive(c) <=> Live(c)
        /\ Conversational!Shut(c) <=> Shut(c)
    <3>1. ASSUME NEW d \in Conversations
          PROVE  Talks[d].state = conversation[d].state /\ Talks[d].archived = conversation[d].archived
      BY DEF Talks
    <3>2. c \in Conversations \cup {NoConversation}
      BY DEF Shapes, IsRequest, ConversationOf
    <3>. QED  BY <3>1, <3>2 DEF Conversational!IsLive, Conversational!Shut, Live, Shut
  <2>. HIDE DEF p, m, c
  <2>4. CASE p = m
    BY <1>2, <2>1, <2>4
  <2>5. CASE p \in Conversational!Open /\ m = "failed"
    <3>1. Conversational!Fail(r)
      BY <1>2, <2>1, <2>5 DEF Conversational!Fail, Conversational!Phase
    <3>. QED  BY <3>1 DEF Conversational!ContractNext
  <2>6. CASE /\ (p = "asking" /\ m = "open") \/ (p = "repeating" /\ m = "asked")
             /\ ~Shut(c)
    <3>1. Conversational!Admit(r)
      BY <1>2, <2>1, <2>3, <2>6 DEF Conversational!Admit, Conversational!Phase
    <3>. QED  BY <3>1 DEF Conversational!ContractNext
  <2>7. CASE p \in {"asking", "repeating"} /\ m = "closed" /\ Shut(c)
    <3>1. Conversational!Refuse(r)
      BY <1>2, <2>1, <2>3, <2>7 DEF Conversational!Refuse, Conversational!Phase
    <3>. QED  BY <3>1 DEF Conversational!ContractNext
  <2>8. CASE p = "answered" /\ m = "closed" /\ Live(c)
    <3>1. Conversational!Finish(r)
      BY <1>2, <2>1, <2>3, <2>8 DEF Conversational!Finish, Conversational!Phase
    <3>. QED  BY <3>1 DEF Conversational!ContractNext
  <2>. QED  BY <2>2, <2>4, <2>5, <2>6, <2>7, <2>8
<1>. QED  BY <1>5, <1>6

LEMMA ExchangeOfAQuestion ==
  ASSUME Shapes, NEW r \in Requests, Asks(r)
  PROVE  Conversational!ContractNext
<1>1. PICK c \in Conversations :
        /\ request'[r].conversation = c
        /\ \A d \in Conversations \ {c} : conversation'[d] = conversation[d]
        /\ \/ /\ conversation[c].state = "free" /\ request'[r].pc \in {"user", "scope"}
              /\ conversation'[c].state = "live"
              /\ conversation'[c].archived = conversation[c].archived
              /\ conversation'[c].rows = conversation[c].rows
           \/ /\ conversation[c].state # "free" /\ request'[r].pc = "archived"
              /\ conversation'[c] = conversation[c]
  BY RowOfAQuestion
<1>2. request[r].pc = "idle" /\ \A t \in Requests \ {r} : request'[t] = request[t]
  BY RowOfAQuestion
<1>. DEFINE m == PhaseOf(request'[r])
<1>3. /\ Exchanges' = [Exchanges EXCEPT ![r] = [phase |-> m, talk |-> c]]
      /\ Exchanges[r].phase = "none"
  <2>1. Exchanges'[r] = [phase |-> m, talk |-> c] /\ Exchanges[r].phase = "none"
    BY <1>1, <1>2, PhasesOfSteps DEF Exchanges
  <2>2. ASSUME NEW t \in Requests \ {r}
        PROVE  Exchanges'[t] = Exchanges[t]
    <3>1. request'[t] = request[t]
      BY <1>2
    <3>. QED  BY <3>1 DEF Exchanges, PhaseOf
  <2>3. /\ Exchanges = [t \in Requests |-> Exchanges[t]]
        /\ Exchanges' = [t \in Requests |-> Exchanges'[t]]
    BY DEF Exchanges
  <2>. HIDE DEF m
  <2>. QED  BY <2>1, <2>2, <2>3
<1>4. /\ \A d \in Conversations : Talks[d].state = conversation[d].state
  BY DEF Talks
<1>5. CASE /\ conversation[c].state = "free" /\ request'[r].pc \in {"user", "scope"}
           /\ conversation'[c].state = "live"
           /\ conversation'[c].archived = conversation[c].archived
           /\ conversation'[c].rows = conversation[c].rows
  <2>1. m \in {"open", "asked"}
    BY <1>5, PhasesOfSteps DEF AfterQuestion
  <2>2. Talks' = [Talks EXCEPT ![c].state = "live"]
    BY <1>1, <1>5 DEF Talks
  <2>. HIDE DEF m
  <2>3. Conversational!Begin(r, c)
    BY <1>3, <1>4, <1>5, <2>1, <2>2 DEF Conversational!Begin
  <2>. QED  BY <2>3 DEF Conversational!ContractNext
<1>6. CASE /\ conversation[c].state # "free" /\ request'[r].pc = "archived"
           /\ conversation'[c] = conversation[c]
  <2>1. m \in {"asking", "repeating"}
    BY <1>6, PhasesOfSteps
  <2>2. UNCHANGED Talks
    <3>1. \A d \in Conversations : conversation'[d] = conversation[d]
      BY <1>1, <1>6
    <3>. QED  BY <3>1 DEF Talks
  <2>. HIDE DEF m
  <2>3. Conversational!Enter(r, c)
    BY <1>3, <1>4, <1>6, <2>1, <2>2 DEF Conversational!Enter
  <2>. QED  BY <2>3 DEF Conversational!ContractNext
<1>. QED  BY <1>1, <1>5, <1>6

LEMMA ExchangeOfAChange ==
  ASSUME Shapes, NEW c \in Conversations, PatchConversation(c) \/ DeleteConversation(c)
  PROVE  Conversational!ContractNext
<1>1. /\ UNCHANGED request /\ Live(c)
      /\ \A d \in Conversations \ {c} : conversation'[d] = conversation[d]
      /\ \/ /\ conversation'[c].state = "live"
            /\ conversation'[c].rows = conversation[c].rows
         \/ /\ conversation'[c].state = "deleted" /\ conversation'[c].archived = FALSE
            /\ conversation'[c].rows = 0
  BY RowOfAChange
<1>2. UNCHANGED Exchanges
  <2>1. \A r \in Requests : request'[r] = request[r]
    BY <1>1
  <2>. QED  BY <1>1 DEF Exchanges, PhaseOf
<1>3. Conversational!IsLive(c)
  BY <1>1 DEF Conversational!IsLive, Live, Talks
<1>4. CASE /\ conversation'[c].state = "live"
           /\ conversation'[c].rows = conversation[c].rows
  <2>. DEFINE archived == conversation'[c].archived
  <2>1. archived \in BOOLEAN
    <3>1. Shapes'
      BY RowOfAChange
    <3>. QED  BY <3>1 DEF Shapes, IsConversation
  <2>2. Talks' = [Talks EXCEPT ![c].archived = archived]
    BY <1>1, <1>4 DEF Talks, Live
  <2>3. Conversational!Archive(c, archived)
    <3>. HIDE DEF archived
    <3>. QED  BY <1>2, <1>3, <2>2 DEF Conversational!Archive
  <2>. QED  BY <2>1, <2>3 DEF Conversational!ContractNext
<1>5. CASE /\ conversation'[c].state = "deleted" /\ conversation'[c].archived = FALSE
           /\ conversation'[c].rows = 0
  <2>1. Talks' = [Talks EXCEPT ![c] = Conversational!Empty("deleted")]
    BY <1>1, <1>5 DEF Talks, Conversational!Empty
  <2>2. Conversational!Delete(c)
    BY <1>2, <1>3, <2>1 DEF Conversational!Delete
  <2>. QED  BY <2>2 DEF Conversational!ContractNext
<1>. QED  BY <1>1, <1>4, <1>5

\* The pipeline, a statement at a time among other requests, PATCH and DELETE, does what
\* ConversationContract promises: question, then answer, each once; nothing in a
\* conversation that is gone or was found archived (pipeline.ts:174-240, :1356).
THEOREM ConversationsImplementContract == Spec => ConversationsAreExchanges
<1>1. Init => Conversational!ContractInit
  <2>1. ASSUME Init
        PROVE  Conversational!ContractInit
    <3>1. PICK old \in SUBSET Conversations :
            conversation = [c \in Conversations |->
              IF c \in old THEN [NoRow EXCEPT !.state = "live", !.pinned = EmptyPinned] ELSE NoRow]
      BY <2>1 DEF Init
    <3>2. ASSUME NEW c \in Conversations
          PROVE  /\ conversation[c].state \in {"free", "live"}
                 /\ conversation[c].archived = FALSE /\ conversation[c].rows = 0
      BY <3>1 DEF NoRow
    <3>3. Talks \in [Conversations -> {Conversational!Empty("free"), Conversational!Empty("live")}]
      BY <3>2 DEF Talks, Conversational!Empty
    <3>4. Exchanges = [r \in Requests |-> Conversational!Nobody]
      <4>1. ASSUME NEW r \in Requests
            PROVE  Exchanges[r] = Conversational!Nobody
        <5>1. request[r].pc = "idle" /\ request[r].conversation = NoConversation
          BY <2>1, ConstantRecords DEF Init
        <5>. QED  BY <5>1, PhasesOfSteps DEF Exchanges, Conversational!Nobody
      <4>. QED  BY <4>1 DEF Exchanges
    <3>. QED  BY <3>3, <3>4 DEF Conversational!ContractInit
  <2>. QED  BY <2>1
<1>2. AskInv /\ [Next]_askVars => [Conversational!ContractNext]_<<Talks, Exchanges>>
  <2>1. ASSUME AskInv, [Next]_askVars
        PROVE  Conversational!ContractNext \/ UNCHANGED <<Talks, Exchanges>>
    <3>1. Shapes
      BY <2>1 DEF AskInv
    <3>2. CASE UNCHANGED <<conversation, request>>
      BY <3>2 DEF Talks, Exchanges, PhaseOf
    <3>3. ASSUME NEW r \in Requests, Asks(r)
          PROVE  Conversational!ContractNext
      BY <3>1, <3>3, ExchangeOfAQuestion
    <3>4. ASSUME NEW r \in Requests, Query(r) \/ Throw(r)
          PROVE  Conversational!ContractNext \/ UNCHANGED <<Talks, Exchanges>>
      BY <3>1, <3>4, RequestMoves, StepFollows, ExchangeOfAMove
    <3>5. ASSUME NEW c \in Conversations, PatchConversation(c) \/ DeleteConversation(c)
          PROVE  Conversational!ContractNext
      BY <3>1, <3>5, ExchangeOfAChange
    <3>6. \/ \E r \in Requests : Asks(r) \/ Query(r) \/ Throw(r)
          \/ \E c \in Conversations : PatchConversation(c) \/ DeleteConversation(c)
          \/ UNCHANGED <<conversation, request>>
      BY <2>1, <3>1, RequestsOrChanges
    <3>. QED  BY <3>2, <3>3, <3>4, <3>5, <3>6
  <2>. QED  BY <2>1
<1>. QED
  BY <1>1, <1>2, AskInvariant, PTL DEF Spec, ConversationsAreExchanges, Conversational!ContractSpec

-----------------------------------------------------------------------------
(* The evidence: chunks and what cites them.                               *)

\* A citation refers to a chunk that there is, and a document that was reset has none.
EvidenceInv ==
  /\ document \in [Documents -> [status : Status, generation : 0 .. MaxGeneration]]
  /\ \A x \in citation : x.chunk \in chunk
  /\ \A d \in Documents : document[d].status = "UPLOADED" => \A c \in chunk : DocumentOf(c) # d

LEMMA InitEvidence == Init => EvidenceInv
<1>. SUFFICES ASSUME Init
              PROVE  EvidenceInv
  OBVIOUS
<1>1. document \in [Documents -> [status : Status, generation : 0 .. MaxGeneration]]
  BY AskAssumption DEF Init, Status, Searchable
<1>. QED  BY <1>1 DEF Init, EvidenceInv

LEMMA NextEvidence ==
  ASSUME EvidenceInv, [Next]_askVars
  PROVE  EvidenceInv'
<1>. USE DEF EvidenceInv
<1>1. CASE UNCHANGED <<citation, document, chunk>>
  BY <1>1
<1>2. ASSUME NEW r \in Requests, Ask(r) \/ Query(r) \/ Throw(r)
      PROVE  EvidenceInv'
  <2>1. CASE SaveCitations(r)
    <3>. DEFINE cited == {m.chunk : m \in ToSet(request[r].answer.cites)}
    <3>1. /\ UNCHANGED <<document, chunk>>
          /\ \/ UNCHANGED citation
             \/ /\ cited \subseteq chunk
                /\ citation' = citation \cup {[message |-> r, chunk |-> c] : c \in cited}
      BY <2>1 DEF SaveCitations
    <3>. HIDE DEF cited
    <3>. QED  BY <3>1
  <2>2. CASE ~SaveCitations(r)
    <3>1. UNCHANGED <<citation, document, chunk>>
      BY <1>2, <2>2 DEF Ask, AskNew, AskIn, Query, Throw, CheckArchived, ReadPinned, SaveQuestion,
        CountQuestion, FindScope, LookUp, Detect, Retrieve, Screen, Generate, SaveAnswer,
        CountAnswer, Store, PersistTrace
    <3>. QED  BY <3>1, <1>1
  <2>. QED  BY <2>1, <2>2
<1>3. ASSUME NEW c \in Conversations, PatchConversation(c) \/ DeleteConversation(c)
      PROVE  EvidenceInv'
  BY <1>3 DEF PatchConversation, DeleteConversation
<1>4. ASSUME NEW d \in Documents, PatchDocument(d)
      PROVE  EvidenceInv'
  BY <1>4 DEF PatchDocument
<1>5. ASSUME NEW d \in Documents, DeleteDocument(d) \/ BatchReprocess(d) \/ WorkerFails(d)
      PROVE  EvidenceInv'
  <2>1. PICK s \in Status \ {"UPLOADED"} :
          document' = [document EXCEPT ![d].status = s] /\ UNCHANGED <<citation, chunk>>
    BY <1>5 DEF DeleteDocument, BatchReprocess, WorkerFails, Status, Waiting
  <2>2. document' = [document EXCEPT ![d] = [document[d] EXCEPT !.status = s]]
    BY <2>1
  <2>. QED  BY <2>1, <2>2
<1>6. ASSUME NEW d \in Documents, ReprocessDocument(d)
      PROVE  EvidenceInv'
  <2>1. /\ document' = [document EXCEPT ![d].status = "UPLOADED"]
        /\ citation' = {x \in citation : DocumentOf(x.chunk) # d}
        /\ chunk' = {c \in chunk : DocumentOf(c) # d}
    BY <1>6 DEF ReprocessDocument, ClearRetryDerivedState
  <2>2. "UPLOADED" \in Status
    BY DEF Status, Waiting
  <2>. QED  BY <2>1, <2>2
<1>7. ASSUME NEW d \in Documents, MakeChunks(d)
      PROVE  EvidenceInv'
  <2>. DEFINE made == <<d, document[d].generation + 1>>
  <2>1. /\ document[d].generation < MaxGeneration
        /\ \A x \in citation : DocumentOf(x.chunk) # d
        /\ chunk' = {c \in chunk : DocumentOf(c) # d} \cup {made}
        /\ document' = [document EXCEPT ![d] = [status |-> "SEARCHABLE",
                                                generation |-> document[d].generation + 1]]
        /\ UNCHANGED citation
    BY <1>7 DEF MakeChunks
  <2>2. DocumentOf(made) = d
    BY DEF DocumentOf
  <2>3. document[d].generation + 1 \in 0 .. MaxGeneration /\ "SEARCHABLE" \in Status
    BY <2>1, AskAssumption DEF Status, Searchable
  <2>. HIDE DEF made
  <2>. QED  BY <2>1, <2>2, <2>3
<1>8. CASE InvalidateCache
  BY <1>8 DEF InvalidateCache
<1>9. CASE UNCHANGED askVars
  BY <1>9 DEF askVars
<1>. QED  BY <1>1, <1>2, <1>3, <1>4, <1>5, <1>6, <1>7, <1>8, <1>9 DEF Next

\* A reprocessed document that waits for the worker is not cited, so that the worker's
\* DELETE of its chunks does not fail: clearRetryDerivedState takes the chunks along with
\* what cites them, and an answer under way cannot cite a chunk that is gone.
THEOREM UploadedUncited == Spec => []UploadedIsUncited
<1>1. EvidenceInv /\ [Next]_askVars => EvidenceInv'
  BY NextEvidence
<1>2. EvidenceInv => UploadedIsUncited
  BY DEF EvidenceInv, UploadedIsUncited
<1>. QED  BY InitEvidence, <1>1, <1>2, PTL DEF Spec

\* The types of the other tables and counters.
TablesInv ==
  /\ citation \subseteq [message : Requests, chunk : Chunks] /\ chunk \subseteq Chunks
  /\ stale \in BOOLEAN /\ changes \in 0 .. MaxChanges

LEMMA InitTables == Init => TablesInv
<1>. SUFFICES ASSUME Init
              PROVE  TablesInv
  OBVIOUS
<1>1. Documents \X {0} \subseteq Chunks /\ 0 \in 0 .. MaxChanges
  BY AskAssumption DEF Chunks
<1>. QED  BY <1>1 DEF Init, TablesInv

LEMMA NextTables ==
  ASSUME TablesInv, EvidenceInv, [Next]_askVars
  PROVE  TablesInv'
<1>. USE DEF TablesInv
<1>1. CASE UNCHANGED <<citation, chunk, stale, changes>>
  BY <1>1
<1>2. changes < MaxChanges => changes + 1 \in 0 .. MaxChanges
  BY AskAssumption
<1>3. ASSUME NEW r \in Requests, Ask(r) \/ Query(r) \/ Throw(r)
      PROVE  TablesInv'
  <2>1. CASE SaveCitations(r)
    <3>. DEFINE cited == {m.chunk : m \in ToSet(request[r].answer.cites)}
    <3>1. /\ UNCHANGED <<chunk, stale, changes>>
          /\ \/ UNCHANGED citation
             \/ /\ cited \subseteq chunk
                /\ citation' = citation \cup {[message |-> r, chunk |-> c] : c \in cited}
      BY <2>1 DEF SaveCitations
    <3>. HIDE DEF cited
    <3>2. \A c \in Chunks : [message |-> r, chunk |-> c] \in [message : Requests, chunk : Chunks]
      OBVIOUS
    <3>. QED  BY <3>1, <3>2
  <2>2. CASE ~SaveCitations(r)
    <3>1. UNCHANGED <<citation, chunk, stale, changes>>
      BY <1>3, <2>2 DEF Ask, AskNew, AskIn, Query, Throw, CheckArchived, ReadPinned, SaveQuestion,
        CountQuestion, FindScope, LookUp, Detect, Retrieve, Screen, Generate, SaveAnswer,
        CountAnswer, Store, PersistTrace
    <3>. QED  BY <3>1, <1>1
  <2>. QED  BY <2>1, <2>2
<1>4. ASSUME NEW c \in Conversations, PatchConversation(c) \/ DeleteConversation(c)
      PROVE  TablesInv'
  <2>1. UNCHANGED <<chunk, stale>> /\ citation' \subseteq citation /\ changes < MaxChanges
        /\ changes' = changes + 1
    BY <1>4 DEF PatchConversation, DeleteConversation, Change
  <2>. QED  BY <1>2, <2>1
<1>5. ASSUME NEW d \in Documents,
             PatchDocument(d) \/ DeleteDocument(d) \/ ReprocessDocument(d) \/ BatchReprocess(d)
      PROVE  TablesInv'
  <2>1. /\ citation' \subseteq citation /\ chunk' \subseteq chunk /\ stale' \in {stale, TRUE}
        /\ changes < MaxChanges /\ changes' = changes + 1
    BY <1>5 DEF PatchDocument, DeleteDocument, ReprocessDocument, BatchReprocess, Change,
      ClearRetryDerivedState
  <2>. QED  BY <1>2, <2>1
<1>6. ASSUME NEW d \in Documents, MakeChunks(d)
      PROVE  TablesInv'
  <2>. DEFINE made == <<d, document[d].generation + 1>>
  <2>1. /\ document[d].generation < MaxGeneration
        /\ chunk' = {c \in chunk : DocumentOf(c) # d} \cup {made}
        /\ UNCHANGED <<citation, stale, changes>>
    BY <1>6 DEF MakeChunks
  <2>2. made \in Chunks
    <3>1. document[d].generation + 1 \in 0 .. MaxGeneration
      BY <2>1, AskAssumption DEF EvidenceInv
    <3>. QED  BY <3>1 DEF Chunks
  <2>. HIDE DEF made
  <2>. QED  BY <2>1, <2>2
<1>7. ASSUME NEW d \in Documents, WorkerFails(d)
      PROVE  TablesInv'
  BY <1>7 DEF WorkerFails
<1>8. CASE InvalidateCache
  BY <1>8 DEF InvalidateCache
<1>9. CASE UNCHANGED askVars
  BY <1>9 DEF askVars
<1>. QED  BY <1>1, <1>3, <1>4, <1>5, <1>6, <1>7, <1>8, <1>9 DEF Next

-----------------------------------------------------------------------------
(* The scope of an answer.                                                 *)

Pinned == PinnedTypes(Scopes, OwnFilters \cup {"none"})
Marks == Seq([index : Nat, chunk : Chunks])

\* What the searches give: a chunk with the signals of its document.
EvidenceRecords ==
  {e \in [id : Chunks, document : Documents, signals : {Signals[d] : d \in Documents},
          matched : Seq(Scopes), score : Nat] :
     e.document = DocumentOf(e.id) /\ e.signals = Signals[e.document]}

\* A chunk that carries no scope, or one of those in the key.
About(c, scopes) ==
  \/ Signals[DocumentOf(c)] = {}
  \/ \E s \in Signals[DocumentOf(c)], t \in scopes : CaseSignalMatchesScope(s, t)
InScope(marks, scopes) == scopes # {} => \A i \in DOMAIN marks : About(marks[i].chunk, scopes)

\* The question is known as long as its scope may change; nothing is answered before.
Asking == {"archived", "pinned", "user", "countUser", "scope", "lookup", "detect"}
\* Where the scope is the one in the key.
Keyed(q) == q.pc \in {"lookup", "retrieve", "screen", "generate"} \/ q.answer.kind = "answer"

TypedRequest(q) ==
  /\ q.pc \in Steps \cup Ended \cup {"idle"}
  /\ q.pinned \in Pinned /\ IsResolution(q.resolution, Scopes) /\ q.answer \in Text

ScopedRequest(r, q) ==
  /\ q.pc \in Asking => q.question \in Questions[r] /\ q.answer.kind # "answer"
  /\ q.pc \in {"cite", "store"} => q.answer.kind = "answer"
  /\ Keyed(q) => q.key.scopes = ToSet(CollectCaseScopes(q.resolution.scopes))
  /\ q.pc \in {"screen", "generate"} => q.ranked \in Seq(EvidenceRecords)
  /\ q.pc = "generate" /\ q.key.scopes # {} =>
       \A i \in DOMAIN q.ranked : About(q.ranked[i].id, q.key.scopes)
  /\ q.answer.kind = "answer" => InScope(q.answer.meant, q.key.scopes)

RequestsInv == \A r \in Requests : TypedRequest(request[r]) /\ ScopedRequest(r, request[r])
PinnedInv == \A c \in Conversations : conversation[c].pinned \in Pinned
AnswersInv == \A entry \in cache : entry.meant \in Marks /\ InScope(entry.meant, entry.key.scopes)

ScopeInv == RequestsInv /\ PinnedInv /\ AnswersInv

-----------------------------------------------------------------------------
(* Lemmas about the parts of it.                                           *)

LEMMA TypesOfConstants ==
  /\ NotPinned \in Pinned /\ EmptyPinned \in Pinned
  /\ \A o \in OwnFilters : [EmptyPinned EXCEPT !.own = o] \in Pinned
  /\ IsResolution(GlobalScope, Scopes) /\ GlobalScope.scopes = <<>>
  /\ NoAnswer \in Text /\ FixedText \in Text /\ NoAnswer.kind = "none" /\ FixedText.kind = "fixed"
<1>. DEFINE T == Seq(Scopes)  M == Marks
<1>1. <<>> \in T /\ <<>> \in M
  BY DEF Marks
<1>2. Pinned = [set : BOOLEAN, case : Scopes \cup {NoScope}, multi : T,
                mode : {"none", "single", "multi", "global"}, source : ScopeSources,
                own : OwnFilters \cup {"none"}]
  BY DEF Pinned, PinnedTypes
<1>3. Text = [kind : {"none", "fixed", "answer"}, meant : M, cites : M]
  BY DEF Text, Marks
<1>4. IsResolution(GlobalScope, Scopes) <=>
        GlobalScope \in [scopes : T, mode : {"single", "multi", "global"}, source : ScopeSources,
                         clarify : BOOLEAN]
  BY DEF IsResolution
<1>. HIDE DEF T, M
<1>5. NotPinned \in Pinned
  BY <1>1, <1>2 DEF NotPinned, ScopeSources
<1>6. EmptyPinned \in Pinned
  BY <1>2, <1>5 DEF EmptyPinned
<1>7. \A o \in OwnFilters : [EmptyPinned EXCEPT !.own = o] \in Pinned
  BY <1>2, <1>6
<1>8. IsResolution(GlobalScope, Scopes) /\ GlobalScope.scopes = <<>>
  BY <1>1, <1>4 DEF GlobalScope, Resolution, ScopeSources
<1>9. NoAnswer \in Text /\ NoAnswer.kind = "none"
  BY <1>1, <1>3 DEF NoAnswer
<1>10. FixedText \in Text /\ FixedText.kind = "fixed"
  BY <1>1, <1>3 DEF NoAnswer, FixedText
<1>. QED  BY <1>5, <1>6, <1>7, <1>8, <1>9, <1>10

LEMMA SetToSeqType ==
  ASSUME NEW S, IsFiniteSet(S)
  PROVE  SetToSeq(S) \in Seq(S)
<1>. DEFINE n == Cardinality(S)
<1>1. n \in Nat /\ ExistsBijection(1 .. n, S)
  BY FS_CardinalityType
<1>. HIDE DEF n
<1>2. \E f \in [1 .. n -> S] : IsInjective(f)
  BY <1>1 DEF ExistsBijection, Bijection, Injection, Surjection
<1>3. SetToSeq(S) \in [1 .. n -> S]
  BY <1>2 DEF SetToSeq, n
<1>. QED  BY <1>1, <1>3

\* A request whose pc says that it has ended, or has not begun.
LEMMA NothingAsked ==
  ASSUME NEW r, NEW q, q.pc \in Ended \cup {"idle"}, q.pinned = NotPinned,
         q.resolution = GlobalScope, q.answer = NoAnswer
  PROVE  TypedRequest(q) /\ ScopedRequest(r, q)
<1>1. TypedRequest(q)
  BY TypesOfConstants DEF TypedRequest
<1>2. ScopedRequest(r, q)
  BY TypesOfConstants DEF ScopedRequest, Keyed, Asking, Ended
<1>. QED  BY <1>1, <1>2

LEMMA BecomesTyped ==
  ASSUME Shapes, RequestsInv, NEW r \in Requests, NEW new, TypedRequest(new), ScopedRequest(r, new),
         request' = [request EXCEPT ![r] = new]
  PROVE  RequestsInv'
<1>1. /\ request'[r] = new
      /\ \A q \in Requests : q # r => request'[q] = request[q]
  BY DEF Shapes
<1>2. ASSUME NEW q \in Requests
      PROVE  TypedRequest(request'[q]) /\ ScopedRequest(q, request'[q])
  BY <1>1 DEF RequestsInv
<1>. QED  BY <1>2 DEF RequestsInv, TypedRequest, ScopedRequest, Keyed

LEMMA EndTyped ==
  ASSUME Shapes, RequestsInv, NEW r \in Requests, NEW pc \in Ended, End(r, pc)
  PROVE  RequestsInv'
<1>. DEFINE new == [NotAsked EXCEPT !.pc = pc, !.conversation = request[r].conversation]
<1>1. TypedRequest(new) /\ ScopedRequest(r, new)
  <2>1. new.pc = pc /\ new.pinned = NotPinned /\ new.resolution = GlobalScope /\ new.answer = NoAnswer
    BY DEF NotAsked
  <2>. HIDE DEF new
  <2>. QED  BY <2>1, NothingAsked
<1>2. request' = [request EXCEPT ![r] = new]
  BY DEF End
<1>. HIDE DEF new
<1>. QED  BY <1>1, <1>2, BecomesTyped

LEMMA GotoTyped ==
  ASSUME Shapes, RequestsInv, NEW r \in Requests,
         NEW pc \in Steps \ {"lookup", "retrieve", "screen", "generate"}, Goto(r, pc),
         pc \in Asking => request[r].pc \in Asking,
         pc \in {"cite", "store"} => request[r].answer.kind = "answer"
  PROVE  RequestsInv'
<1>. DEFINE q == request[r]  new == [q EXCEPT !.pc = pc]
<1>1. /\ new.pc = pc /\ new.pinned = q.pinned /\ new.resolution = q.resolution
      /\ new.answer = q.answer /\ new.question = q.question /\ new.key = q.key
      /\ new.ranked = q.ranked
  BY DEF Shapes, IsRequest
<1>2. request' = [request EXCEPT ![r] = new]
  BY DEF Goto, Shapes
<1>3. TypedRequest(q) /\ ScopedRequest(r, q)
  BY DEF RequestsInv
<1>. HIDE DEF new, q
<1>4. TypedRequest(new)
  BY <1>1, <1>3 DEF TypedRequest
<1>5. ScopedRequest(r, new)
  BY <1>1, <1>3 DEF ScopedRequest, Keyed, q
<1>. QED  BY <1>2, <1>4, <1>5, BecomesTyped

LEMMA RowTyped ==
  ASSUME Shapes, PinnedInv, NEW c, NEW row, row.pinned \in Pinned,
         conversation' = [conversation EXCEPT ![c] = row]
  PROVE  PinnedInv'
<1>1. ASSUME NEW d \in Conversations
      PROVE  conversation'[d].pinned \in Pinned
  BY DEF Shapes, PinnedInv
<1>. QED  BY <1>1 DEF PinnedInv

LEMMA WritePinnedTyped ==
  ASSUME Shapes, PinnedInv, NEW r \in Requests, NEW pinned \in Pinned, WritePinned(r, pinned)
  PROVE  PinnedInv'
<1>. DEFINE c == ConversationOf(r)
<1>1. CASE pinned # request[r].pinned /\ Live(c)
  <2>. DEFINE row == [conversation[c] EXCEPT !.pinned = pinned]
  <2>1. conversation' = [conversation EXCEPT ![c] = row] /\ c \in Conversations
    BY <1>1 DEF WritePinned, Shapes, IsRequest, Live, ConversationOf
  <2>2. row.pinned = pinned
    BY <2>1 DEF Shapes, IsConversation
  <2>. HIDE DEF row
  <2>. QED  BY <2>1, <2>2, RowTyped
<1>2. CASE ~(pinned # request[r].pinned /\ Live(c))
  BY <1>2 DEF WritePinned, PinnedInv
<1>. QED  BY <1>1, <1>2

\* Messages and counts.
LEMMA CountsTyped ==
  ASSUME Shapes, PinnedInv, NEW r \in Requests, NEW n,
         LET c == ConversationOf(r)
         IN \/ conversation' = conversation
            \/ Live(c) /\ conversation' = [conversation EXCEPT ![c].rows = n]
            \/ Live(c) /\ conversation' = [conversation EXCEPT ![c].count = n]
  PROVE  PinnedInv'
<1>. DEFINE c == ConversationOf(r)
            one == [conversation[c] EXCEPT !.rows = n]
            two == [conversation[c] EXCEPT !.count = n]
<1>1. CASE conversation' = conversation
  BY <1>1 DEF PinnedInv
<1>2. CASE Live(c) /\ (conversation' = [conversation EXCEPT ![c] = one]
                       \/ conversation' = [conversation EXCEPT ![c] = two])
  <2>1. c \in Conversations
    BY <1>2 DEF Shapes, IsRequest, Live, ConversationOf
  <2>2. one.pinned = conversation[c].pinned /\ two.pinned = conversation[c].pinned
    BY <2>1 DEF Shapes, IsConversation
  <2>3. one.pinned \in Pinned /\ two.pinned \in Pinned
    BY <2>1, <2>2 DEF PinnedInv
  <2>. HIDE DEF one, two
  <2>. QED  BY <1>2, <2>3, RowTyped
<1>. QED  BY <1>1, <1>2

-----------------------------------------------------------------------------
(* The steps of a request that say something about scope and answer.       *)

LEMMA ScopeFoundType ==
  ASSUME NEW r, request[r].pinned \in Pinned, IsResolution(request[r].resolution, Scopes),
         NEW detected \in Seq(Scopes), NEW expanded \in Seq(Scopes)
  PROVE  IsResolution(ScopeFound(r, detected, expanded), Scopes)
<1>. DEFINE question == request[r].question
            Resolve(found, scopes) ==
              IF found.scopes = <<>> /\ ~question.global /\ scopes # <<>>
              THEN ResolveScopeResolution(question, scopes, request[r].pinned) ELSE found
            first == Resolve(request[r].resolution, detected)
            all == CollectCaseScopes(first.scopes \o detected \o expanded)
<1>1. \A scopes \in Seq(Scopes) :
        IsResolution(ResolveScopeResolution(question, scopes, request[r].pinned), Scopes)
  BY ResolutionType DEF Pinned
<1>2. ASSUME NEW found, IsResolution(found, Scopes), NEW scopes \in Seq(Scopes)
      PROVE  IsResolution(Resolve(found, scopes), Scopes)
  BY <1>1, <1>2
<1>3. IsResolution(first, Scopes)
  <2>. HIDE DEF Resolve
  <2>. QED  BY <1>2
<1>4. IsResolution(Resolve(first, expanded), Scopes)
  <2>. HIDE DEF Resolve, first
  <2>. QED  BY <1>2, <1>3
<1>5. ScopeFound(r, detected, expanded) =
        IF first.scopes = <<>> THEN Resolve(first, expanded) ELSE [first EXCEPT !.scopes = all]
  BY DEF ScopeFound
<1>. HIDE DEF first, Resolve
<1>6. first.scopes \o detected \o expanded \in Seq(Scopes)
  BY <1>3 DEF IsResolution
<1>7. all \in Seq(Scopes)
  BY <1>6, CollectInto
<1>. HIDE DEF all
<1>8. IsResolution([first EXCEPT !.scopes = all], Scopes)
  <2>. DEFINE T == Seq(Scopes)
  <2>1. all \in T /\ first \in [scopes : T, mode : {"single", "multi", "global"},
                                source : ScopeSources, clarify : BOOLEAN]
    BY <1>3, <1>7 DEF IsResolution
  <2>. HIDE DEF T
  <2>2. [first EXCEPT !.scopes = all]
          \in [scopes : T, mode : {"single", "multi", "global"}, source : ScopeSources,
               clarify : BOOLEAN]
    BY <2>1
  <2>. QED  BY <2>2 DEF IsResolution, T
<1>. QED  BY <1>4, <1>5, <1>8

LEMMA ReadPinnedTyped ==
  ASSUME Shapes, RequestsInv, PinnedInv, NEW r \in Requests, ReadPinned(r)
  PROVE  RequestsInv' /\ UNCHANGED conversation
<1>. DEFINE q == request[r]  c == ConversationOf(r)
            pc == IF q.how = "regenerate" THEN "scope" ELSE "user"
<1>1. PICK seen \in {NotPinned} \cup {conversation[x].pinned : x \in {d \in {c} : Live(d)}} :
        request' = [request EXCEPT ![r].pinned = seen, ![r].pc = pc]
  BY DEF ReadPinned
<1>2. \A x : x = c /\ Live(x) => x \in Conversations
  BY DEF Shapes, IsRequest, Live, ConversationOf
<1>3. seen \in Pinned
  BY <1>1, <1>2, TypesOfConstants DEF PinnedInv
<1>. DEFINE new == [q EXCEPT !.pinned = seen, !.pc = pc]
<1>4. request' = [request EXCEPT ![r] = new]
  BY <1>1 DEF Shapes
<1>5. /\ new.pc = pc /\ new.pinned = seen /\ new.resolution = q.resolution
      /\ new.answer = q.answer /\ new.question = q.question /\ new.key = q.key
      /\ new.ranked = q.ranked
  BY DEF Shapes, IsRequest
<1>6. TypedRequest(q) /\ ScopedRequest(r, q) /\ q.pc = "pinned" /\ pc \in {"scope", "user"}
  BY DEF RequestsInv, ReadPinned, At
<1>. HIDE DEF new, pc, q
<1>7. TypedRequest(new)
  BY <1>3, <1>5, <1>6 DEF TypedRequest, Steps
<1>8. ScopedRequest(r, new)
  BY <1>5, <1>6 DEF ScopedRequest, Keyed, Asking
<1>. QED  BY <1>4, <1>7, <1>8, BecomesTyped DEF ReadPinned

LEMMA FindScopeTyped ==
  ASSUME Shapes, RequestsInv, PinnedInv, NEW r \in Requests, FindScope(r)
  PROVE  RequestsInv' /\ PinnedInv'
<1>. DEFINE q == request[r]
            found == ResolveScopeResolution(q.question, q.question.named, q.pinned)
            pinned == NextPinned(q.pinned, found)
            key == CacheActiveFilters(q.pinned.own, found.scopes)
<1>1. TypedRequest(q) /\ ScopedRequest(r, q) /\ q.pc = "scope"
  BY DEF RequestsInv, FindScope, At
<1>2. q.question \in Questions[r] /\ q.pinned \in Pinned
  BY <1>1 DEF TypedRequest, ScopedRequest, Asking
<1>3. q.question.named \in Seq(Scopes)
  BY <1>2, ScopeAssumption
<1>4. IsResolution(found, Scopes)
  BY <1>2, <1>3, ResolutionType DEF Pinned
<1>. HIDE DEF found
<1>5. pinned \in Pinned
  BY <1>2, <1>4, NextPinnedType DEF Pinned
<1>6. key.scopes = ToSet(CollectCaseScopes(found.scopes))
  BY DEF CacheActiveFilters
<1>7. CASE found.clarify
  <2>. DEFINE new == [q EXCEPT !.pc = "reply", !.answer = FixedText, !.resolution = found]
  <2>1. /\ request' = [request EXCEPT ![r].pc = "reply", ![r].answer = FixedText,
                         ![r].resolution = found]
        /\ UNCHANGED conversation
    BY <1>7 DEF FindScope, found
  <2>2. request' = [request EXCEPT ![r] = new]
    BY <2>1 DEF Shapes
  <2>3. /\ new.pc = "reply" /\ new.pinned = q.pinned /\ new.resolution = found
        /\ new.answer = FixedText
    BY DEF Shapes, IsRequest
  <2>. HIDE DEF new, q
  <2>4. TypedRequest(new)
    BY <1>2, <1>4, <2>3, TypesOfConstants DEF TypedRequest, Steps
  <2>5. ScopedRequest(r, new)
    BY <2>3, TypesOfConstants DEF ScopedRequest, Keyed, Asking
  <2>6. RequestsInv'
    BY <2>2, <2>4, <2>5, BecomesTyped
  <2>. QED  BY <2>1, <2>6 DEF PinnedInv
<1>8. CASE ~found.clarify
  <2>1. /\ request' = [request EXCEPT ![r].pc = "lookup", ![r].resolution = found,
                         ![r].pinned = pinned, ![r].key = key]
        /\ WritePinned(r, pinned)
    BY <1>8 DEF FindScope, found
  <2>. HIDE DEF pinned, key
  <2>. DEFINE new == [q EXCEPT !.pc = "lookup", !.resolution = found, !.pinned = pinned, !.key = key]
  <2>2. request' = [request EXCEPT ![r] = new]
    BY <2>1 DEF Shapes
  <2>3. /\ new.pc = "lookup" /\ new.pinned = pinned /\ new.resolution = found
        /\ new.answer = q.answer /\ new.question = q.question /\ new.key = key
    BY DEF Shapes, IsRequest
  <2>. HIDE DEF new, q
  <2>4. TypedRequest(new)
    BY <1>1, <1>4, <1>5, <2>3 DEF TypedRequest, Steps
  <2>5. q.answer.kind # "answer"
    BY <1>1 DEF ScopedRequest, Asking
  <2>6. ScopedRequest(r, new)
    BY <1>2, <1>6, <2>3, <2>5 DEF ScopedRequest, Keyed, Asking
  <2>7. RequestsInv'
    BY <2>2, <2>4, <2>6, BecomesTyped
  <2>8. PinnedInv'
    BY <1>5, <2>1, WritePinnedTyped
  <2>. QED  BY <2>7, <2>8
<1>. QED  BY <1>7, <1>8

LEMMA LookUpTyped ==
  ASSUME Shapes, RequestsInv, AnswersInv, NEW r \in Requests, LookUp(r)
  PROVE  RequestsInv' /\ UNCHANGED conversation
<1>. DEFINE q == request[r]
<1>1. TypedRequest(q) /\ ScopedRequest(r, q) /\ q.pc = "lookup" /\ UNCHANGED conversation
  BY DEF RequestsInv, LookUp, At
<1>2. CASE Goto(r, "detect")
  BY <1>1, <1>2, GotoTyped DEF Steps, Asking
<1>3. ASSUME NEW entry \in cache, entry.key = q.key,
             request' = [request EXCEPT ![r].pc = "reply", ![r].hit = TRUE,
               ![r].answer = [kind |-> "answer", meant |-> entry.meant,
                              cites |-> Renumbered(entry.meant)]]
      PROVE  RequestsInv'
  <2>. DEFINE answer == [kind |-> "answer", meant |-> entry.meant, cites |-> Renumbered(entry.meant)]
  <2>1. entry.meant \in Marks /\ InScope(entry.meant, q.key.scopes)
    BY <1>3 DEF AnswersInv
  <2>2. Renumbered(entry.meant) \in Marks
    <3>. DEFINE A == [index : Nat, chunk : Chunks]
    <3>1. DOMAIN entry.meant = 1 .. Len(entry.meant) /\ Len(entry.meant) \in Nat
      BY <2>1 DEF Marks
    <3>2. \A i \in DOMAIN entry.meant : i \in Nat /\ entry.meant[i].chunk \in Chunks
      <4>1. \A i \in DOMAIN entry.meant : i \in Nat /\ entry.meant[i] \in A
        <5>. HIDE DEF A
        <5>1. entry.meant \in Seq(A)
          BY <2>1 DEF Marks, A
        <5>2. \A i \in DOMAIN entry.meant : entry.meant[i] \in A
          BY <5>1
        <5>. QED  BY <3>1, <5>2
      <4>. QED  BY <4>1
    <3>3. \A i \in DOMAIN entry.meant : Mark(i, entry.meant[i].chunk) \in A
      BY <3>2 DEF Mark
    <3>. HIDE DEF A
    <3>4. Renumbered(entry.meant) \in [1 .. Len(entry.meant) -> A]
      BY <3>1, <3>3 DEF Renumbered
    <3>5. Renumbered(entry.meant) \in Seq(A)
      BY <3>1, <3>4
    <3>. QED  BY <3>5 DEF A, Marks
  <2>3. /\ answer.kind = "answer" /\ answer.meant = entry.meant /\ answer \in Text
    <3>1. Text = [kind : {"none", "fixed", "answer"}, meant : Marks, cites : Marks]
      BY DEF Text, Marks
    <3>. QED  BY <2>1, <2>2, <3>1
  <2>. HIDE DEF answer
  <2>. DEFINE new == [q EXCEPT !.pc = "reply", !.hit = TRUE, !.answer = answer]
  <2>4. request' = [request EXCEPT ![r] = new]
    BY <1>3 DEF Shapes, answer
  <2>5. /\ new.pc = "reply" /\ new.pinned = q.pinned /\ new.resolution = q.resolution
        /\ new.answer = answer /\ new.key = q.key
    BY DEF Shapes, IsRequest
  <2>. HIDE DEF new, q
  <2>6. TypedRequest(new)
    BY <1>1, <2>3, <2>5 DEF TypedRequest, Steps
  <2>7. ScopedRequest(r, new)
    BY <1>1, <2>1, <2>3, <2>5 DEF ScopedRequest, Keyed, Asking
  <2>. QED  BY <2>4, <2>6, <2>7, BecomesTyped
<1>. QED  BY <1>1, <1>2, <1>3 DEF LookUp

LEMMA DetectTyped ==
  ASSUME Shapes, RequestsInv, PinnedInv, NEW r \in Requests, Detect(r)
  PROVE  RequestsInv' /\ PinnedInv'
<1>. DEFINE q == request[r]
<1>1. TypedRequest(q) /\ ScopedRequest(r, q) /\ q.pc = "detect"
  BY DEF RequestsInv, Detect, At
<1>2. PICK detected, expanded \in Detected, analytics \in BOOLEAN :
        LET found == ScopeFound(r, detected, expanded)
        IN /\ WritePinned(r, NextPinned(q.pinned, found))
           /\ request' = [request EXCEPT ![r].question = "none", ![r].pinned = NotPinned,
                ![r].resolution = [found EXCEPT !.source = "none"],
                ![r].key = FinalKey(r, found),
                ![r].answer = IF analytics THEN FixedText ELSE NoAnswer,
                ![r].pc = IF analytics THEN "reply" ELSE "retrieve"]
  BY DEF Detect
<1>. DEFINE found == ScopeFound(r, detected, expanded)
            resolution == [found EXCEPT !.source = "none"]
            key == FinalKey(r, found)
            answer == IF analytics THEN FixedText ELSE NoAnswer
            pc == IF analytics THEN "reply" ELSE "retrieve"
<1>3. IsResolution(found, Scopes)
  BY <1>1, ScopeAssumption, ScopeFoundType DEF TypedRequest
<1>4. NextPinned(q.pinned, found) \in Pinned
  <2>. HIDE DEF found
  <2>. QED  BY <1>1, <1>3, NextPinnedType DEF Pinned, TypedRequest
<1>5. /\ WritePinned(r, NextPinned(q.pinned, found))
      /\ request' = [request EXCEPT ![r].question = "none", ![r].pinned = NotPinned,
           ![r].resolution = resolution, ![r].key = key, ![r].answer = answer, ![r].pc = pc]
  BY <1>2
<1>6. PinnedInv'
  BY <1>4, <1>5, WritePinnedTyped
<1>. HIDE DEF found
<1>7. IsResolution(resolution, Scopes) /\ resolution.scopes = found.scopes
  <2>. DEFINE T == Seq(Scopes)
  <2>1. found \in [scopes : T, mode : {"single", "multi", "global"}, source : ScopeSources,
                   clarify : BOOLEAN]
    BY <1>3 DEF IsResolution
  <2>. HIDE DEF T
  <2>2. resolution \in [scopes : T, mode : {"single", "multi", "global"}, source : ScopeSources,
                        clarify : BOOLEAN] /\ resolution.scopes = found.scopes
    BY <2>1 DEF ScopeSources
  <2>. QED  BY <2>2 DEF IsResolution, T
<1>8. key.scopes = ToSet(CollectCaseScopes(found.scopes))
  BY DEF FinalKey, CacheActiveFilters
<1>9. answer \in Text /\ answer.kind # "answer" /\ pc \in {"reply", "retrieve"}
  BY TypesOfConstants
<1>. HIDE DEF resolution, key, answer, pc
<1>. DEFINE new == [q EXCEPT !.question = "none", !.pinned = NotPinned, !.resolution = resolution,
                      !.key = key, !.answer = answer, !.pc = pc]
<1>10. request' = [request EXCEPT ![r] = new]
  BY <1>5 DEF Shapes
<1>11. /\ new.pc = pc /\ new.pinned = NotPinned /\ new.resolution = resolution
       /\ new.answer = answer /\ new.key = key
  BY DEF Shapes, IsRequest
<1>. HIDE DEF new, q
<1>12. TypedRequest(new)
  BY <1>7, <1>9, <1>11, TypesOfConstants DEF TypedRequest, Steps
<1>13. ScopedRequest(r, new)
  BY <1>7, <1>8, <1>9, <1>11 DEF ScopedRequest, Keyed, Asking
<1>. QED  BY <1>6, <1>10, <1>12, <1>13, BecomesTyped

\* The searches, cut down to maxChunks.
LEMMA RetrieveTyped ==
  ASSUME Shapes, RequestsInv, TablesInv, NEW r \in Requests, Retrieve(r)
  PROVE  RequestsInv' /\ UNCHANGED conversation
<1>. DEFINE q == request[r]
<1>1. TypedRequest(q) /\ ScopedRequest(r, q) /\ q.pc = "retrieve" /\ UNCHANGED conversation
  BY DEF RequestsInv, Retrieve, At
<1>2. PICK found \in SUBSET {c \in chunk : document[DocumentOf(c)].status \in Searchable} :
        request' = [request EXCEPT ![r].pc = "screen",
                      ![r].ranked = FirstOf(MapSeq(Evidence, SetToSeq(found)), MaxChunks)]
  BY DEF Retrieve
<1>. DEFINE list == SetToSeq(found)
            all == MapSeq(Evidence, list)
            ranked == FirstOf(all, MaxChunks)
<1>3. IsFiniteSet(found) /\ found \subseteq Chunks
  <2>1. IsFiniteSet(0 .. MaxGeneration)
    BY AskAssumption, FS_Interval
  <2>2. IsFiniteSet(Chunks)
    BY <2>1, AskAssumption, FS_Product DEF Chunks
  <2>3. found \subseteq Chunks
    BY <1>2 DEF TablesInv
  <2>. QED  BY <2>2, <2>3, FS_Subset
<1>4. list \in Seq(found)
  BY <1>3, SetToSeqType
<1>. HIDE DEF list
<1>5. \A c \in Chunks : Evidence(c) \in EvidenceRecords
  <2>1. ASSUME NEW c \in Chunks
        PROVE  Evidence(c) \in EvidenceRecords
    <3>. DEFINE T == Seq(Scopes)
    <3>1. DocumentOf(c) \in Documents /\ <<>> \in T
      BY DEF Chunks, DocumentOf
    <3>. HIDE DEF T
    <3>. QED  BY <3>1 DEF Evidence, EvidenceRecords, T
  <2>. QED  BY <2>1
<1>6. all \in Seq(EvidenceRecords)
  <2>1. DOMAIN list = 1 .. Len(list) /\ Len(list) \in Nat /\ \A i \in DOMAIN list : list[i] \in Chunks
    BY <1>3, <1>4
  <2>2. all = [i \in DOMAIN list |-> Evidence(list[i])]
    BY DEF MapSeq
  <2>. HIDE DEF all
  <2>3. all \in [1 .. Len(list) -> EvidenceRecords]
    BY <1>5, <2>1, <2>2
  <2>. QED  BY <2>1, <2>3
<1>. HIDE DEF all
<1>7. ranked \in Seq(EvidenceRecords)
  BY <1>6, PartsType, AskAssumption
<1>8. request' = [request EXCEPT ![r].pc = "screen", ![r].ranked = ranked]
  BY <1>2 DEF all, list
<1>. HIDE DEF ranked
<1>. DEFINE new == [q EXCEPT !.pc = "screen", !.ranked = ranked]
<1>9. request' = [request EXCEPT ![r] = new]
  BY <1>8 DEF Shapes
<1>10. /\ new.pc = "screen" /\ new.pinned = q.pinned /\ new.resolution = q.resolution
       /\ new.answer = q.answer /\ new.key = q.key /\ new.ranked = ranked
  BY DEF Shapes, IsRequest
<1>. HIDE DEF new, q
<1>11. TypedRequest(new)
  BY <1>1, <1>10 DEF TypedRequest, Steps
<1>12. ScopedRequest(r, new)
  BY <1>1, <1>7, <1>10 DEF ScopedRequest, Keyed, Asking
<1>. QED  BY <1>1, <1>9, <1>11, <1>12, BecomesTyped

\* The filter and the balance let through only what is in scope.
LEMMA ScreenTyped ==
  ASSUME Shapes, RequestsInv, NEW r \in Requests, Screen(r)
  PROVE  RequestsInv' /\ UNCHANGED conversation
<1>. DEFINE q == request[r]
            found == q.resolution
            allowed == IF r \in Admins THEN q.ranked
                       ELSE Filtered(q.ranked, LAMBDA e :
                              e.id \in chunk /\ document[e.document].status # "DELETED")
            inScope == IF found.scopes = <<>> THEN allowed
                       ELSE FilterChunksByCaseScopes(allowed, found.scopes)
            balanced == IF found.mode = "multi" /\ Len(found.scopes) > 1
                        THEN BalanceChunksAcrossCaseScopes(inScope, found.scopes, MaxChunks)
                        ELSE inScope
            F == {e \in EvidenceRecords :
                    found.scopes # <<>> => e.signals = {} \/ Answers(e.signals, found.scopes)}
<1>1. TypedRequest(q) /\ ScopedRequest(r, q) /\ q.pc = "screen" /\ UNCHANGED conversation
  BY DEF RequestsInv, Screen, At
<1>2. /\ request' = [request EXCEPT ![r].ranked = balanced,
                       ![r].answer = IF balanced = <<>> THEN FixedText ELSE NoAnswer,
                       ![r].pc = IF balanced = <<>> THEN "reply" ELSE "generate"]
  BY DEF Screen
<1>3. q.ranked \in Seq(EvidenceRecords) /\ found.scopes \in Seq(Scopes)
      /\ q.key.scopes = ToSet(CollectCaseScopes(found.scopes))
  BY <1>1 DEF ScopedRequest, Keyed, TypedRequest, IsResolution
<1>. HIDE DEF q
<1>4. allowed \in Seq(EvidenceRecords)
  <2>. DEFINE K == {i \in DOMAIN q.ranked :
                      q.ranked[i].id \in chunk /\ document[q.ranked[i].document].status # "DELETED"}
  <2>1. allowed = IF r \in Admins THEN q.ranked ELSE Kept(q.ranked, K)
    BY DEF Filtered
  <2>2. K \in SUBSET DOMAIN q.ranked
    OBVIOUS
  <2>. HIDE DEF K, allowed
  <2>3. Kept(q.ranked, K) \in Seq(EvidenceRecords)
    BY <1>3, <2>2, KeptInto
  <2>. QED  BY <1>3, <2>1, <2>3
<1>. HIDE DEF allowed, found
<1>5. inScope \in Seq(F)
  <2>1. CASE found.scopes = <<>>
    <3>1. F = EvidenceRecords
      BY <2>1
    <3>. HIDE DEF F
    <3>. QED  BY <1>4, <2>1, <3>1
  <2>2. CASE found.scopes # <<>>
    <3>. DEFINE G == {e \in EvidenceRecords : e.signals = {} \/ Answers(e.signals, found.scopes)}
    <3>1. \A e \in EvidenceRecords : \A m \in Seq(Scopes) :
            [e EXCEPT !.matched = m] \in EvidenceRecords
              /\ [e EXCEPT !.matched = m].signals = e.signals
      <4>. DEFINE T == Seq(Scopes)
      <4>. HIDE DEF T
      <4>1. \A e \in EvidenceRecords : \A m \in T :
            [e EXCEPT !.matched = m] \in EvidenceRecords
              /\ [e EXCEPT !.matched = m].signals = e.signals
        BY DEF EvidenceRecords, T
      <4>. QED  BY <4>1 DEF T
    <3>2. FilterChunksByCaseScopes(allowed, found.scopes) \in Seq(G)
      <4>1. found.scopes \in Seq(Scopes)
        BY <1>3
      <4>. DEFINE E == EvidenceRecords  T == Scopes  scopes == found.scopes
      <4>2. \A e \in E : \A m \in Seq(T) :
              [e EXCEPT !.matched = m] \in E /\ [e EXCEPT !.matched = m].signals = e.signals
        BY <3>1
      <4>3. allowed \in Seq(E) /\ scopes \in Seq(T)
        BY <1>4, <4>1
      <4>4. \A e \in E : e.signals = {} \/ Answers(e.signals, scopes) => e \in G
        BY DEF E, scopes
      <4>. HIDE DEF E, T, scopes, G
      <4>5. FilterChunksByCaseScopes(allowed, scopes) \in Seq(G)
        BY <4>2, <4>3, <4>4, FilterSound
      <4>. QED  BY <4>5 DEF scopes
    <3>3. G = F
      BY <2>2
    <3>. HIDE DEF F, G
    <3>. QED  BY <2>2, <3>2, <3>3
  <2>. QED  BY <2>1, <2>2
<1>. HIDE DEF inScope
<1>6. balanced \in Seq(F)
  <2>1. \A e \in F : e.score \in Nat
    BY DEF EvidenceRecords
  <2>. HIDE DEF F
  <2>. QED  BY <1>3, <1>5, <2>1, BalanceType, AskAssumption
<1>. HIDE DEF balanced
<1>. DEFINE answer == IF balanced = <<>> THEN FixedText ELSE NoAnswer
            pc == IF balanced = <<>> THEN "reply" ELSE "generate"
<1>7. request' = [request EXCEPT ![r].ranked = balanced, ![r].answer = answer, ![r].pc = pc]
  BY <1>2
<1>8. answer \in Text /\ answer.kind # "answer" /\ pc \in {"reply", "generate"}
  BY TypesOfConstants
<1>9. balanced \in Seq(EvidenceRecords)
  <2>1. F \subseteq EvidenceRecords
    OBVIOUS
  <2>. HIDE DEF F
  <2>. QED  BY <1>6, <2>1, SeqSubset
<1>10. q.key.scopes # {} => \A i \in DOMAIN balanced : About(balanced[i].id, q.key.scopes)
  <2>1. ASSUME q.key.scopes # {}, NEW i \in DOMAIN balanced
        PROVE  About(balanced[i].id, q.key.scopes)
    <3>1. balanced[i] \in F
      <4>. HIDE DEF F
      <4>. QED  BY <1>6
    <3>2. found.scopes # <<>>
      BY <1>3, <2>1, CollectNothing DEF ToSet
    <3>3. balanced[i].signals = Signals[DocumentOf(balanced[i].id)]
      BY <3>1 DEF EvidenceRecords
    <3>4. balanced[i].signals = {} \/ Answers(balanced[i].signals, found.scopes)
      BY <3>1, <3>2
    <3>. QED  BY <1>3, <3>3, <3>4 DEF About, Answers
  <2>. QED  BY <2>1
<1>. HIDE DEF answer, pc
<1>. DEFINE new == [q EXCEPT !.ranked = balanced, !.answer = answer, !.pc = pc]
<1>11. request' = [request EXCEPT ![r] = new]
  BY <1>7 DEF Shapes, q
<1>12. /\ new.pc = pc /\ new.pinned = q.pinned /\ new.resolution = found
       /\ new.answer = answer /\ new.key = q.key /\ new.ranked = balanced
  BY DEF Shapes, IsRequest, q, found
<1>. HIDE DEF new
<1>13. TypedRequest(new)
  BY <1>1, <1>8, <1>12 DEF TypedRequest, Steps, found
<1>14. ScopedRequest(r, new)
  BY <1>3, <1>8, <1>9, <1>10, <1>12 DEF ScopedRequest, Keyed, Asking
<1>. QED  BY <1>1, <1>11, <1>13, <1>14, BecomesTyped

LEMMA GenerateTyped ==
  ASSUME Shapes, RequestsInv, NEW r \in Requests, Generate(r)
  PROVE  RequestsInv' /\ UNCHANGED conversation
<1>. DEFINE q == request[r]  ranked == q.ranked
<1>1. TypedRequest(q) /\ ScopedRequest(r, q) /\ q.pc = "generate" /\ UNCHANGED conversation
  BY DEF RequestsInv, Generate, At
<1>2. ASSUME NEW answer \in Text,
             answer.kind = "answer" => InScope(answer.meant, q.key.scopes),
             request' = [request EXCEPT ![r].pc = "reply", ![r].ranked = <<>>, ![r].answer = answer]
      PROVE  RequestsInv'
  <2>. DEFINE new == [q EXCEPT !.pc = "reply", !.ranked = <<>>, !.answer = answer]
  <2>1. request' = [request EXCEPT ![r] = new]
    BY <1>2 DEF Shapes
  <2>2. /\ new.pc = "reply" /\ new.pinned = q.pinned /\ new.resolution = q.resolution
        /\ new.answer = answer /\ new.key = q.key
    BY DEF Shapes, IsRequest
  <2>. HIDE DEF new, q
  <2>3. TypedRequest(new)
    BY <1>1, <2>2 DEF TypedRequest, Steps
  <2>4. ScopedRequest(r, new)
    BY <1>1, <1>2, <2>2 DEF ScopedRequest, Keyed, Asking
  <2>. QED  BY <2>1, <2>3, <2>4, BecomesTyped
<1>3. CASE request' = [request EXCEPT ![r].pc = "reply", ![r].ranked = <<>>, ![r].answer = FixedText]
  <2>. DEFINE answer == FixedText
  <2>1. answer \in Text /\ ~(answer.kind = "answer")
    BY TypesOfConstants
  <2>2. request' = [request EXCEPT ![r].pc = "reply", ![r].ranked = <<>>, ![r].answer = answer]
    BY <1>3
  <2>. HIDE DEF answer, q
  <2>. QED  BY <1>1, <1>2, <2>1, <2>2
<1>4. ASSUME NEW marked \in SUBSET DOMAIN ranked, NEW order \in SetToSeqs(marked),
             LET meant == [i \in DOMAIN order |-> Mark(order[i], ranked[order[i]].id)]
             IN request' = [request EXCEPT ![r].pc = "reply", ![r].ranked = <<>>,
                  ![r].answer = [kind |-> "answer", meant |-> meant, cites |-> meant]]
      PROVE  RequestsInv'
  <2>. DEFINE n == Cardinality(marked)
              meant == [i \in DOMAIN order |-> Mark(order[i], ranked[order[i]].id)]
              answer == [kind |-> "answer", meant |-> meant, cites |-> meant]
              A == [index : Nat, chunk : Chunks]
  <2>1. /\ ranked \in Seq(EvidenceRecords)
        /\ q.key.scopes # {} => \A i \in DOMAIN ranked : About(ranked[i].id, q.key.scopes)
    BY <1>1 DEF ScopedRequest
  <2>. HIDE DEF ranked
  <2>2. DOMAIN ranked = 1 .. Len(ranked) /\ Len(ranked) \in Nat
    BY <2>1
  <2>3. n \in Nat
    <3>1. IsFiniteSet(DOMAIN ranked)
      BY <2>2, FS_Interval
    <3>2. IsFiniteSet(marked)
      BY <3>1, FS_Subset
    <3>. QED  BY <3>2, FS_CardinalityType
  <2>4. DOMAIN order = 1 .. n /\ \A i \in 1 .. n : order[i] \in DOMAIN ranked
    BY <1>4 DEF SetToSeqs
  <2>5. \A i \in 1 .. n : Mark(order[i], ranked[order[i]].id) \in A
    <3>1. \A i \in DOMAIN ranked : i \in Nat /\ ranked[i] \in EvidenceRecords
      BY <2>1, <2>2
    <3>2. \A e \in EvidenceRecords : e.id \in Chunks
      BY DEF EvidenceRecords
    <3>. QED  BY <2>4, <3>1, <3>2 DEF Mark
  <2>6. meant \in Marks
    <3>. HIDE DEF n, A
    <3>1. meant \in [1 .. n -> A]
      BY <2>4, <2>5
    <3>2. meant \in Seq(A)
      <4>. HIDE DEF meant
      <4>. QED  BY <2>3, <3>1
    <3>. QED  BY <3>2 DEF Marks, A
  <2>7. InScope(meant, q.key.scopes)
    <3>1. \A i \in DOMAIN meant : meant[i].chunk = ranked[order[i]].id /\ order[i] \in DOMAIN ranked
      BY <2>4 DEF Mark
    <3>. HIDE DEF meant, q
    <3>. QED  BY <2>1, <3>1 DEF InScope
  <2>8. request' = [request EXCEPT ![r].pc = "reply", ![r].ranked = <<>>, ![r].answer = answer]
    BY <1>4
  <2>. HIDE DEF meant
  <2>9. answer \in Text /\ answer.kind = "answer" /\ answer.meant = meant
    <3>1. Text = [kind : {"none", "fixed", "answer"}, meant : Marks, cites : Marks]
      BY DEF Text, Marks
    <3>. QED  BY <2>6, <3>1
  <2>. HIDE DEF answer, q
  <2>. QED  BY <1>2, <2>7, <2>8, <2>9
<1>. QED  BY <1>1, <1>3, <1>4 DEF Generate

-----------------------------------------------------------------------------
(* Every step.                                                             *)

LEMMA AskTyped ==
  ASSUME Shapes, RequestsInv, PinnedInv, NEW r \in Requests, Ask(r)
  PROVE  RequestsInv' /\ PinnedInv'
<1>1. PICK c \in Conversations, question \in Questions[r], how \in {"plain", "regenerate"} :
        AskNew(r, c, question, how) \/ AskIn(r, c, question, how)
  BY DEF Ask
<1>2. ASSUME NEW new, new.pc = "user" \/ new.pc = "scope" \/ new.pc = "archived",
             new.pinned = NotPinned,
             new.resolution = GlobalScope, new.answer = NoAnswer, new.question = question,
             request' = [request EXCEPT ![r] = new]
      PROVE  RequestsInv'
  <2>1. TypedRequest(new)
    BY <1>2, TypesOfConstants DEF TypedRequest, Steps
  <2>2. ScopedRequest(r, new)
    BY <1>2, TypesOfConstants DEF ScopedRequest, Keyed, Asking
  <2>. QED  BY <1>2, <2>1, <2>2, BecomesTyped
<1>3. CASE AskNew(r, c, question, how)
  <2>. DEFINE row == [conversation[c] EXCEPT !.state = "live", !.pinned = EmptyPinned]
  <2>1. conversation' = [conversation EXCEPT ![c] = row]
    BY <1>3 DEF AskNew
  <2>2. row.pinned = EmptyPinned
    BY DEF Shapes, IsConversation
  <2>3. PinnedInv'
    <3>. HIDE DEF row
    <3>. QED  BY <2>1, <2>2, RowTyped, TypesOfConstants
  <2>4. RequestsInv'
    <3>. DEFINE pc == IF how = "regenerate" THEN "scope" ELSE "user"
                new == [NotAsked EXCEPT !.pc = pc, !.conversation = c, !.question = question,
                                        !.how = how]
    <3>1. /\ new.pc = "user" \/ new.pc = "scope"
          /\ new.pinned = NotPinned
          /\ new.resolution = GlobalScope /\ new.answer = NoAnswer /\ new.question = question
      BY DEF NotAsked
    <3>2. request' = [request EXCEPT ![r] = new]
      BY <1>3 DEF AskNew
    <3>. HIDE DEF new
    <3>. QED  BY <1>2, <3>1, <3>2
  <2>. QED  BY <2>3, <2>4
<1>4. CASE AskIn(r, c, question, how)
  <2>. DEFINE new == [NotAsked EXCEPT !.pc = "archived", !.conversation = c,
                        !.question = question, !.how = how]
  <2>1. /\ new.pc = "archived" /\ new.pinned = NotPinned /\ new.resolution = GlobalScope
        /\ new.answer = NoAnswer /\ new.question = question
    BY DEF NotAsked
  <2>2. request' = [request EXCEPT ![r] = new] /\ UNCHANGED conversation
    BY <1>4 DEF AskIn
  <2>. HIDE DEF new
  <2>. QED  BY <1>2, <2>1, <2>2 DEF PinnedInv
<1>. QED  BY <1>1, <1>3, <1>4

LEMMA QueryTyped ==
  ASSUME Shapes, TablesInv, ScopeInv, NEW r \in Requests, Query(r) \/ Throw(r)
  PROVE  RequestsInv' /\ PinnedInv'
<1>. USE DEF ScopeInv
<1>0. UNCHANGED conversation => PinnedInv'
  BY DEF PinnedInv
<1>1. ASSUME NEW then \in {"countUser", "count"}, InsertMessage(r, then),
             then \in Asking => request[r].pc \in Asking
      PROVE  RequestsInv' /\ PinnedInv'
  <2>. DEFINE c == ConversationOf(r)
  <2>1. CASE Live(c)
    <3>1. conversation' = [conversation EXCEPT ![c].rows = conversation[c].rows + 1]
          /\ Goto(r, then)
      BY <1>1, <2>1 DEF InsertMessage
    <3>2. PinnedInv'
      BY <2>1, <3>1, CountsTyped
    <3>3. RequestsInv'
      BY <1>1, <3>1, GotoTyped DEF Steps
    <3>. QED  BY <3>2, <3>3
  <2>2. CASE ~Live(c)
    BY <1>0, <1>1, <2>2, EndTyped DEF InsertMessage, Ended
  <2>. QED  BY <2>1, <2>2
<1>2. ASSUME NEW then \in {"scope", "trace", "store", "cite"}, CountMessage(r, then),
             then = "scope" => request[r].pc \in Asking,
             then \in {"cite", "store"} => request[r].answer.kind = "answer"
      PROVE  RequestsInv' /\ PinnedInv'
  <2>. DEFINE c == ConversationOf(r)
  <2>1. /\ Goto(r, then)
        /\ \/ conversation' = conversation
           \/ Live(c) /\ conversation' = [conversation EXCEPT ![c].count = conversation[c].count + 1]
    BY <1>2 DEF CountMessage
  <2>2. PinnedInv'
    BY <2>1, CountsTyped
  <2>3. RequestsInv'
    BY <1>2, <2>1, GotoTyped DEF Steps, Asking
  <2>. QED  BY <2>2, <2>3
<1>3. CASE CheckArchived(r)
  <2>1. /\ UNCHANGED conversation /\ request[r].pc = "archived"
        /\ Goto(r, "pinned") \/ End(r, "done")
    BY <1>3 DEF CheckArchived, At
  <2>. QED  BY <1>0, <2>1, GotoTyped, EndTyped DEF Steps, Ended, Asking
<1>4. CASE ReadPinned(r)
  BY <1>0, <1>4, ReadPinnedTyped
<1>5. CASE SaveQuestion(r)
  BY <1>1, <1>5 DEF SaveQuestion, At, Asking
<1>6. CASE CountQuestion(r)
  BY <1>2, <1>6 DEF CountQuestion, At, Asking
<1>7. CASE FindScope(r)
  BY <1>7, FindScopeTyped
<1>8. CASE LookUp(r)
  BY <1>0, <1>8, LookUpTyped
<1>9. CASE Detect(r)
  BY <1>9, DetectTyped
<1>10. CASE Retrieve(r)
  BY <1>0, <1>10, RetrieveTyped
<1>11. CASE Screen(r)
  BY <1>0, <1>11, ScreenTyped
<1>12. CASE Generate(r)
  BY <1>0, <1>12, GenerateTyped
<1>13. CASE SaveAnswer(r)
  BY <1>1, <1>13 DEF SaveAnswer, Asking
<1>14. CASE CountAnswer(r)
  <2>. DEFINE then == IF request[r].answer.kind # "answer" \/ request[r].hit THEN "trace"
                      ELSE IF request[r].answer.cites = <<>> THEN "store" ELSE "cite"
  <2>1. CountMessage(r, then)
    BY <1>14 DEF CountAnswer
  <2>2. /\ then \in {"scope", "trace", "store", "cite"} /\ then # "scope"
        /\ then \in {"cite", "store"} => request[r].answer.kind = "answer"
    OBVIOUS
  <2>. HIDE DEF then
  <2>. QED  BY <1>2, <2>1, <2>2
<1>15. CASE SaveCitations(r)
  <2>1. /\ UNCHANGED conversation /\ request[r].pc = "cite"
        /\ Goto(r, "store") \/ End(r, "failed")
    BY <1>15 DEF SaveCitations, At
  <2>2. request[r].answer.kind = "answer"
    BY <2>1 DEF RequestsInv, ScopedRequest
  <2>. QED  BY <1>0, <2>1, <2>2, GotoTyped, EndTyped DEF Steps, Ended, Asking
<1>16. CASE Store(r)
  <2>1. UNCHANGED conversation /\ Goto(r, "trace")
    BY <1>16 DEF Store
  <2>. QED  BY <1>0, <2>1, GotoTyped DEF Steps, Asking
<1>17. CASE PersistTrace(r)
  <2>1. UNCHANGED conversation /\ (End(r, "done") \/ End(r, "failed"))
    BY <1>17 DEF PersistTrace
  <2>. QED  BY <1>0, <2>1, EndTyped DEF Ended
<1>18. CASE Throw(r)
  <2>1. UNCHANGED conversation /\ (End(r, "uncounted") \/ End(r, "failed"))
    BY <1>18 DEF Throw
  <2>. QED  BY <1>0, <2>1, EndTyped DEF Ended
<1>. QED
  BY <1>3, <1>4, <1>5, <1>6, <1>7, <1>8, <1>9, <1>10, <1>11, <1>12, <1>13, <1>14, <1>15, <1>16,
     <1>17, <1>18 DEF Query

LEMMA InitScope == Init => ScopeInv
<1>. SUFFICES ASSUME Init
              PROVE  ScopeInv
  OBVIOUS
<1>1. RequestsInv
  <2>1. ASSUME NEW r \in Requests
        PROVE  TypedRequest(request[r]) /\ ScopedRequest(r, request[r])
    <3>1. request[r] = NotAsked
      BY DEF Init
    <3>2. /\ NotAsked.pc = "idle" /\ NotAsked.pinned = NotPinned
          /\ NotAsked.resolution = GlobalScope /\ NotAsked.answer = NoAnswer
      BY DEF NotAsked
    <3>. QED  BY <3>1, <3>2, NothingAsked
  <2>. QED  BY <2>1 DEF RequestsInv
<1>2. PinnedInv
  <2>1. ASSUME NEW c \in Conversations
        PROVE  conversation[c].pinned \in Pinned
    <3>1. \/ conversation[c] = NoRow
          \/ conversation[c] = [NoRow EXCEPT !.state = "live", !.pinned = EmptyPinned]
      BY DEF Init
    <3>2. /\ NoRow.pinned = NotPinned
          /\ [NoRow EXCEPT !.state = "live", !.pinned = EmptyPinned].pinned = EmptyPinned
      BY DEF NoRow
    <3>. QED  BY <3>1, <3>2, TypesOfConstants
  <2>. QED  BY <2>1 DEF PinnedInv
<1>3. AnswersInv
  BY DEF Init, AnswersInv
<1>. QED  BY <1>1, <1>2, <1>3 DEF ScopeInv

LEMMA NextScope ==
  ASSUME Shapes, TablesInv, ScopeInv, [Next]_askVars
  PROVE  ScopeInv'
<1>. USE DEF ScopeInv
<1>0. /\ UNCHANGED request => RequestsInv'
      /\ UNCHANGED conversation => PinnedInv'
      /\ cache' \subseteq cache => AnswersInv'
  <2>1. UNCHANGED request => RequestsInv'
    BY DEF RequestsInv, TypedRequest, ScopedRequest, Keyed
  <2>. QED  BY <2>1 DEF PinnedInv, AnswersInv
<1>1. ASSUME NEW r \in Requests, Ask(r)
      PROVE  ScopeInv'
  <2>1. UNCHANGED cache
    BY <1>1 DEF Ask, AskNew, AskIn
  <2>. QED  BY <1>0, <1>1, <2>1, AskTyped
<1>2. ASSUME NEW r \in Requests, Query(r) \/ Throw(r)
      PROVE  ScopeInv'
  <2>1. AnswersInv'
    <3>1. CASE Store(r)
      <4>. DEFINE entry == [key |-> request[r].key, meant |-> request[r].answer.meant]
      <4>1. cache' = cache \cup {entry} \/ UNCHANGED cache
        BY <3>1 DEF Store
      <4>2. request[r].pc = "store" /\ TypedRequest(request[r]) /\ ScopedRequest(r, request[r])
        BY <3>1 DEF Store, At, RequestsInv
      <4>3. entry.meant \in Marks /\ InScope(entry.meant, entry.key.scopes)
        BY <4>2 DEF TypedRequest, ScopedRequest, Text, Marks
      <4>. HIDE DEF entry
      <4>. QED  BY <4>1, <4>3 DEF AnswersInv
    <3>2. CASE ~Store(r)
      <4>1. UNCHANGED cache
        BY <1>2, <3>2 DEF Query, Throw, CheckArchived, ReadPinned, SaveQuestion, CountQuestion,
          FindScope, LookUp, Detect, Retrieve, Screen, Generate, SaveAnswer, CountAnswer,
          SaveCitations, PersistTrace
      <4>. QED  BY <1>0, <4>1
    <3>. QED  BY <3>1, <3>2
  <2>. QED  BY <1>2, <2>1, QueryTyped
<1>3. ASSUME NEW c \in Conversations, PatchConversation(c)
      PROVE  ScopeInv'
  <2>1. PICK archived \in BOOLEAN,
             pinned \in {conversation[c].pinned} \cup {[EmptyPinned EXCEPT !.own = o] : o \in OwnFilters} :
          conversation' = [conversation EXCEPT ![c].archived = archived, ![c].pinned = pinned]
    BY <1>3 DEF PatchConversation
  <2>2. pinned \in Pinned
    BY <2>1, TypesOfConstants DEF PinnedInv
  <2>. DEFINE row == [conversation[c] EXCEPT !.archived = archived, !.pinned = pinned]
  <2>3. conversation' = [conversation EXCEPT ![c] = row] /\ row.pinned = pinned
    BY <2>1 DEF Shapes, IsConversation
  <2>. HIDE DEF row
  <2>4. PinnedInv' /\ UNCHANGED <<request, cache>>
    BY <1>3, <2>2, <2>3, RowTyped DEF PatchConversation
  <2>. QED  BY <1>0, <2>4
<1>4. ASSUME NEW c \in Conversations, DeleteConversation(c)
      PROVE  ScopeInv'
  <2>. DEFINE row == [NoRow EXCEPT !.state = "deleted"]
  <2>1. conversation' = [conversation EXCEPT ![c] = row] /\ row.pinned = NotPinned
    BY <1>4 DEF DeleteConversation, NoRow
  <2>. HIDE DEF row
  <2>2. PinnedInv' /\ UNCHANGED <<request, cache>>
    BY <1>4, <2>1, RowTyped, TypesOfConstants DEF DeleteConversation
  <2>. QED  BY <1>0, <2>2
<1>5. ASSUME UNCHANGED <<conversation, request>>, cache' \subseteq cache
      PROVE  ScopeInv'
  BY <1>0, <1>5
<1>6. ASSUME NEW d \in Documents,
             PatchDocument(d) \/ DeleteDocument(d) \/ ReprocessDocument(d) \/ BatchReprocess(d)
               \/ MakeChunks(d) \/ WorkerFails(d)
      PROVE  ScopeInv'
  BY <1>5, <1>6 DEF PatchDocument, DeleteDocument, ReprocessDocument, BatchReprocess, MakeChunks,
    WorkerFails
<1>7. CASE InvalidateCache \/ UNCHANGED askVars
  BY <1>5, <1>7 DEF InvalidateCache, askVars
<1>. QED  BY <1>1, <1>2, <1>3, <1>4, <1>6, <1>7 DEF Next

THEOREM ScopeInvariant == Spec => [](EvidenceInv /\ TablesInv /\ ScopeInv)
<1>1. Init => EvidenceInv /\ TablesInv /\ ScopeInv
  BY InitEvidence, InitTables, InitScope
<1>2. AskInv /\ EvidenceInv /\ TablesInv /\ ScopeInv /\ [Next]_askVars
        => EvidenceInv' /\ TablesInv' /\ ScopeInv'
  BY NextEvidence, NextTables, NextScope DEF AskInv
<1>. QED  BY AskInvariant, <1>1, <1>2, PTL DEF Spec

\* What a user gets for a question about given cases, freshly made or from the cache, rests
\* on evidence of those cases alone: executeRetrievalPipeline stores an answer under the
\* scope it was screened for, however often the scope was revised after the lookup.
THEOREM StaysInScope == Spec => []AnswersStayInScope
<1>1. ScopeInv => AnswersStayInScope
  <2>1. ASSUME ScopeInv, NEW r \in Requests, request[r].answer.kind = "answer",
               request[r].resolution.scopes # <<>>, NEW m \in ToSet(request[r].answer.meant)
        PROVE  \/ Signals[DocumentOf(m.chunk)] = {}
               \/ \E s \in Signals[DocumentOf(m.chunk)], t \in ToSet(request[r].resolution.scopes) :
                    CaseSignalMatchesScope(s, t)
    <3>. DEFINE q == request[r]  scopes == q.resolution.scopes  found == CollectCaseScopes(scopes)
    <3>1. TypedRequest(q) /\ ScopedRequest(r, q)
      BY <2>1 DEF ScopeInv, RequestsInv
    <3>2. scopes \in Seq(Scopes) /\ q.key.scopes = ToSet(found) /\ InScope(q.answer.meant, q.key.scopes)
      BY <2>1, <3>1 DEF TypedRequest, ScopedRequest, Keyed, IsResolution
    <3>. HIDE DEF q, scopes
    <3>3. found \in Seq(Scopes) /\ ToSet(found) \subseteq ToSet(scopes) /\ found # <<>>
      BY <2>1, <3>2, CollectInto, CollectType DEF scopes, q
    <3>. HIDE DEF found
    <3>4. ToSet(found) # {}
      <4>1. 1 \in DOMAIN found
        BY <3>3
      <4>. QED  BY <4>1 DEF ToSet
    <3>5. About(m.chunk, ToSet(found))
      BY <2>1, <3>2, <3>4 DEF InScope, ToSet, q
    <3>6. About(m.chunk, ToSet(scopes))
      BY <3>3, <3>5 DEF About
    <3>. QED  BY <3>6 DEF About, scopes, q
  <2>. QED  BY <2>1 DEF AnswersStayInScope
<1>. QED  BY ScopeInvariant, <1>1, PTL

\* The types of the variables: every scope in a conversation, a request or a piece of
\* evidence is one that a document, a question or entity detection gave.
THEOREM AskTypeCorrect == Spec => []TypeOK
<1>1. ASSUME AskInv, EvidenceInv, TablesInv, ScopeInv
      PROVE  TypeOK
  <2>1. conversation \in [Conversations ->
          [state : {"free", "live", "deleted"}, archived : BOOLEAN, rows : Nat, count : Nat,
           pinned : Pinned]]
    <3>1. ASSUME NEW c \in Conversations
          PROVE  conversation[c] \in [state : {"free", "live", "deleted"}, archived : BOOLEAN,
                                      rows : Nat, count : Nat, pinned : Pinned]
      <4>1. /\ conversation[c] \in [state : {"free", "live", "deleted"}, archived : BOOLEAN,
                                    rows : Nat, count : Nat, pinned : {conversation[c].pinned}]
            /\ conversation[c].pinned \in Pinned
        BY <1>1 DEF AskInv, Shapes, IsConversation, ScopeInv, PinnedInv
      <4>. HIDE DEF Pinned
      <4>. QED  BY <4>1
    <3>2. conversation = [c \in Conversations |-> conversation[c]]
      BY <1>1 DEF AskInv, Shapes
    <3>. QED  BY <3>1, <3>2
  <2>2. citation \subseteq [message : Requests, chunk : chunk]
    <3>1. ASSUME NEW x \in citation
          PROVE  x \in [message : Requests, chunk : chunk]
      BY <1>1 DEF TablesInv, EvidenceInv
    <3>. QED  BY <3>1
  <2>3. \A entry \in cache : entry.meant \in Seq([index : Nat, chunk : Chunks])
    BY <1>1 DEF ScopeInv, AnswersInv, Marks
  <2>4. \A r \in Requests : /\ request[r].pc \in Steps \cup Ended \cup {"idle"}
                            /\ request[r].conversation \in Conversations \cup {NoConversation}
                            /\ request[r].answer \in Text
    BY <1>1 DEF ScopeInv, RequestsInv, TypedRequest, AskInv, Shapes, IsRequest
  <2>5. Pinned = [set : BOOLEAN, case : Scopes \cup {NoScope}, multi : Seq(Scopes),
                  mode : {"none", "single", "multi", "global"}, source : ScopeSources,
                  own : OwnFilters \cup {"none"}]
    BY DEF Pinned, PinnedTypes
  <2>. QED  BY <1>1, <2>1, <2>2, <2>3, <2>4, <2>5 DEF TypeOK, AskInv, Shapes, EvidenceInv, TablesInv
<1>2. AskInv /\ EvidenceInv /\ TablesInv /\ ScopeInv => TypeOK
  BY <1>1
<1>. QED  BY AskInvariant, ScopeInvariant, <1>2, PTL
=============================================================================
