------------------------ MODULE ConversationContract ------------------------
(***************************************************************************)
(* What POST /query promises to those who read a conversation: a request   *)
(* adds its question and then one answer, each at most once and never in   *)
(* the other order; a request to regenerate an answer adds no question;    *)
(* nothing is added to a conversation that is gone, nor by a request which *)
(* found the conversation archived.                                        *)
(***************************************************************************)
EXTENDS Integers

CONSTANTS
  Requests,        \* the calls of POST /query
  Conversations,   \* the conversations
  NoConversation

VARIABLES talk, exchange

Open == {"asking", "repeating", "open", "asked", "answered"}
IsLive(c) == c # NoConversation /\ talk[c].state = "live"
Shut(c) == IsLive(c) /\ talk[c].archived

\* One step of the request r, and what it adds to its conversation.
Phase(r, from, to) ==
  exchange[r].phase = from /\ exchange' = [exchange EXCEPT ![r].phase = to]
Grow(c) == IsLive(c) /\ talk' = [talk EXCEPT ![c].rows = @ + 1]

Empty(state) == [state |-> state, archived |-> FALSE, rows |-> 0]
Nobody == [phase |-> "none", talk |-> NoConversation]

Begin(r, c) ==
  /\ exchange[r].phase = "none" /\ talk[c].state = "free"
  /\ \E phase \in {"open", "asked"} :
       exchange' = [exchange EXCEPT ![r] = [phase |-> phase, talk |-> c]]
  /\ talk' = [talk EXCEPT ![c].state = "live"]
Enter(r, c) ==
  /\ exchange[r].phase = "none" /\ talk[c].state # "free"
  /\ \E phase \in {"asking", "repeating"} :
       exchange' = [exchange EXCEPT ![r] = [phase |-> phase, talk |-> c]]
  /\ UNCHANGED talk

Admit(r) ==
  /\ Phase(r, "asking", "open") \/ Phase(r, "repeating", "asked")
  /\ ~Shut(exchange[r].talk) /\ UNCHANGED talk
Refuse(r) ==
  /\ Phase(r, "asking", "closed") \/ Phase(r, "repeating", "closed")
  /\ Shut(exchange[r].talk) /\ UNCHANGED talk

AddQuestion(r) == Phase(r, "open", "asked") /\ Grow(exchange[r].talk)
AddAnswer(r) == Phase(r, "asked", "answered") /\ Grow(exchange[r].talk)
Finish(r) == Phase(r, "answered", "closed") /\ IsLive(exchange[r].talk) /\ UNCHANGED talk
Fail(r) == \E phase \in Open : Phase(r, phase, "failed") /\ UNCHANGED talk

Archive(c, archived) ==
  /\ IsLive(c) /\ talk' = [talk EXCEPT ![c].archived = archived]
  /\ UNCHANGED exchange
Delete(c) ==
  /\ IsLive(c) /\ talk' = [talk EXCEPT ![c] = Empty("deleted")]
  /\ UNCHANGED exchange

ContractInit ==
  /\ talk \in [Conversations -> {Empty("free"), Empty("live")}]
  /\ exchange = [r \in Requests |-> Nobody]

ContractNext ==
  \/ \E r \in Requests :
       \/ Admit(r) \/ Refuse(r) \/ AddQuestion(r) \/ AddAnswer(r) \/ Finish(r) \/ Fail(r)
       \/ \E c \in Conversations : Begin(r, c) \/ Enter(r, c)
  \/ \E c \in Conversations : Delete(c) \/ \E archived \in BOOLEAN : Archive(c, archived)

ContractSpec == ContractInit /\ [][ContractNext]_<<talk, exchange>>
=============================================================================
