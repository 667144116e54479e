------------------------------- MODULE Chat -------------------------------
(***************************************************************************)
(* The chat of the web client: ChatPanel                                   *)
(* (apps/web/src/components/conversation/ChatPanel.tsx) in QueryPage       *)
(* (apps/web/src/pages/QueryPage.tsx).  One useMutation sends questions    *)
(* and regenerations; the user switches conversations while they are under *)
(* way.                                                                    *)
(*                                                                         *)
(* As react-query has it, reset() only detaches the panel from a mutation, *)
(* whose callbacks run all the same, with the state of the last render     *)
(* that the panel was attached in: the one before the effect of the        *)
(* switch, which knows the new conversation already.  Callbacks, the       *)
(* render and its effects are one step.  Conversations hold the answers    *)
(* only.                                                                   *)
(***************************************************************************)
EXTENDS Naturals, FiniteSets

CONSTANTS
  Talks,        \* BOUND: conversations that may ever exist
  OldAnswers,   \* BOUND: answers from earlier visits
  Sends,        \* BOUND: calls of mutate, which also name the answers they get
  NewTalk,      \* the panel without a conversation
  NoSend, NoMessage

ASSUME ChatAssumption ==
  /\ NewTalk \notin Talks /\ NoSend \notin Sends
  /\ OldAnswers \cap Sends = {} /\ NoMessage \notin OldAnswers \cup Sends

VARIABLES
  shown,         \* conversationId
  mutation,      \* the mutations, and the closure that their callbacks run in
  current,       \* the mutation that the panel is attached to
  panel,         \* pendingQuestion, regeneratingMsgId, hiddenMsgIds
  talk,          \* the answers in each conversation, on the server
  fetched,       \* the answers that the client has of the conversation shown
  overrun        \* history: a detached mutation has ended since the switch, during another

chatVars == <<shown, mutation, current, panel, talk, fetched, overrun>>

-----------------------------------------------------------------------------
Messages == OldAnswers \cup Sends
NotSent == [pc |-> "idle", talk |-> NewTalk, regenerates |-> NoMessage,
            closure |-> [shown |-> NewTalk, regenerating |-> NoMessage]]
EmptyPanel == [pending |-> NoSend, regenerating |-> NoMessage, hidden |-> {}]
Pending(s) == s # NoSend /\ mutation[s].pc \in {"pending", "answered"}
IsPending == Pending(current)
Attached(s) == s = current
TalksThere == {t \in Talks : talk[t] # {}}

\* The state that the callbacks of a mutation see.
Closure(s) == IF Attached(s) THEN [shown |-> shown, regenerating |-> panel.regenerating]
              ELSE mutation[s].closure

-----------------------------------------------------------------------------
(* Sending.                                                                *)

Mutate(s, regenerates) ==
  /\ mutation[s].pc = "idle" /\ ~IsPending
  /\ mutation' = [mutation EXCEPT ![s] = [NotSent EXCEPT !.pc = "pending", !.talk = shown,
                                                        !.regenerates = regenerates]]
  /\ current' = s
  /\ UNCHANGED <<shown, talk, fetched, overrun>>

HandleSend(s) == Mutate(s, NoMessage) /\ panel' = [panel EXCEPT !.pending = s]

HandleRegenerate(s, m) ==
  /\ m \in fetched \ panel.hidden /\ Mutate(s, m)
  /\ panel' = [panel EXCEPT !.regenerating = m, !.hidden = @ \cup {m}]

-----------------------------------------------------------------------------
(* Switching: the effects on conversationId.                               *)

\* Stays attached to what was sent before.
SwitchesAttached(to) == UNCHANGED <<mutation, current>>
SwitchDetaches(to) ==
  /\ mutation' = IF ~IsPending THEN mutation
                 ELSE [mutation EXCEPT ![current].closure =
                        [shown |-> to, regenerating |-> panel.regenerating]]
  /\ current' = NoSend

ShowTalk(to) ==
  /\ shown' = to /\ panel' = EmptyPanel /\ overrun' = FALSE
  /\ fetched' = {}

Select(to) ==
  /\ to # shown /\ to \in TalksThere \cup {NewTalk}
  /\ SwitchDetaches(to) /\ ShowTalk(to) /\ UNCHANGED talk

\* The query of the conversation shown: when it is shown, invalidated or focused.
Refetch ==
  /\ shown # NewTalk /\ fetched # talk[shown] /\ fetched' = talk[shown]
  /\ UNCHANGED <<shown, mutation, current, panel, talk, overrun>>

-----------------------------------------------------------------------------
(* The server, and the callbacks.                                          *)

\* The answer is saved in the conversation, or in a new one.
ServerAnswers(s) ==
  /\ mutation[s].pc = "pending"
  /\ \E t \in Talks :
       /\ IF mutation[s].talk = NewTalk THEN talk[t] = {} ELSE t = mutation[s].talk
       /\ talk' = [talk EXCEPT ![t] = @ \cup {s}]
       /\ mutation' = [mutation EXCEPT ![s].pc = "answered", ![s].talk = t]
  /\ UNCHANGED <<shown, current, panel, fetched, overrun>>

Overruns(s) == overrun' = (overrun \/ (~Attached(s) /\ IsPending))

\* onSuccess; an answer to what was asked without a conversation goes on to show it.
Succeeds(s) ==
  /\ mutation[s].pc = "answered"
  /\ IF Closure(s).shown = NewTalk /\ mutation[s].talk # shown
     THEN /\ ShowTalk(mutation[s].talk) /\ current' = NoSend
          /\ mutation' = [q \in Sends |->
               IF q = s THEN [mutation[s] EXCEPT !.pc = "ok"]
               ELSE IF q = current /\ Pending(q)
               THEN [mutation[q] EXCEPT !.closure = [shown |-> mutation[s].talk,
                                                     regenerating |-> NoMessage]]
               ELSE mutation[q]]
     ELSE /\ panel' = [panel EXCEPT !.pending = NoSend, !.regenerating = NoMessage]
          /\ mutation' = [mutation EXCEPT ![s].pc = "ok"]
          /\ Overruns(s) /\ UNCHANGED <<shown, current, fetched>>
  /\ UNCHANGED talk

\* Leaves the old answer hidden.
KeepsHidden(s) == panel.hidden
Unhidden(s) == panel.hidden \ {Closure(s).regenerating}

\* onError, for an error of the server or of the way back.
Fails(s) ==
  /\ Pending(s) /\ mutation' = [mutation EXCEPT ![s].pc = "failed"]
  /\ panel' = [pending |-> NoSend, hidden |-> Unhidden(s),
               regenerating |-> IF Closure(s).regenerating = NoMessage THEN panel.regenerating
                                ELSE NoMessage]
  /\ Overruns(s)
  /\ UNCHANGED <<shown, current, talk, fetched>>

ChatInit ==
  /\ shown = NewTalk /\ current = NoSend /\ panel = EmptyPanel
  /\ mutation = [s \in Sends |-> NotSent]
  /\ talk \in [Talks -> SUBSET OldAnswers]
  /\ \A t, u \in Talks : t # u => talk[t] \cap talk[u] = {}
  /\ fetched = {} /\ overrun = FALSE

ChatNext ==
  \/ \E s \in Sends :
       \/ HandleSend(s) \/ ServerAnswers(s) \/ Succeeds(s) \/ Fails(s)
       \/ \E m \in Messages : HandleRegenerate(s, m)
  \/ \E to \in Talks \cup {NewTalk} : Select(to)
  \/ Refetch

ChatSpec == ChatInit /\ [][ChatNext]_chatVars

-----------------------------------------------------------------------------
(* Properties.                                                             *)

\* Types of the variables.
ChatTypeOK ==
  /\ shown \in Talks \cup {NewTalk} /\ current \in Sends \cup {NoSend}
  /\ mutation \in [Sends ->
       [pc : {"idle", "pending", "answered", "ok", "failed"}, talk : Talks \cup {NewTalk},
        regenerates : Messages \cup {NoMessage},
        closure : [shown : Talks \cup {NewTalk}, regenerating : Messages \cup {NoMessage}]]]
  /\ panel \in [pending : Sends \cup {NoSend}, regenerating : Messages \cup {NoMessage},
                hidden : SUBSET Messages]
  /\ talk \in [Talks -> SUBSET Messages] /\ fetched \subseteq Messages /\ overrun \in BOOLEAN

\* The answer shown before the server's list has it is one of the conversation shown,
\* although answers arrive after the user has gone elsewhere (ChatPanel.tsx:149-155).
EarlyAnswerBelongs ==
  current # NoSend /\ mutation[current].pc = "ok" => mutation[current].talk = shown

\* An answer that the panel hides is being regenerated or has its new version in the same
\* conversation, unless the callback of a question asked elsewhere has come in between:
\* a regeneration that fails brings the old answer back (ChatPanel.tsx:139-145).
HiddenIsReplaced ==
  overrun \/ \A m \in panel.hidden :
    \/ IsPending /\ mutation[current].regenerates = m /\ panel.regenerating = m
    \/ \E s \in Sends : /\ mutation[s].pc = "ok" /\ mutation[s].regenerates = m
                        /\ s \in talk[shown]
=============================================================================
