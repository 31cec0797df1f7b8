----------------------------- MODULE AssistantChat -----------------------------
(***************************************************************************)
(* The assistant's conversations (assistant-experience.tsx) and their      *)
(* storage (handlers/ai/chat.go).                                          *)
(*                                                                         *)
(* Sending a message is one asynchronous handler of several requests.      *)
(* While it runs the composer, the list of conversations and the scope of  *)
(* the page stay usable, and every other handler has requests of its own.  *)
(* A message is a number: the order in which the user typed it.            *)
(***************************************************************************)
EXTENDS BrowserTab, Naturals, FiniteSets

CONSTANTS
    Conversations,      \* identifiers, taken in any order
    ChatScopes, FirstChatScope,
    NoConversation,
    MaxMessages, MaxOpens, MaxScopeChanges, MaxFailures

Message == 1 .. MaxMessages
NoMessage == 0

(* handleSend between two of its requests *)
Sendings == [message : Message, target : Conversations \cup {NoConversation},
             scope : ChatScopes, step : {"create", "show created", "send", "show answer"}]

ASSUME ChatConstants ==
    /\ FirstChatScope \in ChatScopes
    /\ NoConversation \notin Conversations /\ NoRequest \notin Sendings
    /\ MaxMessages \in Nat

VARIABLES
    stored,         \* server: conversation -> its scope and messages; a function on the
                    \* conversations that exist
    deleted,        \* server: conversations that are gone
    chatScope,      \* scopeType, scopeRef
    conversation,   \* identifier of the conversation state
    composer,       \* message state
    typed,          \* messages typed so far
    sending,        \* handleSend under way
    opening,        \* requests of handleOpenConversation
    loading,        \* scopes for which loadAssistant is under way
    removing,       \* handleDeleteConversation under way: the conversation and the
                    \* one that was shown at the click
    given,          \* messages the user handed over and did not drop
    homes,          \* message -> the conversations it was sent to: shown at a send, or
                    \* created for it
    opens, chatScopeChanges, failures

shownVars  == <<chatScope, conversation>>
writeVars  == <<composer, typed, sending, given, homes>>
otherVars  == <<opening, loading, removing>>
chatBudget == <<opens, chatScopeChanges, failures>>
chatVars   == <<route, stored, deleted, shownVars, writeVars, otherVars, chatBudget>>

ChatInit ==
    /\ stored = <<>> /\ deleted = {}
    /\ chatScope = FirstChatScope /\ conversation = NoConversation
    /\ composer = NoMessage /\ typed = 0
    /\ sending = NoRequest
    /\ opening = {} /\ loading = {FirstChatScope} /\ removing = {}
    /\ given = {} /\ homes = [m \in Message |-> {}]
    /\ opens = 0 /\ chatScopeChanges = 0 /\ failures = 0

Exists(c) == c \in DOMAIN stored
InScope(scope) == {c \in DOMAIN stored : stored[c].scope = scope}

(* The first of a list: updated_at is left open. *)
FirstOf(list) == IF list = {} THEN {NoConversation} ELSE list

-----------------------------------------------------------------------------
(* The composer *)

(* Typing replaces the draft; a suggestion does so as well. *)
Compose ==
    /\ typed < MaxMessages
    /\ typed' = typed + 1 /\ composer' = typed'
    /\ given' = given \ {composer}
    /\ UNCHANGED <<stored, deleted, shownVars, sending, homes, otherVars, chatBudget>>

(* handleSend up to its first request: the conversation of this render, or *)
(* a new one.                                                              *)
HandleSend ==
    /\ sending = NoRequest /\ composer # NoMessage
    /\ sending' = [message |-> composer, target |-> conversation, scope |-> chatScope,
                   step |-> IF conversation = NoConversation THEN "create" ELSE "send"]
    /\ given' = given \cup {composer}
    /\ homes' = [homes EXCEPT ![composer] = @ \cup ({conversation} \ {NoConversation})]
    /\ composer' = NoMessage
    /\ UNCHANGED <<stored, deleted, shownVars, typed, otherVars, chatBudget>>

(* ensureConversation. *)
CreateConversation(c) ==
    /\ sending # NoRequest /\ sending.step = "create"
    /\ ~Exists(c) /\ c \notin deleted
    /\ stored' = [d \in DOMAIN stored \cup {c} |->
                    IF d = c THEN [scope |-> sending.scope, messages |-> {}] ELSE stored[d]]
    /\ sending' = [sending EXCEPT !.target = c, !.step = "show created"]
    /\ homes' = [homes EXCEPT ![sending.message] = @ \cup {c}]
    /\ UNCHANGED <<deleted, shownVars, composer, typed, given, otherVars, chatBudget>>

(* refreshConversations(selectedID): the answer for the conversation that  *)
(* was written, not for the one on the screen.                             *)
ShowTarget ==
    /\ sending # NoRequest /\ sending.step \in {"show created", "show answer"}
    /\ Exists(sending.target)
    /\ conversation' = sending.target
    /\ sending' = IF sending.step = "show created" THEN [sending EXCEPT !.step = "send"]
                  ELSE NoRequest
    /\ UNCHANGED <<stored, deleted, chatScope, composer, typed, given, homes, otherVars,
                   chatBudget>>

StoreIn(c) ==
    /\ Exists(c)
    /\ stored' = [stored EXCEPT ![c].messages = @ \cup {sending.message}]

(* Mutant: the conversation on the screen when the request is sent. *)
SendMessageToShown ==
    /\ sending # NoRequest /\ sending.step = "send"
    /\ StoreIn(IF conversation = NoConversation THEN sending.target ELSE conversation)
    /\ sending' = [sending EXCEPT !.step = "show answer"]
    /\ UNCHANGED <<deleted, shownVars, composer, typed, given, homes, otherVars, chatBudget>>

(* The provider answers; both messages are stored in one transaction.      *)
SendMessage ==
    /\ sending # NoRequest /\ sending.step = "send"
    /\ StoreIn(sending.target)
    /\ sending' = [sending EXCEPT !.step = "show answer"]
    /\ UNCHANGED <<deleted, shownVars, composer, typed, given, homes, otherVars, chatBudget>>

Failing ==
    \/ failures < MaxFailures /\ failures' = failures + 1
    \/ /\ sending.step # "create" /\ ~Exists(sending.target)
       /\ UNCHANGED failures

(* Mutant: the message is not put back. *)
SendFailsSilently ==
    /\ sending # NoRequest
    /\ Failing
    /\ sending' = NoRequest
    /\ UNCHANGED <<stored, deleted, shownVars, composer, typed, given, homes, otherVars, opens,
                   chatScopeChanges>>

(* Any of the requests fails: the message is put back, over what the user  *)
(* has typed since.  It may be stored nevertheless.                        *)
SendFails ==
    /\ sending # NoRequest
    /\ Failing
    /\ composer' = sending.message
    /\ given' = given \ {composer}
    /\ sending' = NoRequest
    /\ UNCHANGED <<stored, deleted, shownVars, typed, homes, otherVars, opens,
                   chatScopeChanges>>

-----------------------------------------------------------------------------
(* The list of conversations and the scope of the page *)

StartNewConversation ==
    /\ conversation # NoConversation \/ composer # NoMessage
    /\ conversation' = NoConversation /\ composer' = NoMessage
    /\ given' = given \ {composer}
    /\ UNCHANGED <<stored, deleted, chatScope, typed, sending, homes, otherVars, chatBudget>>

HandleOpenConversation(c) ==
    /\ Exists(c) /\ opens < MaxOpens
    /\ opening' = opening \cup {c} /\ opens' = opens + 1
    /\ UNCHANGED <<stored, deleted, shownVars, writeVars, loading, removing, chatScopeChanges,
                   failures>>

(* Answers come in any order; that of a deleted conversation is an error.  *)
ConversationOpened(c) ==
    /\ opening' = opening \ {c}
    /\ conversation' = IF Exists(c) THEN c ELSE conversation
    /\ UNCHANGED <<stored, deleted, chatScope, writeVars, loading, removing, chatBudget>>

HandleDeleteConversation(c) ==
    /\ Exists(c) /\ removing = {} /\ opens < MaxOpens
    /\ stored' = [d \in DOMAIN stored \ {c} |-> stored[d]]
    /\ deleted' = deleted \cup {c}
    /\ given' = given \ stored[c].messages
    /\ removing' = {[gone |-> c, shown |-> conversation, scope |-> chatScope]}
    /\ opens' = opens + 1
    /\ UNCHANGED <<shownVars, composer, typed, sending, homes, opening, loading, chatScopeChanges,
                   failures>>

(* refreshConversations of the render of the click. *)
DeletionShown(r) ==
    /\ removing' = removing \ {r}
    /\ IF r.shown \notin {r.gone, NoConversation}
       THEN conversation' = IF Exists(r.shown) THEN r.shown ELSE conversation
       ELSE conversation' \in FirstOf(InScope(r.scope))
    /\ UNCHANGED <<stored, deleted, chatScope, writeVars, opening, loading, chatBudget>>

(* loadAssistant; nothing cancels the load of an earlier scope. *)
ChangeChatScope(scope) ==
    /\ scope # chatScope /\ chatScopeChanges < MaxScopeChanges
    /\ chatScope' = scope
    /\ loading' = loading \cup {scope}
    /\ chatScopeChanges' = chatScopeChanges + 1
    /\ UNCHANGED <<stored, deleted, conversation, writeVars, opening, removing, opens,
                   failures>>

AssistantLoaded(scope) ==
    /\ loading' = loading \ {scope}
    /\ \/ conversation' \in FirstOf(InScope(scope)) /\ UNCHANGED failures
       \/ /\ failures < MaxFailures /\ failures' = failures + 1
          /\ UNCHANGED conversation
    /\ UNCHANGED <<stored, deleted, chatScope, writeVars, opening, removing, opens,
                   chatScopeChanges>>

-----------------------------------------------------------------------------
ChatNext ==
    /\ On("assistant")
    /\ \/ Compose \/ HandleSend
       \/ \E c \in Conversations : CreateConversation(c)
       \/ ShowTarget \/ SendMessage \/ SendFails
       \/ StartNewConversation
       \/ \E c \in Conversations : HandleOpenConversation(c) \/ HandleDeleteConversation(c)
       \/ \E c \in opening : ConversationOpened(c)
       \/ \E r \in removing : DeletionShown(r)
       \/ \E scope \in ChatScopes : ChangeChatScope(scope)
       \/ \E scope \in loading : AssistantLoaded(scope)

ChatSpec == route = "assistant" /\ ChatInit /\ [][ChatNext]_chatVars

-----------------------------------------------------------------------------
(* Properties *)

ChatTypeOK ==
    /\ DOMAIN stored \subseteq Conversations \ deleted /\ deleted \subseteq Conversations
    /\ \A c \in DOMAIN stored : /\ stored[c].scope \in ChatScopes
                                /\ stored[c].messages \subseteq 1 .. typed
    /\ conversation \in Conversations \cup {NoConversation}
    /\ composer \in 0 .. typed
    /\ sending # NoRequest =>
         /\ sending \in Sendings
         /\ sending.message \in 1 .. typed /\ sending.message # composer
         /\ sending.target = NoConversation <=> sending.step = "create"
    /\ loading \subseteq ChatScopes /\ opening \subseteq Conversations

Stored == UNION {stored[c].messages : c \in DOMAIN stored}

(* A message the user has sent is stored, on its way, or back in the       *)
(* composer, whatever fails and whatever else the user opens, deletes or   *)
(* starts in the meantime.                                                 *)
SentIsKept ==
    \A m \in given : m \in Stored \/ m = composer \/ (sending # NoRequest /\ sending.message = m)

(* A message goes to the conversation that was on the screen when it was   *)
(* sent, or to one that was created for it, although another conversation  *)
(* may be opened while the first requests run.                             *)
StoredWhereShown ==
    \A c \in DOMAIN stored : \A m \in stored[c].messages : c \in homes[m]

(* No message is lost and none turns up where it does not belong.          *)
MessagesAreKept == SentIsKept /\ StoredWhereShown
=============================================================================
