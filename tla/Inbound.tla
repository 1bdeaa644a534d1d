------------------------------ MODULE Inbound ------------------------------
(***************************************************************************)
(* Messages on their way in and replies on their way out                    *)
(* (services/inbound-debounce.ts and interfaces/dispatcher.ts).  Texts that *)
(* follow each other in a chat are merged into the first message of their   *)
(* window; when the window's timer runs out, the call of the last message   *)
(* goes on with it: authorisation, transcription, the gateway, and the      *)
(* reply, cut into chunks that are enqueued with pauses in between.  The    *)
(* calls of the other messages wait for ever.                               *)
(***************************************************************************)
EXTENDS BlockChunker, FiniteSets

CONSTANTS Kinds,         \* messages there may be: [chat, sender, text, voice], or a proactive one
          Allowed,       \* senders in allowFrom or approved
          Texts,         \* replies of the gateway
          MaxMessages    \* bound: messages

VARIABLES debounced,     \* the configuration: enabled, and debounceMs > 0
          messages,      \* in the order in which they reach the debounce service
          window,        \* #pending: by chat, the open window or none
          call,          \* the #handleDebounced call of each message
          outbox,        \* queue.enqueue: what is to be sent, in order
          stopped,
          heard          \* history: the messages whose text entered a gateway call, in order
vars == <<debounced, messages, window, call, outbox, stopped, heard>>

Chats == {k.chat : k \in Kinds}
Numbers == 1..MaxMessages
\* base: the message whose window it is; texts: what the call goes on with; left: chunks to enqueue.
NoCall == [at |-> "none", base |-> 0, texts |-> <<>>, text |-> <<>>, left |-> <<>>]

Init == /\ debounced \in BOOLEAN
        /\ messages = <<>> /\ outbox = <<>> /\ heard = <<>>
        /\ window = [c \in Chats |-> <<>>]
        /\ call = [m \in Numbers |-> NoCall]
        /\ stopped = FALSE

Out(chat, m, items) == [chat |-> chat, call |-> m, items |-> items]
Chat(m) == messages[m].chat

(***************************************************************************)
(* Replying.                                                                *)
(***************************************************************************)

DispatchedUnchecked(c, m, text, chat) ==
    /\ outbox' = Append(outbox, Out(chat, m, Head(Chunks(text)).items))
    /\ call' = [c EXCEPT ![m].at = "chunks", ![m].text = text, ![m].left = Tail(Chunks(text))]
\* The first chunk is enqueued at once; a text of one chunk goes as it is.
Dispatched(c, m, text, chat) ==
    LET chunks == Chunks(text)
    IN IF Len(chunks) <= 1
       THEN /\ outbox' = Append(outbox, Out(chat, m, Sentences(text)))
            /\ call' = [c EXCEPT ![m].at = "replied", ![m].text = text]
       ELSE /\ outbox' = Append(outbox, Out(chat, m, chunks[1].items))
            /\ call' = [c EXCEPT ![m].at = "chunks", ![m].text = text, ![m].left = Tail(chunks)]

\* The pause is over: the next chunk.
NextChunk(m) ==
    /\ call[m].at = "chunks"
    /\ outbox' = Append(outbox, Out(Chat(m), m, Head(call[m].left).items))
    /\ call' = [call EXCEPT ![m].left = Tail(@), ![m].at = IF Len(call[m].left) = 1 THEN "replied" ELSE "chunks"]
    /\ UNCHANGED <<debounced, messages, window, stopped, heard>>

(***************************************************************************)
(* Handling the message of a window.  An unknown sender gets a challenge,   *)
(* or nothing.                                                              *)
(***************************************************************************)

HeardOf(texts) == heard' = heard \o texts

\* Call m goes on with the message `base` of a window and its merged texts.
Handled(c, all, m, base, texts) ==
    LET d == [c EXCEPT ![m].base = base, ![m].texts = texts]
    IN \/ /\ all[base].sender \notin Allowed
          /\ call' = [d EXCEPT ![m].at = "refused"]
          /\ outbox' \in {outbox, Append(outbox, Out(all[base].chat, m, <<"challenge">>))}
          /\ UNCHANGED heard
       \/ /\ all[base].sender \in Allowed /\ all[base].voice
          /\ call' = [d EXCEPT ![m].at = "transcribe"]
          /\ UNCHANGED <<outbox, heard>>
       \/ /\ all[base].sender \in Allowed /\ ~all[base].voice
          /\ call' = [d EXCEPT ![m].at = "gateway"]
          /\ HeardOf(texts)
          /\ UNCHANGED outbox

TextOf(all, m) == IF all[m].text THEN <<m>> ELSE <<>>

\* The text of a later message is added to the open window, and its call takes the window over.
JoinsDropping(w, all, m) == <<[w EXCEPT !.texts = IF @ = <<>> THEN TextOf(all, m) ELSE @, !.owner = m]>>
Joins(w, all, m) == <<[w EXCEPT !.texts = @ \o TextOf(all, m), !.owner = m]>>

Arrive(k) ==
    LET m == Len(messages) + 1
        all == Append(messages, k)
    IN /\ m <= MaxMessages
       /\ messages' = all
       /\ \/ /\ debounced /\ window[k.chat] # <<>>
             /\ window' = [window EXCEPT ![k.chat] = Joins(@[1], all, m)]
             /\ call' = [call EXCEPT ![m].at = "waiting", ![m].base = window[k.chat][1].base]
             /\ UNCHANGED <<outbox, heard>>
          \/ /\ debounced /\ window[k.chat] = <<>>
             /\ window' = [window EXCEPT ![k.chat] = <<[base |-> m, texts |-> TextOf(all, m), owner |-> m]>>]
             /\ call' = [call EXCEPT ![m].at = "waiting", ![m].base = m]
             /\ UNCHANGED <<outbox, heard>>
          \/ /\ ~debounced
             /\ Handled(call, all, m, m, TextOf(all, m))
             /\ UNCHANGED window
       /\ UNCHANGED <<debounced, stopped>>

\* The timer of a window.
Flush(c) == /\ window[c] # <<>>
            /\ Handled(call, messages, window[c][1].owner, window[c][1].base, window[c][1].texts)
            /\ window' = [window EXCEPT ![c] = <<>>]
            /\ UNCHANGED <<debounced, messages, stopped>>

\* The transcription replaces whatever text there was; when it fails the message is dropped.
Transcribe(m) == /\ call[m].at = "transcribe"
                 /\ call' = [call EXCEPT ![m].at = "gateway", ![m].texts = <<call[m].base>>]
                 /\ HeardOf(<<call[m].base>>)
                 /\ UNCHANGED <<debounced, messages, window, outbox, stopped>>

Reply(m, text) == /\ call[m].at = "gateway"
                  /\ Dispatched(call, m, text, Chat(m))
                  /\ UNCHANGED <<debounced, messages, window, stopped, heard>>

Fail(m) == /\ call[m].at \in {"transcribe", "gateway"}
           /\ call' = [call EXCEPT ![m].at = "failed"]
           /\ UNCHANGED <<debounced, messages, window, outbox, stopped, heard>>

\* A message of the program's own, cut and sent the same way.
SendProactive(chat, text) ==
    LET m == Len(messages) + 1
    IN /\ m <= MaxMessages
       /\ messages' = Append(messages, [chat |-> chat, sender |-> "none", text |-> FALSE, voice |-> FALSE])
       /\ Dispatched(call, m, text, chat)
       /\ UNCHANGED <<debounced, window, stopped, heard>>

\* A signal: the open windows are dropped, nobody is told, and the process exits.
Shutdown == /\ stopped' = TRUE
            /\ window' = [c \in Chats |-> <<>>]
            /\ UNCHANGED <<debounced, messages, call, outbox, heard>>

Next == /\ ~stopped
        /\ \/ \E k \in Kinds : Arrive(k)
           \/ \E c \in Chats : Flush(c) \/ \E text \in Texts : SendProactive(c, text)
           \/ \E m \in Numbers : \/ Transcribe(m) \/ Fail(m) \/ NextChunk(m)
                                 \/ \E text \in Texts : Reply(m, text)
           \/ Shutdown

\* Timers run out.
Fairness == \A c \in Chats : WF_vars(Flush(c))
Spec == Init /\ [][Next]_vars /\ Fairness

(***************************************************************************)
(* Properties.                                                              *)
(***************************************************************************)

TypeOK == /\ \A c \in Chats : window[c] # <<>> =>
                /\ window[c][1].owner \in DOMAIN messages /\ call[window[c][1].owner].at = "waiting"
                /\ Range(window[c][1].texts) \subseteq window[c][1].base..window[c][1].owner
          /\ \A m \in DOMAIN messages : call[m].at # "none" /\ ((call[m].left # <<>>) <=> (call[m].at = "chunks"))
          /\ Range(heard) \subseteq DOMAIN messages

\* However replies and pauses interleave, a chat gets every sentence of every reply once and in
\* order; no text is handed to the gateway twice; and what it hears came in a window that
\* an allowed sender opened (the other senders of the window are not looked at).
ItemsSent(m) == Flat([i \in DOMAIN outbox |-> IF outbox[i].call = m THEN outbox[i].items ELSE <<>>])
RepliesWhole ==
    /\ \A m \in DOMAIN messages : call[m].at = "replied" =>
          /\ ItemsSent(m) = Sentences(call[m].text)
          /\ \A o \in Range(outbox) : o.call = m => o.chat = Chat(m)
    /\ \A i, j \in DOMAIN heard : heard[i] = heard[j] => i = j
    /\ \A m \in Range(heard) : messages[call[m].base].sender \in Allowed

\* A text reaches the gateway when an allowed sender opened its window with a text - also when
\* its own call waits for ever - unless the program shuts down.
EveryTextIsHeard ==
    \A m \in Numbers : /\ m \in DOMAIN messages /\ messages[m].text
                       /\ call[m].base \in DOMAIN messages
                       /\ messages[call[m].base].sender \in Allowed /\ ~messages[call[m].base].voice
                       ~> m \in Range(heard) \/ stopped
=============================================================================
