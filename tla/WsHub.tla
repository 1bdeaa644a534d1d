------------------------------- MODULE WsHub -------------------------------
(***************************************************************************)
(* The control plane's event stream (api/websocket-hub.ts and               *)
(* api/runtime-event-producer.ts).  A client authenticates within a time,   *)
(* subscribes to topics, gets a snapshot and then every event, unless its   *)
(* buffer is full; one that does not answer a ping is evicted at the next.  *)
(* A socket that is being closed still delivers what its peer sends.        *)
(***************************************************************************)
EXTENDS Naturals, Sequences

CONSTANTS Clients, Topics,
          Produced,     \* the topics the producer has something to say about
          MaxSeq        \* bound: events published

VARIABLES client,       \* the sockets, and #clients: registered, authenticated, subscriptions, isAlive, authTimer
          seq,
          inbox,        \* what each socket's peer was sent, in order
          stopped,
          mute, dropped \* history: clients that stopped answering, and those that missed something
vars == <<client, seq, inbox, stopped, mute, dropped>>

Fresh == [socket |-> "none", registered |-> FALSE, authenticated |-> FALSE, subs |-> {}, alive |-> TRUE,
          timer |-> FALSE, pinged |-> FALSE, full |-> FALSE]

Init == /\ client = [c \in Clients |-> Fresh]
        /\ seq = 0 /\ inbox = [c \in Clients |-> <<>>] /\ stopped = FALSE
        /\ mute = {} /\ dropped = {}

Message(type, topic, n) == [type |-> type, topic |-> topic, seq |-> n]
\* sendRaw: nothing goes to a socket that is not open, and what finds the buffer full is dropped.
Sends(c) == client[c].socket = "open" /\ ~client[c].full
Sent(c, ms) == IF Sends(c) THEN inbox' = [inbox EXCEPT ![c] = @ \o ms] /\ UNCHANGED dropped
               ELSE UNCHANGED inbox /\ dropped' = IF client[c].socket = "open" THEN dropped \cup {c} ELSE dropped
\* closeClient: its timer is cleared and it leaves the registry at once.
Closed(e) == [e EXCEPT !.socket = IF @ = "open" THEN "closing" ELSE @, !.registered = FALSE, !.timer = FALSE]
Receives(c) == client[c].socket \in {"open", "closing"}

Connect(c) == /\ client[c].socket = "none" /\ ~stopped
              /\ client' = [client EXCEPT ![c] = [Fresh EXCEPT !.socket = "open", !.registered = TRUE, !.timer = TRUE]]
              /\ UNCHANGED <<seq, inbox, stopped, mute, dropped>>

AuthTimeout(c) == /\ client[c].timer
                  /\ client' = [client EXCEPT ![c] = IF @.authenticated THEN [@ EXCEPT !.timer = FALSE] ELSE Closed(@)]
                  /\ UNCHANGED <<seq, inbox, stopped, mute, dropped>>

Auth(c) == /\ Receives(c) /\ ~client[c].authenticated
           /\ client' = [client EXCEPT ![c].authenticated = TRUE, ![c].timer = FALSE]
           /\ Sent(c, <<Message("auth_ok", "none", 0)>>)
           /\ UNCHANGED <<seq, stopped, mute>>

AuthFails(c) == /\ Receives(c)
                /\ client' = [client EXCEPT ![c] = Closed(@)]
                /\ Sent(c, <<Message("error", "none", 0)>>)
                /\ UNCHANGED <<seq, stopped, mute>>

\* subscribed, and the snapshot if the client is registered and the topic has one.  A client that is
\* not authenticated, or a topic that is not one, gets an error.
SubscribeFirst(c, t) == {t}
Snapshot(c, t) == IF client[c].registered /\ t \in Produced THEN <<Message("snapshot", t, seq)>> ELSE <<>>
Subscribe(c, t) == /\ Receives(c) /\ client[c].authenticated /\ t \notin client[c].subs
                   /\ client' = [client EXCEPT ![c].subs = @ \cup {t}]
                   /\ Sent(c, <<Message("subscribed", t, 0)>> \o Snapshot(c, t))
                   /\ UNCHANGED <<seq, stopped, mute>>

\* publish: to those of the registry.
HearsEarly(c, t) == client[c].registered /\ client[c].authenticated
Hears(c, t) == client[c].registered /\ client[c].authenticated /\ t \in client[c].subs
Publish(t) ==
    LET to == {c \in Clients : Hears(c, t) /\ client[c].socket = "open"}
    IN /\ seq < MaxSeq /\ ~stopped
       /\ seq' = seq + 1
       /\ inbox' = [c \in Clients |-> IF c \in to /\ Sends(c) THEN Append(inbox[c], Message("event", t, seq + 1)) ELSE inbox[c]]
       /\ dropped' = dropped \cup {c \in to : client[c].full}
       /\ UNCHANGED <<client, stopped, mute>>

\* Only registered clients are looked at.
BeatAgain(e) == IF ~e.registered THEN e ELSE [e EXCEPT !.alive = FALSE, !.pinged = e.socket = "open"]
Beat(e) == IF ~e.registered THEN e
           ELSE IF ~e.alive THEN Closed(e) ELSE [e EXCEPT !.alive = FALSE, !.pinged = e.socket = "open"]
RunHeartbeat == /\ ~stopped /\ \E c \in Clients : client[c].registered
                /\ client' = [c \in Clients |-> Beat(client[c])]
                /\ UNCHANGED <<seq, inbox, stopped, mute, dropped>>

Pong(c) == /\ Receives(c) /\ client[c].pinged /\ c \notin mute
           /\ client' = [client EXCEPT ![c].alive = TRUE, ![c].pinged = FALSE]
           /\ UNCHANGED <<seq, inbox, stopped, mute, dropped>>

\* The peer closes the socket and sends nothing more; when it is closed, or has an error: cleanupClient.
PeerCloses(c) == /\ client[c].socket = "open"
                 /\ client' = [client EXCEPT ![c].socket = "leaving"]
                 /\ UNCHANGED <<seq, inbox, stopped, mute, dropped>>
CloseEvent(c) == /\ Receives(c) \/ client[c].socket = "leaving"
                 /\ client' = [client EXCEPT ![c] = [Closed(@) EXCEPT !.socket = "gone"]]
                 /\ UNCHANGED <<seq, inbox, stopped, mute, dropped>>

\* A peer that reads slowly or again, or answers no more.
Buffer(c) == /\ client[c].socket = "open"
             /\ client' = [client EXCEPT ![c].full = ~@]
             /\ UNCHANGED <<seq, inbox, stopped, mute, dropped>>
FallSilent(c) == /\ Receives(c) /\ c \notin mute
                 /\ mute' = mute \cup {c}
                 /\ UNCHANGED <<client, seq, inbox, stopped, dropped>>

Stop == /\ ~stopped /\ stopped' = TRUE
        /\ client' = [c \in Clients |-> IF client[c].registered THEN Closed(client[c]) ELSE client[c]]
        /\ UNCHANGED <<seq, inbox, mute, dropped>>

Next == \/ \E c \in Clients : \/ Connect(c) \/ AuthTimeout(c) \/ Auth(c) \/ AuthFails(c)
                              \/ \E t \in Topics : Subscribe(c, t)
                              \/ Pong(c) \/ PeerCloses(c) \/ CloseEvent(c) \/ Buffer(c) \/ FallSilent(c)
        \/ \E t \in Produced : Publish(t)
        \/ RunHeartbeat \/ Stop

\* The interval and the timers run.
Fairness == WF_vars(RunHeartbeat) /\ \A c \in Clients : WF_vars(AuthTimeout(c))
Spec == Init /\ [][Next]_vars /\ Fairness

(***************************************************************************)
(* Properties.                                                              *)
(***************************************************************************)

TypeOK == /\ \A c \in Clients : client[c].socket \in {"none", "open", "closing", "leaving", "gone"} /\ client[c].subs \subseteq Topics
          /\ seq \in 0..MaxSeq

\* An event reaches only a client that was told it is authenticated and subscribed, with ever higher
\* numbers, and after the topic's snapshot - unless the client's buffer was full at some time.
\* Who left the registry is being closed, and only who has not authenticated may be timed out.
Before(c, i, type, t) == \E k \in 1..i - 1 : inbox[c][k].type = type /\ inbox[c][k].topic = t
Events(c) == {i \in DOMAIN inbox[c] : inbox[c][i].type = "event"}
HubSafe ==
    \A c \in Clients :
        /\ \A i \in Events(c) : /\ \A k \in Events(c) : k < i => inbox[c][k].seq < inbox[c][i].seq
                                /\ c \notin dropped => /\ Before(c, i, "auth_ok", "none")
                                                       /\ Before(c, i, "subscribed", inbox[c][i].topic)
                                                       /\ Before(c, i, "snapshot", inbox[c][i].topic)
                                /\ inbox[c][i].topic \in client[c].subs
        /\ client[c].registered => client[c].socket # "gone"
        /\ client[c].socket = "open" => client[c].registered
        /\ client[c].timer => client[c].registered /\ ~client[c].authenticated

\* A client that answers no more is evicted, and so is one that does not authenticate.
SilentEvicted == \A c \in Clients :
    /\ client[c].registered /\ c \in mute ~> ~client[c].registered
    /\ client[c].timer ~> ~client[c].timer
=============================================================================
