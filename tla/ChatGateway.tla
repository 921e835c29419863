---------------------------- MODULE ChatGateway ----------------------------
(***************************************************************************)
(* The chat gateway: messages are stored in Postgres, published on one     *)
(* Redis channel, and pushed by each instance's subscriber to the sockets  *)
(* that this instance holds.                                               *)
(*                                                                         *)
(* A message is what a client calls one: a sender and a client_msg_id,     *)
(* with the conversation it is for.  A retry reuses the client_msg_id, so  *)
(* it is another request for the same message.  Bodies, ids and timestamps *)
(* are left out.                                                           *)
(***************************************************************************)
EXTENDS FiniteSets, Sequences

CONSTANTS
    Instances,      \* the gateway processes
    Users,
    Sockets,        \* the connections that are opened, each once
    Owner,          \* the user of each socket
    Messages,       \* (sender, client_msg_id) pairs
    Sender,         \* the sender of each message
    Conversations,
    Conversation,   \* the conversation of each message
    Participants,   \* the users in each conversation
    Requests,       \* the requests to send or to show typing, each made once
    At,             \* the instance on which each socket is opened
    On,             \* the instance that each request comes to
    NoSocket

ASSUME ChatAssumption ==
    /\ Owner \in [Sockets -> Users]
    /\ Sender \in [Messages -> Users]
    /\ Conversation \in [Messages -> Conversations]
    /\ Participants \in [Conversations -> SUBSET Users]
    /\ At \in [Sockets -> Instances]
    /\ On \in [Requests -> Instances]
    /\ NoSocket \notin Sockets

VARIABLES
    msg_messages,   \* the stored messages
    request,        \* where each request has come to
    envelope,       \* what it is to publish
    bus,            \* what Redis has delivered to each instance's subscription
    delivering,     \* the envelope in the subscriber's hands, with who is left
    subscriber,     \* is the instance's _subscriber task alive?
    conns,          \* each instance's user -> socket table
    socket,         \* the state of each connection
    newest,         \* the last socket a user opened there (history: nothing reads it)
    known,          \* the messages its client has seen on it or in the history
    caught_up,      \* has its client read the history since it was opened?
    published       \* the messages that have been published (history: nothing reads it)

chatVars == <<msg_messages, request, envelope, bus, delivering, subscriber, conns, socket,
              newest, known, caught_up, published>>

requests == <<request, envelope>>
sockets == <<conns, socket, newest, known, caught_up>>
delivery == <<bus, delivering, subscriber>>

-----------------------------------------------------------------------------
(* Types *)

\* Mutated Recipients: without user_id != sender_id.
RecipientsWithSender(c, u) == Participants[c]

\* SELECT user_id FROM msg_participants WHERE conversation_id = c AND user_id != u
Recipients(c, u) == Participants[c] \ {u}

Stages == {"new", "stored", "done"}
SocketStates == {"new", "open", "gone", "closed"}

MessageEnvelope(m) ==
    [kind |-> "message", message |-> m, recipients |-> Recipients(Conversation[m], Sender[m])]

TypingEnvelope(c, u) == [kind |-> "typing", recipients |-> Recipients(c, u)]

Idle == [kind |-> "none", recipients |-> {}]

IsEnvelope(e) ==
    /\ e.recipients \subseteq Users
    /\ \/ e.kind \in {"none", "typing"}
       \/ e.kind = "message" /\ e.message \in Messages /\ Sender[e.message] \notin e.recipients

ChatTypeOK ==
    /\ msg_messages \subseteq Messages
    /\ request \in [Requests -> Stages]
    /\ \A q \in Requests : IsEnvelope(envelope[q])
    /\ \A i \in Instances :
          /\ IsEnvelope(delivering[i])
          /\ \A n \in DOMAIN bus[i] : IsEnvelope(bus[i][n])
    /\ subscriber \in [Instances -> {"listening", "dead"}]
    /\ conns \in [Instances -> [Users -> Sockets \cup {NoSocket}]]
    /\ socket \in [Sockets -> SocketStates]
    /\ newest \in [Instances -> [Users -> Sockets \cup {NoSocket}]]
    /\ known \in [Sockets -> SUBSET Messages]
    /\ caught_up \in [Sockets -> BOOLEAN]
    /\ published \subseteq msg_messages

ChatInit ==
    /\ msg_messages = {}
    /\ request = [q \in Requests |-> "new"]
    /\ envelope = [q \in Requests |-> Idle]
    /\ bus = [i \in Instances |-> <<>>]
    /\ delivering = [i \in Instances |-> Idle]
    /\ subscriber = [i \in Instances |-> "listening"]
    /\ conns = [i \in Instances |-> [u \in Users |-> NoSocket]]
    /\ socket = [s \in Sockets |-> "new"]
    /\ newest = [i \in Instances |-> [u \in Users |-> NoSocket]]
    /\ known = [s \in Sockets |-> {}]
    /\ caught_up = [s \in Sockets |-> FALSE]
    /\ published = {}

-----------------------------------------------------------------------------
(* Sending: a WebSocket frame or a POST *)

\* persist_and_fanout, the transaction: insert the message, or find the row that an
\* earlier attempt left, and read who it is for.
Persist(q, m) ==
    /\ request[q] = "new"
    /\ request' = [request EXCEPT ![q] = "stored"]
    /\ msg_messages' = msg_messages \cup {m}
    /\ envelope' = [envelope EXCEPT ![q] = MessageEnvelope(m)]
    /\ UNCHANGED <<delivery, sockets, published>>

\* A typing frame, of anyone who is connected: read who it is for, and store nothing.
Typing(q, c, u) ==
    /\ request[q] = "new"
    /\ request' = [request EXCEPT ![q] = "stored"]
    /\ envelope' = [envelope EXCEPT ![q] = TypingEnvelope(c, u)]
    /\ UNCHANGED <<msg_messages, delivery, sockets, published>>

\* Mutated Reached: the sender's own instance only, as before there was a bus.
ReachedLocally(q) == {i \in Instances : subscriber[i] = "listening" /\ i = On[q]}

\* The instances that will work off what is published now.
Reached(q) == {i \in Instances : subscriber[i] = "listening"}

\* _publish, once the transaction has committed.
Publish(q) ==
    /\ request[q] = "stored"
    /\ request' = [request EXCEPT ![q] = "done"]
    /\ bus' = [i \in Instances |->
                  IF i \in Reached(q) THEN Append(bus[i], envelope[q]) ELSE bus[i]]
    /\ published' = IF envelope[q].kind = "message"
                    THEN published \cup {envelope[q].message} ELSE published
    /\ UNCHANGED <<msg_messages, envelope, delivering, subscriber, sockets>>

\* The request ends between the two: Redis does not answer, or the socket's task is gone.
RequestDies(q) ==
    /\ request[q] = "stored"
    /\ request' = [request EXCEPT ![q] = "done"]
    /\ UNCHANGED <<msg_messages, envelope, delivery, sockets, published>>

-----------------------------------------------------------------------------
(* Delivery: the subscriber of an instance *)

\* The next envelope off the channel.
TakeEnvelope(i) ==
    /\ subscriber[i] = "listening"
    /\ delivering[i] = Idle
    /\ bus[i] # <<>>
    /\ bus' = [bus EXCEPT ![i] = Tail(@)]
    /\ delivering' = [delivering EXCEPT ![i] =
                         IF Head(bus[i]).recipients = {} THEN Idle ELSE Head(bus[i])]
    /\ UNCHANGED <<msg_messages, requests, subscriber, sockets, published>>

\* The envelope in hand, once user u has been dealt with.
Without(e, u) ==
    IF e.recipients = {u} THEN Idle ELSE [e EXCEPT !.recipients = @ \ {u}]

\* A recipient who has no socket here is skipped.
SkipRecipient(i, u) ==
    /\ u \in delivering[i].recipients
    /\ conns[i][u] = NoSocket
    /\ delivering' = [delivering EXCEPT ![i] = Without(@, u)]
    /\ UNCHANGED <<msg_messages, requests, bus, subscriber, sockets, published>>

\* send_text to a live socket, or to one whose peer has gone without a word.
PushTo(i, u) ==
    LET s == conns[i][u] IN
    /\ u \in delivering[i].recipients
    /\ s \in Sockets
    /\ socket[s] \in {"open", "gone"}
    /\ known' = IF socket[s] = "open" /\ delivering[i].kind = "message"
                THEN [known EXCEPT ![s] = @ \cup {delivering[i].message}] ELSE known
    /\ delivering' = [delivering EXCEPT ![i] = Without(@, u)]
    /\ UNCHANGED <<msg_messages, requests, bus, subscriber, conns, socket, newest,
                   caught_up, published>>

\* send_text raises on a socket that is known to be closed.  Nothing catches it: the
\* instance's one subscriber task ends, and with it every delivery here.
PushRaises(i, u) ==
    LET s == conns[i][u] IN
    /\ u \in delivering[i].recipients
    /\ s \in Sockets
    /\ socket[s] \in {"gone", "closed"}
    /\ subscriber' = [subscriber EXCEPT ![i] = "dead"]
    /\ delivering' = [delivering EXCEPT ![i] = Idle]
    /\ bus' = [bus EXCEPT ![i] = <<>>]
    /\ UNCHANGED <<msg_messages, requests, sockets, published>>

-----------------------------------------------------------------------------
(* Sockets *)

\* Accept and register: a second login of the user replaces the first.
Open(s) ==
    /\ socket[s] = "new"
    /\ socket' = [socket EXCEPT ![s] = "open"]
    /\ conns' = [conns EXCEPT ![At[s]][Owner[s]] = s]
    /\ newest' = [newest EXCEPT ![At[s]][Owner[s]] = s]
    /\ UNCHANGED <<msg_messages, requests, delivery, known, caught_up, published>>

\* The client reads the history of its conversations, from any instance.
ReadHistory(s) ==
    /\ socket[s] = "open"
    /\ ~caught_up[s]
    /\ caught_up' = [caught_up EXCEPT ![s] = TRUE]
    /\ known' = [known EXCEPT ![s] = @ \cup
                    {m \in msg_messages : Owner[s] \in Participants[Conversation[m]]}]
    /\ UNCHANGED <<msg_messages, requests, delivery, conns, socket, newest, published>>

\* The peer goes away.
Leave(s) ==
    /\ socket[s] = "open"
    /\ socket' = [socket EXCEPT ![s] = "gone"]
    /\ UNCHANGED <<msg_messages, requests, delivery, conns, newest, known, caught_up,
                   published>>

\* Mutated Deregister: whatever the table holds for the user goes.
DeregisterUser(s) ==
    /\ socket[s] = "gone"
    /\ socket' = [socket EXCEPT ![s] = "closed"]
    /\ conns' = [conns EXCEPT ![At[s]][Owner[s]] = NoSocket]
    /\ UNCHANGED <<msg_messages, requests, delivery, newest, known, caught_up, published>>

\* The handler notices (WebSocketDisconnect): it removes its own entry, not a newer one.
Deregister(s) ==
    /\ socket[s] = "gone"
    /\ socket' = [socket EXCEPT ![s] = "closed"]
    /\ conns' = [conns EXCEPT ![At[s]][Owner[s]] = IF @ = s THEN NoSocket ELSE @]
    /\ UNCHANGED <<msg_messages, requests, delivery, newest, known, caught_up, published>>

\* The handler ends with any other exception (a frame without a field it reads, an unknown
\* conversation): the socket is closed and its entry stays.
HandlerRaises(s) ==
    /\ socket[s] = "open"
    /\ socket' = [socket EXCEPT ![s] = "closed"]
    /\ UNCHANGED <<msg_messages, requests, delivery, conns, newest, known, caught_up,
                   published>>

\* The process is restarted: its sockets, its table and what it was about to do are gone.
Restart(i) ==
    /\ \E s \in Sockets : At[s] = i /\ socket[s] # "new"
    /\ socket' = [s \in Sockets |->
                     IF At[s] = i /\ socket[s] # "new" THEN "closed" ELSE socket[s]]
    /\ conns' = [conns EXCEPT ![i] = [u \in Users |-> NoSocket]]
    /\ newest' = [newest EXCEPT ![i] = [u \in Users |-> NoSocket]]
    /\ request' = [q \in Requests |->
                      IF On[q] = i /\ request[q] = "stored" THEN "done" ELSE request[q]]
    /\ bus' = [bus EXCEPT ![i] = <<>>]
    /\ delivering' = [delivering EXCEPT ![i] = Idle]
    /\ subscriber' = [subscriber EXCEPT ![i] = "listening"]
    /\ UNCHANGED <<msg_messages, envelope, known, caught_up, published>>

-----------------------------------------------------------------------------

DeliveryStep(i) ==
    \/ TakeEnvelope(i)
    \/ \E u \in Users : SkipRecipient(i, u) \/ PushTo(i, u) \/ PushRaises(i, u)

ChatNext ==
    \/ \E q \in Requests :
          \/ \E m \in Messages : Persist(q, m)
          \/ \E c \in Conversations, u \in Users : Typing(q, c, u)
          \/ Publish(q) \/ RequestDies(q)
    \/ \E i \in Instances : DeliveryStep(i) \/ Restart(i)
    \/ \E s \in Sockets :
          Open(s) \/ ReadHistory(s) \/ Leave(s) \/ Deregister(s) \/ HandlerRaises(s)

ChatSpec == ChatInit /\ [][ChatNext]_chatVars

\* The event loop of each instance runs its subscriber.
FairChatSpec == ChatSpec /\ \A i \in Instances : WF_chatVars(DeliveryStep(i))

-----------------------------------------------------------------------------
(* Properties *)

\* The socket that its user counts on: the last one opened there, and still up.
Live(s) ==
    /\ socket[s] = "open"
    /\ newest[At[s]][Owner[s]] = s
    /\ subscriber[At[s]] = "listening"

\* The messages that the instance of s is still to push to its user.
ComingTo(s) ==
    LET i == At[s] IN
    {m \in Messages :
        \/ \E n \in DOMAIN bus[i] :
              bus[i][n].kind = "message" /\ bus[i][n].message = m
        \/ /\ delivering[i].kind = "message" /\ delivering[i].message = m
           /\ Owner[s] \in delivering[i].recipients}

\* What is published for the user of socket s.
MeantFor(s) ==
    {m \in published : Owner[s] \in Recipients(Conversation[m], Sender[m])}

\* A client that opens its socket and then reads the history has each published message
\* or has it coming, whichever instance it was sent on (the row is committed before it is
\* published, and every instance hears of it).
NothingMissed ==
    \A s \in Sockets :
       Live(s) /\ caught_up[s] => MeantFor(s) \subseteq known[s] \cup ComingTo(s)

\* A reconnect may overtake the end of the socket it replaces: the newer one stays in the
\* table, whatever order the two handlers run in.
NewestIsRouted ==
    \A s \in Sockets : Live(s) => conns[At[s]][Owner[s]] = s

\* What is published reaches each live socket of its recipients, or the socket (or the
\* instance's subscriber) goes.
EveryRecipientIsReached ==
    \A s \in Sockets, m \in Messages :
       (Live(s) /\ caught_up[s] /\ m \in MeantFor(s)) ~> (~Live(s) \/ m \in known[s])

\* The comment on the subscriber task says that it "runs for the life of the process".
SubscriberLives == \A i \in Instances : subscriber[i] = "listening"
=============================================================================
