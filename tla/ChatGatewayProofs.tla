------------------------- MODULE ChatGatewayProofs -------------------------
(***************************************************************************)
(* Proofs about ChatGateway, for any users, sockets, instances and         *)
(* requests.                                                               *)
(***************************************************************************)
EXTENDS ChatGateway, Integers, TLAPS

-----------------------------------------------------------------------------
(* The inductive invariant *)

Envelopes ==
    [kind : {"message"}, message : Messages, recipients : SUBSET Users]
        \cup [kind : {"none", "typing"}, recipients : SUBSET Users]

MeantBy(m) == Recipients(Conversation[m], Sender[m])

\* An envelope as it is published names everyone it is for; in hand, those who are left.
Addressed(e) == e.kind = "message" => e.recipients = MeantBy(e.message)
LeftOver(e) == e.kind = "message" => e.recipients \subseteq MeantBy(e.message)

EnvelopesInv ==
    /\ envelope \in [Requests -> Envelopes]
    /\ bus \in [Instances -> Seq(Envelopes)]
    /\ delivering \in [Instances -> Envelopes]
    /\ \A q \in Requests : Addressed(envelope[q])
    /\ \A i \in Instances : LeftOver(delivering[i])
    /\ \A i \in Instances : \A n \in 1 .. Len(bus[i]) : Addressed(bus[i][n])

\* A message is stored before it is published.
StoredFirst ==
    /\ published \subseteq msg_messages
    /\ \A q \in Requests : envelope[q].kind = "message" => envelope[q].message \in msg_messages

\* The table holds the newest socket as long as that is open, and a socket is caught up
\* only after it was opened.
SocketsInv ==
    \A s \in Sockets :
       /\ newest[At[s]][Owner[s]] = s /\ socket[s] = "open" => conns[At[s]][Owner[s]] = s
       /\ socket[s] = "new" => ~caught_up[s]

StateInv ==
    /\ msg_messages \subseteq Messages
    /\ request \in [Requests -> Stages]
    /\ subscriber \in [Instances -> {"listening", "dead"}]
    /\ conns \in [Instances -> [Users -> Sockets \cup {NoSocket}]]
    /\ socket \in [Sockets -> SocketStates]
    /\ newest \in [Instances -> [Users -> Sockets \cup {NoSocket}]]
    /\ known \in [Sockets -> SUBSET Messages]
    /\ caught_up \in [Sockets -> BOOLEAN]

IInv == StateInv /\ EnvelopesInv /\ StoredFirst /\ SocketsInv /\ NothingMissed

-----------------------------------------------------------------------------
(* Envelopes *)

LEMMA MeantByUsers ==
    ASSUME NEW m \in Messages
    PROVE  MeantBy(m) \subseteq Users \ {Sender[m]}
BY ChatAssumption DEF MeantBy, Recipients

LEMMA NewEnvelopes ==
    /\ Idle \in Envelopes
    /\ Addressed(Idle) /\ LeftOver(Idle) /\ Idle.recipients = {} /\ Idle.kind # "message"
    /\ \A m \in Messages :
          /\ MessageEnvelope(m) \in Envelopes
          /\ Addressed(MessageEnvelope(m))
          /\ MessageEnvelope(m).message = m
    /\ \A c \in Conversations, u \in Users :
          /\ TypingEnvelope(c, u) \in Envelopes
          /\ TypingEnvelope(c, u).kind # "message"
<1>1. /\ Idle \in Envelopes
      /\ Addressed(Idle) /\ LeftOver(Idle) /\ Idle.recipients = {} /\ Idle.kind # "message"
    BY DEF Idle, Envelopes, Addressed, LeftOver
<1>2. ASSUME NEW m \in Messages
      PROVE  /\ MessageEnvelope(m) \in Envelopes
             /\ Addressed(MessageEnvelope(m))
             /\ MessageEnvelope(m).message = m
    <2>1. MeantBy(m) \in SUBSET Users
        BY MeantByUsers
    <2>2. MessageEnvelope(m) = [kind |-> "message", message |-> m, recipients |-> MeantBy(m)]
        BY DEF MessageEnvelope, MeantBy
    <2> QED
        BY <2>1, <2>2 DEF Envelopes, Addressed
<1>3. ASSUME NEW c \in Conversations, NEW u \in Users
      PROVE  /\ TypingEnvelope(c, u) \in Envelopes
             /\ TypingEnvelope(c, u).kind # "message"
    <2>1. Recipients(c, u) \in SUBSET Users
        BY ChatAssumption DEF Recipients
    <2> QED
        BY <2>1 DEF TypingEnvelope, Envelopes
<1> QED
    BY <1>1, <1>2, <1>3

\* What is left of an envelope when user u has been dealt with: the others.
LEMMA WithoutOne ==
    ASSUME NEW e \in Envelopes, NEW u \in Users, LeftOver(e)
    PROVE  /\ Without(e, u) \in Envelopes
           /\ LeftOver(Without(e, u))
           /\ \A w \in e.recipients :
                 w # u => /\ Without(e, u).kind = e.kind
                          /\ e.kind = "message" => Without(e, u).message = e.message
                          /\ w \in Without(e, u).recipients
<1> DEFINE less == [e EXCEPT !.recipients = @ \ {u}]
<1>1. /\ less \in Envelopes /\ less.kind = e.kind
      /\ e.kind = "message" => less.message = e.message
      /\ less.recipients = e.recipients \ {u}
    BY DEF Envelopes
<1>2. CASE e.recipients = {u}
    BY <1>2, NewEnvelopes DEF Without
<1>3. CASE e.recipients # {u}
    <2>1. Without(e, u) = less
        BY <1>3 DEF Without
    <2> HIDE DEF less
    <2> QED
        BY <1>1, <2>1 DEF LeftOver
<1> QED
    BY <1>2, <1>3

\* The channel of an instance: first in, first out.
LEMMA Channel ==
    ASSUME NEW b \in Seq(Envelopes), NEW e \in Envelopes
    PROVE  /\ Append(b, e) \in Seq(Envelopes)
           /\ Len(b) \in Nat
           /\ Len(Append(b, e)) = Len(b) + 1
           /\ Append(b, e)[Len(b) + 1] = e
           /\ \A n \in 1 .. Len(b) : Append(b, e)[n] = b[n]
           /\ DOMAIN b = 1 .. Len(b)
           /\ DOMAIN Append(b, e) = 1 .. Len(b) + 1
OBVIOUS

LEMMA ChannelHead ==
    ASSUME NEW b \in Seq(Envelopes), b # <<>>
    PROVE  /\ Tail(b) \in Seq(Envelopes)
           /\ Head(b) \in Envelopes
           /\ Head(b) = b[1]
           /\ Len(b) \in Nat /\ Len(b) > 0
           /\ DOMAIN b = 1 .. Len(b)
           /\ DOMAIN Tail(b) = 1 .. Len(b) - 1
           /\ Len(Tail(b)) = Len(b) - 1
           /\ \A n \in 1 .. Len(b) - 1 : Tail(b)[n] = b[n + 1]
OBVIOUS

LEMMA NoChannel == <<>> \in Seq(Envelopes) /\ DOMAIN <<>> = {} /\ Len(<<>>) = 0
OBVIOUS

-----------------------------------------------------------------------------
(* Steps of the requests *)

USE DEF chatVars, requests, sockets, delivery

LEMMA InitIInv == ChatInit => IInv
<1> SUFFICES ASSUME ChatInit PROVE IInv
    OBVIOUS
<1>1. StateInv
    BY ChatAssumption DEF ChatInit, StateInv, Stages, SocketStates
<1>2. EnvelopesInv
    BY NewEnvelopes, NoChannel DEF ChatInit, EnvelopesInv
<1>3. StoredFirst
    BY NewEnvelopes DEF ChatInit, StoredFirst
<1>4. SocketsInv
    BY ChatAssumption DEF ChatInit, SocketsInv
<1>5. NothingMissed
    BY DEF ChatInit, NothingMissed, Live, MeantFor
<1> QED
    BY <1>1, <1>2, <1>3, <1>4, <1>5 DEF IInv

\* What a step leaves alone when it touches neither the sockets nor what is on its way.
LEMMA StillNothingMissed ==
    ASSUME NothingMissed, UNCHANGED <<bus, delivering, subscriber, socket, newest, known,
                                      caught_up, published>>
    PROVE  NothingMissed'
BY DEF NothingMissed, Live, MeantFor, ComingTo

LEMMA SocketsAlone ==
    ASSUME SocketsInv, UNCHANGED sockets
    PROVE  SocketsInv'
BY DEF SocketsInv

LEMMA PersistStep ==
    ASSUME IInv, NEW q \in Requests, NEW m \in Messages, Persist(q, m)
    PROVE  IInv'
<1>1. StateInv'
    BY DEF IInv, StateInv, Persist, Stages
<1>2. EnvelopesInv'
    BY NewEnvelopes DEF IInv, EnvelopesInv, Persist
<1>3. StoredFirst'
    BY NewEnvelopes DEF IInv, EnvelopesInv, StoredFirst, Persist
<1>4. SocketsInv' /\ NothingMissed'
    BY StillNothingMissed, SocketsAlone DEF IInv, Persist
<1> QED
    BY <1>1, <1>2, <1>3, <1>4 DEF IInv

LEMMA TypingStep ==
    ASSUME IInv, NEW q \in Requests, NEW c \in Conversations, NEW u \in Users, Typing(q, c, u)
    PROVE  IInv'
<1>1. StateInv'
    BY DEF IInv, StateInv, Typing, Stages
<1>2. EnvelopesInv'
    BY NewEnvelopes DEF IInv, EnvelopesInv, Typing, Addressed
<1>3. StoredFirst'
    BY NewEnvelopes DEF IInv, EnvelopesInv, StoredFirst, Typing
<1>4. SocketsInv' /\ NothingMissed'
    BY StillNothingMissed, SocketsAlone DEF IInv, Typing
<1> QED
    BY <1>1, <1>2, <1>3, <1>4 DEF IInv

LEMMA RequestDiesStep ==
    ASSUME IInv, NEW q \in Requests, RequestDies(q)
    PROVE  IInv'
<1>1. StateInv'
    BY DEF IInv, StateInv, RequestDies, Stages
<1>2. EnvelopesInv' /\ StoredFirst'
    BY DEF IInv, EnvelopesInv, StoredFirst, RequestDies
<1>3. SocketsInv' /\ NothingMissed'
    BY StillNothingMissed, SocketsAlone DEF IInv, RequestDies
<1> QED
    BY <1>1, <1>2, <1>3 DEF IInv

\* Every listening instance hears of the message, after all that it was still to deliver.
LEMMA PublishStep ==
    ASSUME IInv, NEW q \in Requests, Publish(q)
    PROVE  IInv'
<1>1. StateInv'
    BY DEF IInv, StateInv, Publish, Stages
<1>2. /\ envelope[q] \in Envelopes /\ Addressed(envelope[q])
      /\ bus \in [Instances -> Seq(Envelopes)]
    BY DEF IInv, EnvelopesInv
<1>3. ASSUME NEW i \in Instances
      PROVE  /\ bus[i] \in Seq(Envelopes) /\ bus'[i] \in Seq(Envelopes)
             /\ DOMAIN bus[i] \subseteq DOMAIN bus'[i]
             /\ DOMAIN bus'[i] = 1 .. Len(bus'[i])
             /\ \A n \in DOMAIN bus[i] : bus'[i][n] = bus[i][n]
             /\ \A n \in DOMAIN bus'[i] : n \in DOMAIN bus[i] \/ bus'[i][n] = envelope[q]
             /\ subscriber[i] = "listening" =>
                   \E n \in DOMAIN bus'[i] : bus'[i][n] = envelope[q]
    <2>1. bus[i] \in Seq(Envelopes)
        BY <1>2
    <2>2. DOMAIN bus[i] = 1 .. Len(bus[i])
        BY <2>1
    <2>3. CASE subscriber[i] = "listening"
        <3>1. bus'[i] = Append(bus[i], envelope[q])
            BY <2>3, <1>2 DEF Publish, Reached
        <3>2. Len(bus[i]) \in Nat /\ Len(bus[i]) + 1 \in DOMAIN bus'[i]
            BY <2>1, <3>1, <1>2, Channel
        <3> QED
            BY <2>1, <3>1, <3>2, <1>2, Channel
    <2>4. CASE subscriber[i] # "listening"
        <3>1. bus'[i] = bus[i]
            BY <2>4, <1>2 DEF Publish, Reached
        <3> QED
            BY <2>1, <2>2, <2>4, <3>1
    <2> QED
        BY <2>3, <2>4
<1>4. EnvelopesInv'
    <2>1. bus' \in [Instances -> Seq(Envelopes)]
        BY <1>3 DEF Publish
    <2>2. ASSUME NEW i \in Instances, NEW n \in 1 .. Len(bus'[i])
          PROVE  Addressed(bus'[i][n])
        <3>1. DOMAIN bus[i] = 1 .. Len(bus[i])
            BY <1>3
        <3> QED
            BY <1>2, <1>3, <3>1 DEF IInv, EnvelopesInv
    <2> QED
        BY <2>1, <2>2 DEF IInv, EnvelopesInv, Publish
<1>5. StoredFirst'
    BY DEF IInv, StoredFirst, Publish
<1>6. SocketsInv'
    BY SocketsAlone DEF IInv, Publish
<1>7. NothingMissed'
    <2> SUFFICES ASSUME NEW s \in Sockets, Live(s)', caught_up'[s], NEW m \in MeantFor(s)'
                 PROVE  m \in known'[s] \/ m \in ComingTo(s)'
        BY DEF NothingMissed
    <2>1. At[s] \in Instances /\ m \in Messages
        BY <1>1, <1>5, ChatAssumption DEF MeantFor, StateInv, StoredFirst
    <2>2. Live(s) /\ caught_up[s]
        BY DEF Live, Publish
    <2>3. CASE m \in published
        <3>1. m \in known[s] \/ m \in ComingTo(s)
            BY <2>2, <2>3 DEF IInv, NothingMissed, MeantFor
        <3>2. \A n \in DOMAIN bus[At[s]] :
                 n \in DOMAIN bus'[At[s]] /\ bus'[At[s]][n] = bus[At[s]][n]
            BY <1>3, <2>1
        <3>3. delivering' = delivering /\ known' = known
            BY DEF Publish
        <3> QED
            BY <3>1, <3>2, <3>3 DEF ComingTo
    <2>4. CASE m \notin published
        <3>1. envelope[q].kind = "message" /\ envelope[q].message = m
            BY <2>4 DEF MeantFor, Publish
        <3>2. \E n \in DOMAIN bus'[At[s]] : bus'[At[s]][n] = envelope[q]
            BY <1>3, <2>1, <2>2 DEF Live
        <3> QED
            BY <2>1, <3>1, <3>2 DEF ComingTo
    <2> QED
        BY <2>3, <2>4
<1> QED
    BY <1>1, <1>4, <1>5, <1>6, <1>7 DEF IInv

-----------------------------------------------------------------------------
(* Steps of a subscriber *)

\* The sockets and what has been published stay as they are, so that a step of instance i
\* has to keep only what its own live sockets wait for.
LEMMA StillNothingMissedAt ==
    ASSUME IInv, NEW i \in Instances,
           UNCHANGED <<socket, newest, caught_up, published>>,
           \A j \in Instances \ {i} : bus'[j] = bus[j] /\ delivering'[j] = delivering[j],
           \A j \in Instances \ {i} : subscriber'[j] = subscriber[j],
           subscriber'[i] = "listening" => subscriber[i] = "listening",
           \A s \in Sockets : known[s] \subseteq known'[s],
           \A s \in Sockets, m \in Messages :
              /\ At[s] = i /\ Live(s) /\ subscriber'[i] = "listening"
              /\ m \in MeantFor(s) /\ m \in ComingTo(s)
              => m \in known'[s] \/ m \in ComingTo(s)'
    PROVE  NothingMissed'
<1> SUFFICES ASSUME NEW s \in Sockets, Live(s)', caught_up'[s], NEW m \in MeantFor(s)'
             PROVE  m \in known'[s] \/ m \in ComingTo(s)'
    BY DEF NothingMissed
<1>1. At[s] \in Instances
    BY ChatAssumption
<1>2. Live(s) /\ caught_up[s]
    BY <1>1 DEF Live
<1>3. m \in MeantFor(s) /\ m \in Messages
    BY DEF MeantFor, IInv, StoredFirst, StateInv
<1>4. m \in known[s] \/ m \in ComingTo(s)
    BY <1>2, <1>3 DEF IInv, NothingMissed
<1>5. CASE At[s] = i
    BY <1>2, <1>3, <1>4, <1>5 DEF Live
<1>6. CASE At[s] # i
    <2>1. bus'[At[s]] = bus[At[s]] /\ delivering'[At[s]] = delivering[At[s]]
        BY <1>1, <1>6
    <2> QED
        BY <1>4, <2>1 DEF ComingTo
<1> QED
    BY <1>5, <1>6

LEMMA TakeEnvelopeStep ==
    ASSUME IInv, NEW i \in Instances, TakeEnvelope(i)
    PROVE  IInv'
<1>1. StateInv' /\ StoredFirst'
    BY DEF IInv, StateInv, StoredFirst, TakeEnvelope
<1>2. /\ bus \in [Instances -> Seq(Envelopes)] /\ delivering \in [Instances -> Envelopes]
      /\ bus[i] \in Seq(Envelopes) /\ bus[i] # <<>>
    BY DEF IInv, EnvelopesInv, TakeEnvelope
<1>3. /\ bus' = [bus EXCEPT ![i] = Tail(bus[i])]
      /\ delivering' = [delivering EXCEPT ![i] =
                           IF Head(bus[i]).recipients = {} THEN Idle ELSE Head(bus[i])]
    BY DEF TakeEnvelope
<1> DEFINE b == bus[i]
           h == Head(bus[i])
           r == Tail(bus[i])
<1>4. /\ r \in Seq(Envelopes) /\ h \in Envelopes /\ h = b[1]
      /\ Len(b) \in Nat /\ Len(b) > 0 /\ DOMAIN b = 1 .. Len(b)
      /\ DOMAIN r = 1 .. Len(b) - 1 /\ Len(r) = Len(b) - 1
      /\ \A n \in 1 .. Len(b) - 1 : r[n] = b[n + 1]
    BY <1>2, ChannelHead
<1>5. /\ bus'[i] = r
      /\ delivering'[i] = IF h.recipients = {} THEN Idle ELSE h
      /\ \A j \in Instances \ {i} : bus'[j] = bus[j] /\ delivering'[j] = delivering[j]
    BY <1>2, <1>3
<1>6. \A n \in 1 .. Len(b) : Addressed(b[n])
    BY DEF IInv, EnvelopesInv
<1> HIDE DEF b, h, r
<1>7. Addressed(h)
    BY <1>4, <1>6
<1>8. EnvelopesInv'
    <2>1. \A n \in 1 .. Len(r) : Addressed(r[n])
        BY <1>4, <1>6
    <2>2. \A j \in Instances : \A n \in 1 .. Len(bus'[j]) : Addressed(bus'[j][n])
        BY <1>5, <2>1 DEF IInv, EnvelopesInv
    <2>3. \A j \in Instances : LeftOver(delivering'[j])
        BY <1>5, <1>7, NewEnvelopes DEF IInv, EnvelopesInv, LeftOver, Addressed
    <2>4. bus' \in [Instances -> Seq(Envelopes)] /\ delivering' \in [Instances -> Envelopes]
        BY <1>2, <1>3, <1>4, NewEnvelopes DEF h, r
    <2> QED
        BY <2>2, <2>3, <2>4 DEF IInv, EnvelopesInv, TakeEnvelope
<1>9. SocketsInv'
    BY SocketsAlone DEF IInv, TakeEnvelope
<1>10. ASSUME NEW s \in Sockets, NEW m \in Messages, At[s] = i,
              m \in MeantFor(s), m \in ComingTo(s)
       PROVE  m \in ComingTo(s)'
    <2>1. delivering[i].kind # "message"
        BY NewEnvelopes DEF TakeEnvelope
    <2>2. PICK n \in 1 .. Len(b) : b[n].kind = "message" /\ b[n].message = m
        BY <1>4, <1>10, <2>1 DEF ComingTo, b
    <2>3. CASE n = 1
        <3>1. h.recipients = MeantBy(m)
            BY <1>4, <1>7, <2>2, <2>3 DEF Addressed
        <3>2. Owner[s] \in h.recipients
            BY <1>10, <3>1 DEF MeantFor, MeantBy
        <3>3. delivering'[i] = h
            BY <1>5, <3>2
        <3> QED
            BY <1>4, <1>10, <2>2, <2>3, <3>2, <3>3 DEF ComingTo
    <2>4. CASE n # 1
        <3>1. n - 1 \in DOMAIN r /\ r[n - 1] = b[n]
            BY <1>4, <2>4
        <3> QED
            BY <1>5, <1>10, <2>2, <3>1 DEF ComingTo
    <2> QED
        BY <2>3, <2>4
<1>11. NothingMissed'
    BY <1>5, <1>10, StillNothingMissedAt DEF TakeEnvelope
<1> QED
    BY <1>1, <1>8, <1>9, <1>11 DEF IInv

\* One recipient less in the envelope at hand: the others are still to come.
LEMMA OneRecipientLess ==
    ASSUME IInv, NEW i \in Instances, NEW u \in Users,
           delivering' = [delivering EXCEPT ![i] = Without(@, u)],
           UNCHANGED <<bus, envelope>>
    PROVE  /\ EnvelopesInv'
           /\ \A s \in Sockets, m \in Messages :
                 At[s] = i /\ Owner[s] # u /\ m \in ComingTo(s) => m \in ComingTo(s)'
           /\ \A j \in Instances \ {i} : delivering'[j] = delivering[j]
<1>1. /\ delivering \in [Instances -> Envelopes] /\ delivering[i] \in Envelopes
      /\ LeftOver(delivering[i])
    BY DEF IInv, EnvelopesInv
<1>2. /\ delivering'[i] = Without(delivering[i], u)
      /\ \A j \in Instances \ {i} : delivering'[j] = delivering[j]
    BY <1>1
<1>3. EnvelopesInv'
    <2>1. Without(delivering[i], u) \in Envelopes /\ LeftOver(Without(delivering[i], u))
        BY <1>1, WithoutOne
    <2>2. delivering' \in [Instances -> Envelopes]
        BY <1>1, <2>1
    <2>3. \A j \in Instances : LeftOver(delivering'[j])
        BY <1>2, <2>1 DEF IInv, EnvelopesInv
    <2> QED
        BY <2>2, <2>3 DEF IInv, EnvelopesInv
<1>4. ASSUME NEW s \in Sockets, NEW m \in Messages, At[s] = i, Owner[s] # u, m \in ComingTo(s)
      PROVE  m \in ComingTo(s)'
    <2>1. \A w \in delivering[i].recipients : w # u =>
             /\ delivering'[i].kind = delivering[i].kind
             /\ delivering[i].kind = "message" => delivering'[i].message = delivering[i].message
             /\ w \in delivering'[i].recipients
        BY <1>1, <1>2, WithoutOne
    <2> QED
        BY <1>4, <2>1 DEF ComingTo
<1> QED
    BY <1>2, <1>3, <1>4

LEMMA SkipRecipientStep ==
    ASSUME IInv, NEW i \in Instances, NEW u \in Users, SkipRecipient(i, u)
    PROVE  IInv'
<1>1. StateInv' /\ StoredFirst'
    BY DEF IInv, StateInv, StoredFirst, SkipRecipient
<1>2. SocketsInv'
    BY SocketsAlone DEF IInv, SkipRecipient
<1>3. /\ EnvelopesInv'
      /\ \A s \in Sockets, m \in Messages :
            At[s] = i /\ Owner[s] # u /\ m \in ComingTo(s) => m \in ComingTo(s)'
      /\ \A j \in Instances \ {i} : delivering'[j] = delivering[j]
    BY OneRecipientLess DEF SkipRecipient
<1>4. \A s \in Sockets : At[s] = i /\ Live(s) => Owner[s] # u
    BY ChatAssumption DEF IInv, SocketsInv, Live, SkipRecipient
<1>5. NothingMissed'
    BY <1>3, <1>4, StillNothingMissedAt DEF SkipRecipient
<1> QED
    BY <1>1, <1>2, <1>3, <1>5 DEF IInv

LEMMA PushToStep ==
    ASSUME IInv, NEW i \in Instances, NEW u \in Users, PushTo(i, u)
    PROVE  IInv'
<1> DEFINE t == conns[i][u]
<1>1. t \in Sockets /\ known \in [Sockets -> SUBSET Messages]
    BY DEF IInv, StateInv, PushTo
<1>2. /\ delivering[i] \in Envelopes
      /\ delivering[i].kind = "message" => delivering[i].message \in Messages
    BY DEF IInv, EnvelopesInv, Envelopes
<1>3. /\ known' \in [Sockets -> SUBSET Messages]
      /\ \A s \in Sockets : known[s] \subseteq known'[s]
      /\ socket[t] = "open" /\ delivering[i].kind = "message" => delivering[i].message \in known'[t]
    BY <1>1, <1>2 DEF PushTo
<1>4. StateInv' /\ StoredFirst'
    BY <1>3 DEF IInv, StateInv, StoredFirst, PushTo
<1>5. SocketsInv'
    BY DEF IInv, SocketsInv, PushTo
<1>6. /\ EnvelopesInv'
      /\ \A s \in Sockets, m \in Messages :
            At[s] = i /\ Owner[s] # u /\ m \in ComingTo(s) => m \in ComingTo(s)'
      /\ \A j \in Instances \ {i} : delivering'[j] = delivering[j]
    BY OneRecipientLess DEF PushTo
<1>7. ASSUME NEW s \in Sockets, NEW m \in Messages, At[s] = i, Live(s), m \in ComingTo(s)
      PROVE  m \in known'[s] \/ m \in ComingTo(s)'
    <2>1. CASE Owner[s] # u
        BY <1>6, <1>7, <2>1
    <2>2. CASE Owner[s] = u
        <3>1. t = s /\ socket[s] = "open"
            BY <1>7, <2>2 DEF IInv, SocketsInv, Live
        <3> HIDE DEF t
        <3>2. CASE delivering[i].kind = "message" /\ delivering[i].message = m
            BY <1>3, <3>1, <3>2
        <3>3. CASE ~(delivering[i].kind = "message" /\ delivering[i].message = m)
            BY <1>7, <3>3 DEF ComingTo, PushTo
        <3> QED
            BY <3>2, <3>3
    <2> QED
        BY <2>1, <2>2
<1>8. NothingMissed'
    BY <1>3, <1>6, <1>7, StillNothingMissedAt DEF PushTo
<1> QED
    BY <1>4, <1>5, <1>6, <1>8 DEF IInv

LEMMA PushRaisesStep ==
    ASSUME IInv, NEW i \in Instances, NEW u \in Users, PushRaises(i, u)
    PROVE  IInv'
<1>1. StateInv' /\ StoredFirst'
    BY DEF IInv, StateInv, StoredFirst, PushRaises
<1>2. /\ bus' \in [Instances -> Seq(Envelopes)] /\ delivering' \in [Instances -> Envelopes]
      /\ bus'[i] = <<>> /\ delivering'[i] = Idle /\ subscriber'[i] = "dead"
      /\ \A j \in Instances \ {i} : /\ bus'[j] = bus[j] /\ delivering'[j] = delivering[j]
                                    /\ subscriber'[j] = subscriber[j]
    BY NewEnvelopes, NoChannel DEF IInv, EnvelopesInv, StateInv, PushRaises
<1>3. EnvelopesInv'
    BY <1>2, NewEnvelopes, NoChannel DEF IInv, EnvelopesInv, PushRaises
<1>4. SocketsInv'
    BY SocketsAlone DEF IInv, PushRaises
<1>5. NothingMissed'
    BY <1>2, StillNothingMissedAt DEF PushRaises
<1> QED
    BY <1>1, <1>3, <1>4, <1>5 DEF IInv

-----------------------------------------------------------------------------
(* Steps of the sockets *)

LEMMA OpenStep ==
    ASSUME IInv, NEW s \in Sockets, Open(s)
    PROVE  IInv'
<1>0. At[s] \in Instances /\ Owner[s] \in Users
    BY ChatAssumption
<1>1. StateInv' /\ StoredFirst' /\ EnvelopesInv'
    BY <1>0 DEF IInv, StateInv, StoredFirst, EnvelopesInv, Open, SocketStates
<1>2. /\ conns \in [Instances -> [Users -> Sockets \cup {NoSocket}]]
      /\ newest \in [Instances -> [Users -> Sockets \cup {NoSocket}]]
      /\ socket \in [Sockets -> SocketStates]
    BY DEF IInv, StateInv
<1>3. /\ conns'[At[s]][Owner[s]] = s /\ newest'[At[s]][Owner[s]] = s
      /\ \A t \in Sockets \ {s} : socket'[t] = socket[t]
      /\ \A i \in Instances, u \in Users :
            i # At[s] \/ u # Owner[s] => /\ conns'[i][u] = conns[i][u]
                                         /\ newest'[i][u] = newest[i][u]
    BY <1>0, <1>2 DEF Open
<1>4. ASSUME NEW t \in Sockets, t # s, newest'[At[t]][Owner[t]] = t
      PROVE  /\ newest[At[t]][Owner[t]] = t /\ socket'[t] = socket[t]
             /\ conns'[At[t]][Owner[t]] = conns[At[t]][Owner[t]]
    BY <1>3, <1>4, ChatAssumption
<1>5. SocketsInv'
    BY <1>2, <1>3, <1>4 DEF IInv, SocketsInv, Open
<1>6. NothingMissed'
    <2> SUFFICES ASSUME NEW t \in Sockets, Live(t)', caught_up'[t], NEW m \in MeantFor(t)'
                 PROVE  m \in known'[t] \/ m \in ComingTo(t)'
        BY DEF NothingMissed
    <2>1. t # s
        BY DEF IInv, SocketsInv, Open
    <2>2. Live(t) /\ caught_up[t] /\ m \in MeantFor(t)
        BY <1>4, <2>1 DEF Live, Open, MeantFor
    <2> QED
        BY <2>2 DEF IInv, NothingMissed, ComingTo, Open
<1> QED
    BY <1>1, <1>5, <1>6 DEF IInv

\* What is published is stored, so the history holds it.
LEMMA ReadHistoryStep ==
    ASSUME IInv, NEW s \in Sockets, ReadHistory(s)
    PROVE  IInv'
<1>1. /\ known \in [Sockets -> SUBSET Messages] /\ msg_messages \subseteq Messages
      /\ caught_up \in [Sockets -> BOOLEAN]
    BY DEF IInv, StateInv
<1>2. StateInv' /\ StoredFirst' /\ EnvelopesInv'
    BY DEF IInv, StateInv, StoredFirst, EnvelopesInv, ReadHistory
<1>3. SocketsInv'
    BY <1>1 DEF IInv, SocketsInv, ReadHistory
<1>4. NothingMissed'
    <2> SUFFICES ASSUME NEW t \in Sockets, Live(t)', caught_up'[t], NEW m \in MeantFor(t)'
                 PROVE  m \in known'[t] \/ m \in ComingTo(t)'
        BY DEF NothingMissed
    <2>1. CASE t = s
        <3>1. m \in msg_messages /\ Owner[s] \in Participants[Conversation[m]]
            BY <2>1 DEF MeantFor, Recipients, IInv, StoredFirst, ReadHistory
        <3> QED
            BY <1>1, <2>1, <3>1 DEF ReadHistory
    <2>2. CASE t # s
        <3>1. Live(t) /\ caught_up[t] /\ m \in MeantFor(t) /\ known'[t] = known[t]
            BY <1>1, <2>2 DEF Live, ReadHistory, MeantFor
        <3> QED
            BY <3>1 DEF IInv, NothingMissed, ComingTo, ReadHistory
    <2> QED
        BY <2>1, <2>2
<1> QED
    BY <1>2, <1>3, <1>4 DEF IInv

\* A socket that goes is missed by nobody else.
LEMMA SocketGoes ==
    ASSUME IInv, NEW s \in Sockets, socket' = [socket EXCEPT ![s] = "gone"]
                                    \/ socket' = [socket EXCEPT ![s] = "closed"],
           UNCHANGED <<msg_messages, request, envelope, bus, delivering, subscriber, newest,
                       known, caught_up, published>>
    PROVE  /\ StoredFirst' /\ EnvelopesInv' /\ NothingMissed'
           /\ socket' \in [Sockets -> SocketStates]
           /\ \A t \in Sockets : socket'[t] \in {"new", "open"} => t # s /\ socket[t] = socket'[t]
<1>1. socket \in [Sockets -> SocketStates]
    BY DEF IInv, StateInv
<1>2. /\ socket' \in [Sockets -> SocketStates]
      /\ \A t \in Sockets : socket'[t] \in {"new", "open"} => t # s /\ socket[t] = socket'[t]
    BY <1>1 DEF SocketStates
<1>3. StoredFirst' /\ EnvelopesInv'
    BY DEF IInv, StoredFirst, EnvelopesInv
<1>4. NothingMissed'
    BY <1>2 DEF IInv, NothingMissed, Live, MeantFor, ComingTo
<1> QED
    BY <1>2, <1>3, <1>4

LEMMA LeaveStep ==
    ASSUME IInv, NEW s \in Sockets, Leave(s) \/ HandlerRaises(s)
    PROVE  IInv'
<1>1. /\ StoredFirst' /\ EnvelopesInv' /\ NothingMissed'
      /\ socket' \in [Sockets -> SocketStates]
      /\ \A t \in Sockets : socket'[t] \in {"new", "open"} => t # s /\ socket[t] = socket'[t]
    BY SocketGoes DEF Leave, HandlerRaises
<1>2. StateInv'
    BY <1>1 DEF IInv, StateInv, Leave, HandlerRaises
<1>3. SocketsInv'
    BY <1>1 DEF IInv, SocketsInv, Leave, HandlerRaises
<1> QED
    BY <1>1, <1>2, <1>3 DEF IInv

\* The handler takes no entry away but its own.
LEMMA DeregisterStep ==
    ASSUME IInv, NEW s \in Sockets, Deregister(s)
    PROVE  IInv'
<1>1. /\ StoredFirst' /\ EnvelopesInv' /\ NothingMissed'
      /\ socket' \in [Sockets -> SocketStates]
      /\ \A t \in Sockets : socket'[t] \in {"new", "open"} => t # s /\ socket[t] = socket'[t]
    BY SocketGoes DEF Deregister
<1>2. /\ conns \in [Instances -> [Users -> Sockets \cup {NoSocket}]]
      /\ At[s] \in Instances /\ Owner[s] \in Users
    BY ChatAssumption DEF IInv, StateInv
<1>3. /\ conns' \in [Instances -> [Users -> Sockets \cup {NoSocket}]]
      /\ \A i \in Instances, u \in Users :
            conns[i][u] # s => conns'[i][u] = conns[i][u]
    BY <1>2 DEF Deregister
<1>4. StateInv'
    BY <1>1, <1>3 DEF IInv, StateInv, Deregister
<1>5. SocketsInv'
    <2> SUFFICES ASSUME NEW t \in Sockets
                 PROVE  /\ newest'[At[t]][Owner[t]] = t /\ socket'[t] = "open"
                              => conns'[At[t]][Owner[t]] = t
                        /\ socket'[t] = "new" => ~caught_up'[t]
        BY DEF SocketsInv
    <2>1. At[t] \in Instances /\ Owner[t] \in Users
        BY ChatAssumption
    <2> QED
        BY <1>1, <1>3, <2>1 DEF IInv, SocketsInv, Deregister
<1> QED
    BY <1>1, <1>4, <1>5 DEF IInv

LEMMA RestartStep ==
    ASSUME IInv, NEW i \in Instances, Restart(i)
    PROVE  IInv'
<1>1. StateInv'
    BY DEF IInv, StateInv, Restart, SocketStates, Stages
<1>2. /\ bus' \in [Instances -> Seq(Envelopes)] /\ delivering' \in [Instances -> Envelopes]
      /\ bus'[i] = <<>> /\ delivering'[i] = Idle
      /\ \A j \in Instances \ {i} : /\ bus'[j] = bus[j] /\ delivering'[j] = delivering[j]
                                    /\ subscriber'[j] = subscriber[j]
                                    /\ newest'[j] = newest[j] /\ conns'[j] = conns[j]
    BY NewEnvelopes, NoChannel DEF IInv, EnvelopesInv, StateInv, Restart
<1>3. EnvelopesInv'
    BY <1>2, NewEnvelopes, NoChannel DEF IInv, EnvelopesInv, Restart
<1>4. StoredFirst'
    BY DEF IInv, StoredFirst, Restart
<1>5. ASSUME NEW s \in Sockets, newest'[At[s]][Owner[s]] = s
      PROVE  At[s] \in Instances \ {i} /\ newest[At[s]][Owner[s]] = s
    <2>1. At[s] \in Instances /\ Owner[s] \in Users /\ s # NoSocket
        BY ChatAssumption
    <2>2. newest'[i] = [u \in Users |-> NoSocket]
        BY DEF IInv, StateInv, Restart
    <2> QED
        BY <1>2, <1>5, <2>1, <2>2
<1>6. \A s \in Sockets : /\ At[s] # i => socket'[s] = socket[s]
                         /\ socket'[s] = "new" => socket[s] = "new"
    BY DEF Restart
<1>7. SocketsInv'
    BY <1>2, <1>5, <1>6 DEF IInv, SocketsInv, Restart
<1>8. NothingMissed'
    <2> SUFFICES ASSUME NEW t \in Sockets, Live(t)', caught_up'[t], NEW m \in MeantFor(t)'
                 PROVE  m \in known'[t] \/ m \in ComingTo(t)'
        BY DEF NothingMissed
    <2>1. At[t] \in Instances \ {i} /\ newest[At[t]][Owner[t]] = t
        BY <1>5 DEF Live
    <2>2. Live(t) /\ caught_up[t] /\ m \in MeantFor(t)
        BY <1>2, <1>6, <2>1 DEF Live, Restart, MeantFor
    <2>3. m \in known[t] \/ m \in ComingTo(t)
        BY <2>2 DEF IInv, NothingMissed
    <2>4. bus'[At[t]] = bus[At[t]] /\ delivering'[At[t]] = delivering[At[t]]
        BY <1>2, <2>1
    <2> QED
        BY <2>3, <2>4 DEF ComingTo, Restart
<1> QED
    BY <1>1, <1>3, <1>4, <1>7, <1>8 DEF IInv

-----------------------------------------------------------------------------
(* The theorems *)

LEMMA NextStep == IInv /\ [ChatNext]_chatVars => IInv'
<1> SUFFICES ASSUME IInv, [ChatNext]_chatVars PROVE IInv'
    OBVIOUS
<1>1. ASSUME NEW q \in Requests, NEW m \in Messages, Persist(q, m) PROVE IInv'
    BY <1>1, PersistStep
<1>2. ASSUME NEW q \in Requests, NEW c \in Conversations, NEW u \in Users, Typing(q, c, u)
      PROVE  IInv'
    BY <1>2, TypingStep
<1>3. ASSUME NEW q \in Requests, Publish(q) PROVE IInv'
    BY <1>3, PublishStep
<1>4. ASSUME NEW q \in Requests, RequestDies(q) PROVE IInv'
    BY <1>4, RequestDiesStep
<1>5. ASSUME NEW i \in Instances, DeliveryStep(i) PROVE IInv'
    BY <1>5, TakeEnvelopeStep, SkipRecipientStep, PushToStep, PushRaisesStep DEF DeliveryStep
<1>6. ASSUME NEW i \in Instances, Restart(i) PROVE IInv'
    BY <1>6, RestartStep
<1>7. ASSUME NEW s \in Sockets,
             Open(s) \/ ReadHistory(s) \/ Leave(s) \/ Deregister(s) \/ HandlerRaises(s)
      PROVE  IInv'
    BY <1>7, OpenStep, ReadHistoryStep, LeaveStep, DeregisterStep
<1>8. CASE UNCHANGED chatVars
    <2>1. StateInv' /\ EnvelopesInv' /\ StoredFirst'
        BY <1>8 DEF IInv, StateInv, EnvelopesInv, StoredFirst
    <2>2. SocketsInv' /\ NothingMissed'
        BY <1>8, SocketsAlone, StillNothingMissed DEF IInv
    <2> QED
        BY <2>1, <2>2 DEF IInv
<1> QED
    BY <1>1, <1>2, <1>3, <1>4, <1>5, <1>6, <1>7, <1>8 DEF ChatNext

LEMMA InvariantHolds == ChatSpec => []IInv
BY InitIInv, NextStep, PTL DEF ChatSpec

LEMMA TypesFollow == IInv => ChatTypeOK
<1> SUFFICES ASSUME IInv PROVE ChatTypeOK
    OBVIOUS
<1>1. ASSUME NEW e \in Envelopes, LeftOver(e) PROVE IsEnvelope(e)
    <2>1. CASE e.kind = "message"
        <3>1. e.message \in Messages /\ e.recipients \in SUBSET Users
            BY <2>1 DEF Envelopes
        <3>2. e.recipients \subseteq Users \ {Sender[e.message]}
            BY <1>1, <2>1, <3>1, MeantByUsers DEF LeftOver
        <3> QED
            BY <2>1, <3>1, <3>2 DEF IsEnvelope
    <2>2. CASE e.kind # "message"
        BY <2>2 DEF Envelopes, IsEnvelope
    <2> QED
        BY <2>1, <2>2
<1>2. \A e \in Envelopes : Addressed(e) => IsEnvelope(e)
    BY <1>1 DEF Addressed, LeftOver
<1>3. ASSUME NEW i \in Instances PROVE \A n \in DOMAIN bus[i] : IsEnvelope(bus[i][n])
    <2>1. bus[i] \in Seq(Envelopes)
        BY DEF IInv, EnvelopesInv
    <2>2. DOMAIN bus[i] = 1 .. Len(bus[i]) /\ \A n \in DOMAIN bus[i] : bus[i][n] \in Envelopes
        BY <2>1
    <2> QED
        BY <1>2, <2>2 DEF IInv, EnvelopesInv
<1> QED
    BY <1>1, <1>2, <1>3 DEF IInv, StateInv, EnvelopesInv, StoredFirst, ChatTypeOK

\* The types of the state, and that no message comes back to its sender and none is published
\* before it is stored, for any number of instances and requests.
THEOREM ChatTypesHold == ChatSpec => []ChatTypeOK
BY InvariantHolds, TypesFollow, PTL

\* A reconnect never loses its entry in the table to the end of the socket that it replaced,
\* in whatever order the handlers of main.py run.
THEOREM TheNewestIsRouted == ChatSpec => []NewestIsRouted
<1>1. IInv => NewestIsRouted
    BY DEF IInv, SocketsInv, NewestIsRouted, Live
<1> QED
    BY <1>1, InvariantHolds, PTL

\* A client that opens its socket and then reads the history has each message published for it,
\* or has it coming: persist before publish leaves no gap between the history and the channel.
THEOREM NoMessageIsMissed == ChatSpec => []NothingMissed
BY InvariantHolds, PTL DEF IInv
=============================================================================
