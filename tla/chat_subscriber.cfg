CONSTANTS
    u1 = u1
    u2 = u2
    s1 = s1
    s2 = s2
    m1 = m1
    c1 = c1
    q1 = q1
    q2 = q2
    a = a
    b = b
    Instances = {a, b}
    Users = {u1, u2}
    Sockets = {s1, s2}
    Owner <- MCOwner
    Messages = {m1}
    Sender <- MCSender
    Conversations = {c1}
    Conversation <- MCConversation
    Participants <- MCParticipants
    Requests = {q1, q2}
    At <- MCAt
    On <- MCOn
    NoSocket = NoSocket
SPECIFICATION ChatSpec
INVARIANT SubscriberLives
CHECK_DEADLOCK FALSE
