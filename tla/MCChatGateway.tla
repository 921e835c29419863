--------------------------- MODULE MCChatGateway ---------------------------
(* ChatGateway for TLC: a conversation of two, one of whom connects twice. *)
EXTENDS ChatGateway, TLC

CONSTANTS u1, u2, s1, s2, m1, c1, q1, q2, a, b

MCOwner == s1 :> u2 @@ s2 :> u2
MCSender == m1 :> u1
MCConversation == m1 :> c1
MCParticipants == c1 :> {u1, u2}
MCAt == s1 :> a @@ s2 :> a
MCOn == q1 :> a @@ q2 :> b
=============================================================================
