------------------------------- MODULE MCInbox -------------------------------
(* Three messages of one member; the platform posts them again.             *)
EXTENDS Inbox, TLC

CONSTANTS m1, m2, m3, q1, q2

MCMessages == {m1, m2, m3}
\* Two submissions and another message.
MCMixes == {f \in [MCMessages -> {"silent", "chat", "submit"}] :
               f[m1] = "submit" /\ f[m2] = "submit"}
MCRequests == {q1, q2}
==============================================================================
