------------------------------ MODULE Mailbox -------------------------------
(***************************************************************************)
(* What a MsgTask promises to those who send it messages: every message    *)
(* that is accepted is handled, one at a time and in the order of          *)
(* acceptance, until the mailbox is closed; then at most the messages      *)
(* accepted before are handled, and the rest are discarded together.       *)
(***************************************************************************)
EXTENDS Naturals, Sequences

CONSTANT MaxMsg    \* bound: messages ever sent; a message is its number

VARIABLES
    sent,      \* messages sent so far
    box,       \* messages accepted and not handled yet, in order
    busy,      \* the message being handled, 0 if none
    closed,    \* no more messages are accepted
    refused    \* messages that were not accepted

mailVars == <<sent, box, busy, closed, refused>>

MailInit ==
    /\ sent = 0
    /\ box = <<>>
    /\ busy = 0
    /\ closed = FALSE
    /\ refused = {}

Send ==
    /\ sent < MaxMsg
    /\ sent' = sent + 1
    /\ \/ ~ closed /\ box' = Append(box, sent') /\ UNCHANGED refused
       \/ closed /\ refused' = refused \cup {sent'} /\ UNCHANGED box
    /\ UNCHANGED <<busy, closed>>

Handle ==
    /\ busy = 0
    /\ box # <<>>
    /\ busy' = Head(box)
    /\ box' = Tail(box)
    /\ UNCHANGED <<sent, closed, refused>>

Finish ==
    /\ busy # 0
    /\ busy' = 0
    /\ UNCHANGED <<sent, box, closed, refused>>

Close ==
    /\ ~ closed
    /\ closed' = TRUE
    /\ UNCHANGED <<sent, box, busy, refused>>

Discard ==
    /\ closed
    /\ busy = 0
    /\ box' = <<>>
    /\ UNCHANGED <<sent, busy, closed, refused>>

MailNext == Send \/ Handle \/ Finish \/ Close \/ Discard

MailSpec == MailInit /\ [][MailNext]_mailVars
=============================================================================
