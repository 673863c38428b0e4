-------------------------- MODULE AttributeChannel --------------------------
(***************************************************************************)
(* What the library promises end to end, without bytes: attributes go in one *)
(* after the other, a seal fixes the message up to and including itself, and *)
(* once the message is sent the reader gets, in order and exactly once each,  *)
(* the attributes of the sealed part, or all of them if nothing was sealed.   *)
(* A message may be cut short on its way, and then the reader gets nothing.    *)
(***************************************************************************)
EXTENDS Naturals, Sequences

CONSTANTS
    Plain,    \* attribute headers a caller may add
    Seals     \* the headers of the sealing attributes

VARIABLES
    log,        \* the attributes added, in order
    sealed,     \* how many of them the last seal covers; 0 if there is none
    sent,       \* "no", or whether the message is on its way "whole" or "cut"
    received    \* the messages the reader got, each a list of attributes

channelVars == <<log, sealed, sent, received>>

Init ==
    /\ log = <<>>
    /\ sealed = 0
    /\ sent = "no"
    /\ received = <<>>

Add(a) ==
    /\ sent = "no"
    /\ log' = Append(log, a)
    /\ UNCHANGED <<sealed, sent, received>>

Seal(s) ==
    /\ sent = "no"
    /\ log' = Append(log, s)
    /\ sealed' = Len(log')
    /\ UNCHANGED <<sent, received>>

Send ==
    /\ sent = "no"
    /\ sent' \in {"whole", "cut"}
    /\ UNCHANGED <<log, sealed, received>>

Deliver ==
    /\ sent = "whole" /\ received = <<>>
    /\ received' = <<IF sealed = 0 THEN log ELSE SubSeq(log, 1, sealed)>>
    /\ UNCHANGED <<log, sealed, sent>>

Next ==
    \/ \E a \in Plain : Add(a)
    \/ \E s \in Seals : Seal(s)
    \/ Send
    \/ Deliver

(* A message that was sent whole is eventually delivered. *)
Spec == Init /\ [][Next]_channelVars /\ WF_channelVars(Deliver)
=============================================================================
