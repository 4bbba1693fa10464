-------------------------- MODULE DeliveryContract --------------------------
(***************************************************************************)
(* What the sentiment consumer promises to the topic it reads, without     *)
(* saying how: an offset may be acknowledged only once it is settled, that *)
(* is stored in the database or waived, and an acknowledgement is never    *)
(* taken back.  "Waived" is the consumer's own admission that it gave up   *)
(* on a batch; it may change its mind about an offset until that offset is *)
(* acknowledged.                                                           *)
(***************************************************************************)
EXTENDS Naturals

CONSTANT MaxOffset      \* bound on the number of messages published

VARIABLES
    published,   \* number of messages in the topic
    owed,        \* the offsets that carry an article
    stored,      \* the offsets whose article is in the database
    waived,      \* the offsets given up on
    acked        \* offsets 1 .. acked-1 are acknowledged
cvars == <<published, owed, stored, waived, acked>>

Init ==
    /\ published = 0
    /\ owed = {}
    /\ stored = {}
    /\ waived = {}
    /\ acked = 1

Publish ==
    /\ published < MaxOffset
    /\ published' = published + 1
    /\ owed' \in {owed, owed \union {published + 1}}
    /\ UNCHANGED <<stored, waived, acked>>

\* Articles get stored; unacknowledged offsets may be waived or reclaimed.
Settle ==
    /\ stored \subseteq stored'
    /\ stored' \subseteq owed
    /\ waived' \subseteq owed
    /\ \A o \in waived : o < acked => o \in waived'
    /\ UNCHANGED <<published, owed, acked>>

Acknowledge ==
    /\ acked' \in Nat
    /\ acked' > acked
    /\ acked' <= published + 1
    /\ \A o \in owed : o < acked' => o \in stored \union waived
    /\ UNCHANGED <<published, owed, stored, waived>>

Next == Publish \/ Settle \/ Acknowledge

Spec == Init /\ [][Next]_cvars
=============================================================================
