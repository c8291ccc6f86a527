----------------------------- MODULE ByteStream -----------------------------
(***************************************************************************)
(* What a device backend's u_read promises the protocol layer above it:   *)
(* the bytes the handheld sends come out in order, none invented, none    *)
(* repeated by a normal read; a read fails with a timeout only when       *)
(* nothing is waiting, and with EOF or an error only once the handheld is *)
(* gone and everything before that was read.  Unplugging may lose the     *)
(* bytes still in transit but never reorders them.                        *)
(*                                                                         *)
(* PeekKeeps says whether a PI_MSG_PEEK read must leave the bytes it      *)
(* returns for the next read (TRUE), or may also consume them (FALSE).    *)
(***************************************************************************)
EXTENDS Naturals, Sequences

CONSTANTS Byte, PeekKeeps

VARIABLES
  unread,   \* bytes sent by the handheld and not yet consumed by a read
  present,  \* the handheld is plugged in
  reply     \* what the last read returned to its caller

vars == <<unread, present, reply>>

NoReply == [res |-> "none", flag |-> "normal", data |-> <<>>]

Init == unread = <<>> /\ present = TRUE /\ reply = NoReply

Arrive ==
  /\ present
  /\ \E b \in Byte : unread' = Append(unread, b)
  /\ UNCHANGED <<present, reply>>

HangUp ==
  /\ present = TRUE /\ present' = FALSE
  /\ \E k \in 0..Len(unread) : unread' = SubSeq(unread, 1, k)
  /\ UNCHANGED reply

Deliver(f) ==
  \E n \in 1..Len(unread) :
    /\ reply' = [res |-> "ok", flag |-> f, data |-> SubSeq(unread, 1, n)]
    /\ \/ f = "peek" /\ unread' = unread
       \/ (f = "normal" \/ ~PeekKeeps) /\ unread' = SubSeq(unread, n + 1, Len(unread))
    /\ UNCHANGED present

Timeout(f) ==
  /\ present /\ unread = <<>>
  /\ reply' = [res |-> "timeout", flag |-> f, data |-> <<>>]
  /\ UNCHANGED <<unread, present>>

EndOfStream(f) ==
  /\ ~present /\ unread = <<>>
  /\ \E r \in {"eof", "error"} : reply' = [res |-> r, flag |-> f, data |-> <<>>]
  /\ UNCHANGED <<unread, present>>

Next ==
  \/ Arrive \/ HangUp
  \/ \E f \in {"normal", "peek"} : Deliver(f) \/ Timeout(f) \/ EndOfStream(f)

Spec == Init /\ [][Next]_vars
=============================================================================
