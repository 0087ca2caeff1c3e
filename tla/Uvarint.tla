-------------------------------- MODULE Uvarint --------------------------------
(***************************************************************************)
(* read_uvarint (lib.rs:104-121): the variable-length integers of a        *)
(* tar-diff, least significant group first.  The code's u64 and 7 bits per *)
(* byte are the parameters Width and Group; a byte is its continuation bit *)
(* and its group.                                                          *)
(***************************************************************************)
EXTENDS SequencesExt

CONSTANTS Width, Group,
          MaxBytes      \* bound on the length of the inputs

VARIABLES unread,       \* the bytes the reader still holds
          consumed,     \* those it gave out
          result, shift,
          outcome       \* "reading", "ok" or "error"

vars == <<unread, consumed, result, shift, outcome>>

\* 2^n, which is 1 << n.
TwoTo(n) ==
  LET power[m \in 0..n] == IF m = 0 THEN 1 ELSE 2 * power[m - 1]
  IN power[n]

MaxValue == TwoTo(Width) - 1

Bytes == [more : BOOLEAN, bits : 0..TwoTo(Group) - 1]

Init ==
  /\ unread \in SeqOf(Bytes, MaxBytes)
  /\ consumed = <<>> /\ result = 0 /\ shift = 0
  /\ outcome = "reading"

\* Variant: only the shift is compared.
FitsShift(bits) == shift < Width

\* bits << shift keeps all of its bits.
Fits(bits) == shift < Width /\ bits <= MaxValue \div TwoTo(shift)

ReadByte ==
  /\ outcome = "reading" /\ unread # <<>>
  /\ LET byte == Head(unread)
     IN /\ unread' = Tail(unread)
        /\ consumed' = Append(consumed, byte)
        /\ IF Fits(byte.bits)
             THEN /\ result' = (result + byte.bits * TwoTo(shift)) % TwoTo(Width)
                  /\ shift' = IF byte.more THEN shift + Group ELSE shift
                  /\ outcome' = IF byte.more THEN "reading" ELSE "ok"
             ELSE outcome' = "error" /\ UNCHANGED <<result, shift>>

EndOfInput ==
  /\ outcome = "reading" /\ unread = <<>>
  /\ outcome' = "error"
  /\ UNCHANGED <<unread, consumed, result, shift>>

Next == ReadByte \/ EndOfInput \/ (outcome # "reading" /\ UNCHANGED vars)

Spec == Init /\ [][Next]_vars

-----------------------------------------------------------------------------
(* Properties *)

\* What an encoding stands for, without a limit.
Value(bytes) ==
  LET upto[n \in 0..Len(bytes)] ==
        IF n = 0 THEN 0 ELSE upto[n - 1] + bytes[n].bits * TwoTo(Group * (n - 1))
  IN upto[Len(bytes)]

Complete(bytes) ==
  /\ bytes # <<>> /\ ~Last(bytes).more
  /\ \A k \in 1..(Len(bytes) - 1) : bytes[k].more

\* A number that does not fit is never cut to one that does: success returns
\* what the bytes stand for, and an error means that they end early, or that
\* the number is too large, or padded with more groups than a number can need.
\* Nothing is read past the integer, where the op's payload begins, and an
\* endless run of continuation bytes ends (lib.rs:107-119).
DecodesExactly ==
  /\ outcome = "ok" => Complete(consumed) /\ result = Value(consumed) /\ result <= MaxValue
  /\ outcome = "error" =>
       \/ ~Complete(consumed) /\ unread = <<>>
       \/ Value(consumed) > MaxValue
       \/ (Len(consumed) - 1) * Group >= Width
  /\ \A k \in 1..(Len(consumed) - 1) : consumed[k].more
  /\ (Len(consumed) - 2) * Group < Width

=============================================================================
