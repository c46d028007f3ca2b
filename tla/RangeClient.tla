----------------------------- MODULE RangeClient -----------------------------
(***************************************************************************)
(* A wallet that pads its ranges against the server's tip while that tip   *)
(* grows (src/src/server.rs, pad_block_range and padded_range_rejection).  *)
(***************************************************************************)
EXTENDS PaddedRanges

CONSTANT MaxTip   \* bound on the heights

ASSUME MaxTipAssumption == MaxTip \in Nat /\ MaxTip < TopPower

VARIABLES
    wish,         \* the heights the wallet wants, and the tip it knows
    serverTip

rangeVars == <<wish, serverTip>>

\* A sync cycle starts: the wallet learns the tip.
StartCycle ==
    /\ \E start, end \in 0 .. MaxTip :
          start <= end /\ wish' = [start |-> start, end |-> end, tip |-> serverTip]
    /\ UNCHANGED serverTip

TipGrows ==
    /\ serverTip < MaxTip
    /\ serverTip' = serverTip + 1
    /\ UNCHANGED wish

RangeInit == wish = [start |-> 0, end |-> 0, tip |-> 0] /\ serverTip = 0
RangeNext == StartCycle \/ TipGrows
RangeSpec == RangeInit /\ [][RangeNext]_rangeVars

Padded == PadBlockRange(wish.start, wish.end, wish.tip)
Wanted == LET e == Min({wish.end, wish.tip}) IN <<Min({wish.start, e}), e>>

\* The widest bucket the chain has room for.
Room == Max({k \in PowersOf2 : k <= Min({wish.tip + 1, MaxBucket})})

\* Which padded ranges are taken: every bucket, however far the tip has grown
\* since; of a chain that had no room for a bucket, the ranges that end not more
\* than the lag below the server's tip, and no other.  A padded range covers what
\* the wallet wants when a bucket can.
PaddedRangeServed ==
    /\ Rejected(Padded[1], Padded[2], serverTip) <=>
          (wish.tip + 1 < MinSpan /\ Wanted[2] + MaxTipLag < serverTip)
    /\ (wish.tip + 1 < MinSpan \/ Wanted[2] - Wanted[1] < Room)
          => Padded[1] <= Wanted[1] /\ Wanted[2] <= Padded[2]

\* "A padded bucket the server will accept" (server.rs 216), "valid ranges are what
\* the client pad_block_range emits" (server.rs 262): whatever a wallet wants, the
\* range it pads is taken at the tip it padded at.
PaddedRangeAccepted ==
    serverTip = wish.tip => ~Rejected(Padded[1], Padded[2], serverTip)
=============================================================================
