----------------------------- MODULE PaddedRanges -----------------------------
(***************************************************************************)
(* The ranges a client may ask for (src/src/server.rs): how a wallet pads  *)
(* one to a bucket that hides its cursor, and which ones the server takes. *)
(* Both sides are pure; what separates them is that the wallet pads at the *)
(* tip it knows and the server judges at its own, later, tip.              *)
(***************************************************************************)
EXTENDS Integers, FiniteSetsExt

CONSTANTS
    MinSpan,     \* MIN_PADDED_RANGE_SPAN, a power of two
    MaxBucket,   \* MAX_BUCKET, the largest power of two up to MaxBlocks
    MaxBlocks,   \* MAX_BLOCKS_PER_REQUEST
    MaxTipLag    \* MAX_PADDED_TIP_LAG

\* Heights of this model are below 2 ^ 30.
TopPower  == 2 ^ 30
PowersOf2 == {2 ^ e : e \in 0 .. 30}

\* Arithmetic: the provers do not know exponentiation.
ASSUME PowerAssumption ==
    /\ 2 ^ 0 = 1
    /\ \A e \in 0 .. 30 : 2 ^ e \in Nat \ {0} /\ 2 ^ e <= 2 ^ 30

ASSUME BucketAssumption ==
    /\ MinSpan \in PowersOf2 /\ MaxBucket \in PowersOf2
    /\ MinSpan <= MaxBucket /\ MaxBucket <= MaxBlocks
    /\ MaxBlocks \in Nat /\ MaxTipLag \in Nat

NextPow2(n) == Min({k \in PowersOf2 : k >= n})

\* pad_block_range.  Too wide a span is halved until the chain has room for it.
PadBlockRange(start, end, tip) ==
    LET e    == Min({end, tip})
        s    == Min({start, e})
        want == Min({NextPow2(Max({e - s + 1, MinSpan})), MaxBucket})
        span == IF want <= tip + 1 THEN want ELSE Max({k \in PowersOf2 : k <= tip + 1})
    IN  CASE span < MinSpan -> <<0, e>>
          [] span >= MinSpan /\ e + 1 >= span -> <<e + 1 - span, e>>
          [] OTHER -> <<0, span - 1>>

Rejected_NoLag(start, end, tip) ==
    \/ start > end \/ end > tip \/ end - start + 1 > MaxBlocks
    \/ LET span == end - start + 1
       IN  /\ ~ (span >= MinSpan /\ span \in PowersOf2)
           /\ \/ start % Max({NextPow2(Max({span, MinSpan})) \div 2, MinSpan}) # 0
              \/ end < tip

\* padded_range_rejection: a bucket, or the aligned start of one that was cut
\* short at a tip not far behind the server's.
Rejected(start, end, tip) ==
    \/ start > end \/ end > tip \/ end - start + 1 > MaxBlocks
    \/ LET span == end - start + 1
       IN  /\ ~ (span >= MinSpan /\ span \in PowersOf2)
           /\ \/ start % Max({NextPow2(Max({span, MinSpan})) \div 2, MinSpan}) # 0
              \/ end + MaxTipLag < tip
=============================================================================
