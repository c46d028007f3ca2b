------------------------------- MODULE PirBatch -------------------------------
(***************************************************************************)
(* Round 2 of detection (src/src/pir_server.rs): a wallet fetches the      *)
(* compact blocks of some heights of a window, one limb of all of them per *)
(* call, without showing which.  A ciphertext is the vector of slots it    *)
(* encrypts: the scheme's product with a plain vector is slot by slot.     *)
(***************************************************************************)
EXTENDS Integers, SequencesExt

CONSTANTS
    Degree,       \* slots per ciphertext
    MaxStripes,   \* MAX_PIR_STRIPES
    MinLimbs,     \* the smallest bucket of padded_limb_count
    MaxLimbs      \* MAX_PIR_LIMBS

ASSUME PirAssumption ==
    /\ Degree \in Nat \ {0} /\ MaxStripes \in Nat \ {0}
    /\ MinLimbs \in Nat \ {0} /\ MaxLimbs \in Nat \ {0}

LimbBytes  == 2                              \* PIR_LIMB_BYTES
MaxPayload == (MaxLimbs - 1) * LimbBytes     \* MAX_PIR_PAYLOAD_BYTES
DivCeil(n, d) == (n + d - 1) \div d

StripeCount(window) == Max({DivCeil(window, Degree), 1})

\* generate_sealpir_queries: one vector per stripe, zero where nothing is wanted.
\* Indices start at 0.
Queries(indices, window) ==
    [s \in 1 .. StripeCount(window) |->
        [i \in 1 .. Degree |-> IF (s - 1) * Degree + i - 1 \in indices THEN 1 ELSE 0]]

\* payload_limb and chunk_to_limb: the length first, one too large for a payload
\* that does not fit; then pairs of bytes, low byte first, zero beyond the end.
PayloadLimb(data, limb) ==
    LET ByteAt(k) == IF k <= Len(data) THEN data[k] ELSE 0
        off == (limb - 1) * LimbBytes
    IN  IF limb = 0 THEN Min({Len(data), MaxPayload + 1})
        ELSE ByteAt(off + 1) + 256 * ByteAt(off + 2)

LimbColumn(payloads, limb) == [i \in DOMAIN payloads |-> PayloadLimb(payloads[i], limb)]

\* evaluate_sealpir_stripes: stripe s of the column, padded with zeros, times
\* query s.
EvaluateStripes(queries, column, window) ==
    [s \in 1 .. StripeCount(window) |->
        [i \in 1 .. Degree |->
            LET g == (s - 1) * Degree + i
            IN  queries[s][i] * (IF g <= Min({window, Len(column)}) THEN column[g] ELSE 0)]]

\* decrypt_sealpir_stripes.
DecryptStripes(responses, window) ==
    [g \in 1 .. window |-> responses[(g - 1) \div Degree + 1][((g - 1) % Degree) + 1]]

\* pir_payload_limb_count: 0 for a length that no payload has.
LimbCount(len) == IF len = 0 \/ len > MaxPayload THEN 0 ELSE 1 + DivCeil(len, LimbBytes)

\* No divisor but 1 is odd.
PowerOf2(k) == \A d \in 2 .. k : k % d = 0 => d % 2 = 0

\* padded_limb_count: the next power of two, but no more than MaxLimbs.
PaddedLimbCount(needed) ==
    LET n == Min({Max({needed, MinLimbs}), MaxLimbs})
    IN  Min({MaxLimbs} \cup {k \in n .. MaxLimbs : PowerOf2(k)})

\* decode_length_prefixed_limbs and limbs_to_bytes.
DecodeLimbs(limbs) ==
    IF LimbCount(limbs[1]) = 0 \/ Len(limbs) < LimbCount(limbs[1]) THEN <<>>
    ELSE [k \in 1 .. limbs[1] |->
             LET limb == limbs[1 + DivCeil(k, LimbBytes)]
             IN  IF k % 2 = 1 THEN limb % 256 ELSE (limb \div 256) % 256]

\* One call after the other for the indices: limb 0 first, then as many as the
\* longest of the payloads needs, rounded up (assemble_payloads).
Round2(payloads, indices) ==
    LET window  == Len(payloads)
        Col(l)  == DecryptStripes(EvaluateStripes(Queries(indices, window),
                                                  LimbColumn(payloads, l), window), window)
        needed  == Max({LimbCount(Col(0)[i + 1]) : i \in indices})
        cols    == [l \in 0 .. PaddedLimbCount(needed) - 1 |-> Col(l)]
    IN  [i \in indices |->
            DecodeLimbs([l \in 1 .. PaddedLimbCount(needed) |-> cols[l - 1][i + 1]])]
=============================================================================
