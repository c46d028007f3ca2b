---------------------------- MODULE ClueDirectory ----------------------------
(***************************************************************************)
(* The directory of clue public keys: RegisterCluePublicKey and            *)
(* GetCluePublicKey (src/src/server.rs, src/src/cache.rs).  Handlers run   *)
(* beside each other, and each access to a sled tree is a step.  A lookup  *)
(* of a key nobody registered is answered with a decoy, a function of the  *)
(* key and of the server's pepper; every answer is signed with the attest  *)
(* secret.  Both secrets are drawn at the first lookup of a database.      *)
(***************************************************************************)
EXTENDS Integers, FiniteSets

CONSTANTS
    Nothing,     \* no row, no secret
    Registers,   \* slots for RegisterCluePublicKey handlers
    Lookups,     \* slots for GetCluePublicKey handlers
    Payees,      \* payment public keys
    ClueKeys,    \* clue public keys
    MaxVersion,  \* bound on key_version
    MaxDraws     \* bound on the secrets drawn

\* No row is not a row: rows and answers are records.
ASSUME NothingAssumption ==
    /\ Nothing \notin [version : Nat, clue : ClueKeys]
    /\ Nothing \notin [payee : Payees, version : Nat, clue : ClueKeys]
    /\ Nothing \notin Nat

VARIABLES
    rows,        \* omr_clue_pubkeys: [version |-> ..., clue |-> ...] or Nothing
    pepper,      \* META_CLUE_DIR_PEPPER
    attest,      \* unifomr_dir_attest_sk
    registers,   \* the row each running registration is about to write
    lookups,     \* each running lookup, and what it has read; seen: what had been
                 \* answered of its payee when it started (history)
    draws,       \* secrets drawn so far; each is a number of its own
    answers      \* history: the answers sent

directoryVars == <<rows, pepper, attest, registers, lookups, draws, answers>>

NoLookup == [step |-> "idle", payee |-> Nothing, attest |-> Nothing, pepper |-> Nothing,
             current |-> Nothing, body |-> Nothing, seen |-> {}]

-----------------------------------------------------------------------------
(* register_clue_public_key.                                                *)

Superseded_EqualReplaces(row, version, clue) ==
    row # Nothing /\ version < row.version

\* What store_clue_public_key makes of the row it reads: a lower version, or
\* the same one with another key, is refused.
Superseded(row, version, clue) ==
    /\ row # Nothing
    /\ version < row.version \/ (version = row.version /\ clue # row.clue)

\* A request whose proof is verified; version 0 is refused.
CheckRow(r) ==
    /\ registers[r] = Nothing
    /\ \E payee \in Payees, version \in 0 .. MaxVersion, clue \in ClueKeys :
          registers' = IF version = 0 \/ Superseded(rows[payee], version, clue) THEN registers
                       ELSE [registers EXCEPT ![r] =
                                [payee |-> payee, version |-> version, clue |-> clue]]
    /\ UNCHANGED <<rows, pepper, attest, lookups, draws, answers>>

InsertRow(r) ==
    /\ registers[r] # Nothing
    /\ rows' = [rows EXCEPT ![registers[r].payee] =
                   [version |-> registers[r].version, clue |-> registers[r].clue]]
    /\ registers' = [registers EXCEPT ![r] = Nothing]
    /\ UNCHANGED <<pepper, attest, lookups, draws, answers>>

-----------------------------------------------------------------------------
(* get_clue_public_key.                                                     *)

At(l, step) == lookups[l].step = step
Goes(l, step, changes) ==
    lookups' = [lookups EXCEPT ![l] = [f \in DOMAIN NoLookup |->
                   CASE f = "step" -> step
                     [] f # "step" /\ f \in DOMAIN changes -> changes[f]
                     [] OTHER -> lookups[l][f]]]

\* get_or_create_directory_attest_secret reads the secret.
ReadAttest(l) ==
    /\ At(l, "idle")
    /\ \E payee \in Payees :
          Goes(l, IF attest = Nothing THEN "attest" ELSE "row",
               [payee |-> payee, attest |-> attest,
                seen  |-> {a.body : a \in {b \in answers : b.payee = payee}}])
    /\ UNCHANGED <<rows, pepper, attest, registers, draws, answers>>

\* It inserts one of its own if there was none.
DrawAttest(l) ==
    /\ At(l, "attest") /\ draws < MaxDraws
    /\ draws' = draws + 1
    /\ attest' = draws'
    /\ Goes(l, "row", [attest |-> draws'])
    /\ UNCHANGED <<rows, pepper, registers, answers>>

\* get_clue_public_key_entry.
ReadRow(l) ==
    /\ At(l, "row")
    /\ IF rows[lookups[l].payee] = Nothing THEN Goes(l, "pepper", <<>>)
       ELSE Goes(l, "answer", [body |-> rows[lookups[l].payee]])
    /\ UNCHANGED <<rows, pepper, attest, registers, draws, answers>>

Decoy(payee, secret) == [decoy |-> payee, pepper |-> secret]

\* get_or_create_clue_dir_pepper: a pepper that is there is used.
ReadPepper(l) ==
    /\ At(l, "pepper")
    /\ IF pepper = Nothing THEN Goes(l, "draw", <<>>)
       ELSE Goes(l, "answer", [body |-> Decoy(lookups[l].payee, pepper)])
    /\ UNCHANGED <<rows, pepper, attest, registers, draws, answers>>

\* Else one is drawn, and what is stored now is read for the swap.
DrawPepper(l) ==
    /\ At(l, "draw") /\ draws < MaxDraws
    /\ draws' = draws + 1
    /\ Goes(l, "swap", [pepper |-> draws', current |-> pepper])
    /\ UNCHANGED <<rows, pepper, attest, registers, answers>>

\* compare_and_swap; a lost race starts over.
SwapPepper(l) ==
    /\ At(l, "swap")
    /\ IF pepper = lookups[l].current
       THEN /\ pepper' = lookups[l].pepper
            /\ Goes(l, "answer", [body |-> Decoy(lookups[l].payee, lookups[l].pepper)])
       ELSE /\ Goes(l, "pepper", <<>>)
            /\ UNCHANGED pepper
    /\ UNCHANGED <<rows, attest, registers, draws, answers>>

AnswerLookup(l) ==
    /\ At(l, "answer")
    /\ answers' = answers \cup {[payee |-> lookups[l].payee, body |-> lookups[l].body]}
    /\ lookups' = [lookups EXCEPT ![l] = NoLookup]
    /\ UNCHANGED <<rows, pepper, attest, registers, draws>>

DirectoryInit ==
    /\ rows = [p \in Payees |-> Nothing] /\ pepper = Nothing /\ attest = Nothing
    /\ registers = [r \in Registers |-> Nothing] /\ lookups = [l \in Lookups |-> NoLookup]
    /\ draws = 0 /\ answers = {}

DirectoryNext ==
    \/ \E r \in Registers : CheckRow(r) \/ InsertRow(r)
    \/ \E l \in Lookups : ReadAttest(l) \/ DrawAttest(l) \/ ReadRow(l) \/ ReadPepper(l)
                             \/ DrawPepper(l) \/ SwapPepper(l) \/ AnswerLookup(l)

-----------------------------------------------------------------------------
(* Properties.                                                              *)

Newer(body, seen) == "decoy" \in DOMAIN seen \/ body = seen
                         \/ ("version" \in DOMAIN body /\ body.version > seen.version)

\* A lookup that starts after another was answered is told the same row or a
\* newer one, and never of a decoy again once a key was told: "a lower
\* `key_version` is rejected" (cache.rs 563).  It holds of payees that register
\* one key after another, and not of two registrations beside each other, as
\* nothing between CheckRow and InsertRow keeps the second one out.
LookupsNeverGoBack ==
    \A l \in Lookups :
        At(l, "answer") => \A seen \in lookups[l].seen : Newer(lookups[l].body, seen)
=============================================================================
