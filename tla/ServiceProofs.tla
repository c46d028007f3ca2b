---------------------------- MODULE ServiceProofs ----------------------------
(***************************************************************************)
(* What the handlers of the service tell a wallet never goes back: proofs  *)
(* about TipFacts and ClueDirectory, for any number of handlers.  And that *)
(* the server takes the ranges its wallets pad, for all heights and spans. *)
(***************************************************************************)
EXTENDS TipFacts, ClueDirectory, RangeClient, WellFoundedInduction, TLAPS

-----------------------------------------------------------------------------
(* Tip facts.                                                               *)

FactsSpec == FactsInit /\ [][FactsNext]_factVars

\* A fact for a tip is one that was told at or after the change that made it.
FactsFor(known, tip) ==
    /\ known \in [FactKinds -> Int \cup {NotKnown}]
    /\ \A k \in FactKinds : known[k] # NotKnown => known[k] >= tip

RequestType == [step : {"idle", "load", "rpc", "next", "done"}, tip : Int \cup {NotKnown},
                fact : FactKinds, since : Int, got : [FactKinds -> Int \cup {NotKnown}]]

RequestInv(q) ==
    /\ q \in RequestType
    /\ q.step = "idle" => q = NoRequest
    /\ q.step # "idle" => q.tip \in Int /\ q.tip <= changes /\ FactsFor(q.got, q.tip)
    /\ q.step = "rpc" => q.since >= q.tip

\* The strengthening: the tips in use are ones darkfid has had, and the kept
\* facts belong to their tip.
FactsInv ==
    /\ changes \in Nat /\ cachedTip \in 0 .. changes
    /\ facts # NotKnown => /\ facts \in [tip : Int, known : [FactKinds -> Int \cup {NotKnown}]]
                           /\ FactsFor(facts.known, facts.tip)
    /\ DOMAIN requests = Requests
    /\ \A r \in Requests : RequestInv(requests[r])

LEMMA BlankRequest == RequestInv(NoRequest)
<1>1. Unknown \in [FactKinds -> Int \cup {NotKnown}]
    BY DEF Unknown
<1>2. NoRequest \in RequestType
    BY <1>1 DEF NoRequest, RequestType, FactKinds
<1>3. NoRequest.step = "idle"
    BY DEF NoRequest
<1> QED
    BY <1>2, <1>3 DEF RequestInv

LEMMA FactsStart == FactsInit => FactsInv
<1> SUFFICES ASSUME FactsInit PROVE FactsInv
    OBVIOUS
<1> QED
    BY BlankRequest DEF FactsInit, FactsInv

\* A request that keeps its tip and has a fact for it is still a good one.
LEMMA FactKept ==
    ASSUME FactsInv, NEW r \in Requests, requests[r].step # "idle",
           NEW v \in Int \cup {NotKnown}, v # NotKnown => v >= requests[r].tip
    PROVE  RequestInv(AfterFact(requests[r], v)) /\ RequestInv([AfterFact(requests[r], v) EXCEPT !.since = 0])
<1> DEFINE q == requests[r]
           g == [q EXCEPT !.got[q.fact] = v]
<1>1. RequestInv(q)
    BY DEF FactsInv
<1>2. /\ g.step = q.step /\ g.tip = q.tip /\ g.fact = q.fact /\ g.since = q.since
      /\ g.got = [q.got EXCEPT ![q.fact] = v]
      /\ g \in RequestType
    BY <1>1 DEF RequestInv, RequestType
<1>3. FactsFor(g.got, g.tip) /\ g.tip \in Int /\ g.tip <= changes
    BY <1>1, <1>2 DEF RequestInv, RequestType, FactsFor
<1>4. ASSUME NEW s \in {"next", "done"}, NEW a, a = [g EXCEPT !.step = s]
      PROVE  RequestInv(a) /\ RequestInv([a EXCEPT !.since = 0])
    <2> HIDE DEF q, g
    <2>1. /\ a \in RequestType /\ a.step = s /\ a.tip = g.tip /\ a.got = g.got
          /\ s # "idle" /\ s # "rpc"
        BY <1>2, <1>4 DEF RequestType
    <2> DEFINE z == [a EXCEPT !.since = 0]
    <2>2. z \in RequestType /\ z.step = s /\ z.tip = g.tip /\ z.got = g.got
        BY <2>1 DEF RequestType
    <2> HIDE DEF z
    <2>3. RequestInv(a) /\ RequestInv(z)
        BY <1>3, <2>1, <2>2 DEF RequestInv
    <2> QED
        BY <2>3 DEF z
<1>5. AfterFact(q, v) \in {[g EXCEPT !.step = "next"], [g EXCEPT !.step = "done"]}
    BY DEF AfterFact
<1> HIDE DEF g
<1> QED
    BY <1>4, <1>5

LEMMA FactsStep == FactsInv /\ [FactsNext]_factVars => FactsInv'
<1> SUFFICES ASSUME FactsInv, [FactsNext]_factVars PROVE FactsInv'
    OBVIOUS
<1> USE NotKnownAssumption
<1>0. CASE UNCHANGED factVars
    BY <1>0 DEF FactsInv, RequestInv, factVars
<1>1. CASE DarkfidMoves
    BY <1>1 DEF DarkfidMoves, FactsInv, RequestInv
<1>2. CASE TipMoves
    BY <1>2 DEF TipMoves, FactsInv, RequestInv
<1>3. ASSUME NEW r \in Requests, StartFacts(r) PROVE FactsInv'
    <2> DEFINE q == [NoRequest EXCEPT !.step = "load", !.tip = cachedTip]
    <2>a. NoRequest \in RequestType /\ NoRequest.got = Unknown /\ cachedTip \in Int
        BY BlankRequest DEF FactsInv, RequestInv, NoRequest
    <2>1. q.step = "load" /\ q.tip = cachedTip /\ q.got = Unknown /\ q \in RequestType
        BY <2>a DEF RequestType
    <2>2. FactsFor(Unknown, cachedTip)
        BY DEF FactsFor, Unknown
    <2>3. RequestInv(q)
        <3> HIDE DEF q
        <3> QED
            BY <2>1, <2>2 DEF RequestInv, FactsInv
    <2> QED
        BY <1>3, <2>3 DEF StartFacts, FactsInv, RequestInv
<1>4. ASSUME NEW r \in Requests, LoadFact(r) PROVE FactsInv'
    <2>1. CASE Hit(requests[r].tip, requests[r].fact)
        <3>1. RequestInv(AfterFact(requests[r], facts.known[requests[r].fact]))
            <4>1. RequestInv(requests[r]) /\ requests[r].step # "idle"
                BY <1>4 DEF LoadFact, FactsInv
            <4>2. /\ facts.known[requests[r].fact] \in Int \cup {NotKnown}
                  /\ facts.known[requests[r].fact] >= requests[r].tip
                BY <2>1, <4>1 DEF Hit, FactsInv, FactsFor, RequestInv, RequestType
            <4> QED
                BY <4>1, <4>2, FactKept
        <3> QED
            BY <1>4, <2>1, <3>1 DEF LoadFact, FactsInv, RequestInv
    <2>2. CASE ~ Hit(requests[r].tip, requests[r].fact)
        <3> DEFINE q == [requests[r] EXCEPT !.step = "rpc", !.since = changes]
        <3>a. RequestInv(requests[r]) /\ requests[r].step = "load" /\ changes \in Int
            BY <1>4 DEF LoadFact, FactsInv
        <3>b. /\ q \in RequestType /\ q.step = "rpc" /\ q.since = changes
              /\ q.tip = requests[r].tip /\ q.got = requests[r].got
            BY <3>a DEF RequestInv, RequestType
        <3>1. RequestInv(q)
            <4> HIDE DEF q
            <4> QED
                BY <3>a, <3>b DEF RequestInv
        <3> QED
            BY <1>4, <2>2, <3>1 DEF LoadFact, FactsInv, RequestInv
    <2> QED
        BY <2>1, <2>2
<1>5. ASSUME NEW r \in Requests, FactTold(r) PROVE FactsInv'
    <2>1. PICK told \in requests[r].since .. changes :
              /\ facts' = StoreFact(requests[r].tip, requests[r].fact, told)
              /\ requests' = [requests EXCEPT ![r] = [AfterFact(@, told) EXCEPT !.since = 0]]
        BY <1>5 DEF FactTold
    <2>2. RequestInv(requests[r]) /\ requests[r].step = "rpc" /\ told \in Int
              /\ told >= requests[r].tip
        BY <1>5 DEF FactTold, FactsInv, RequestInv, RequestType
    <2>3. RequestInv([AfterFact(requests[r], told) EXCEPT !.since = 0])
        BY <2>2, FactKept
    <2>4. /\ facts' \in [tip : Int, known : [FactKinds -> Int \cup {NotKnown}]]
          /\ FactsFor(facts'.known, facts'.tip)
        BY <2>1, <2>2 DEF StoreFact, FactsInv, FactsFor, RequestInv, RequestType, Unknown
    <2> QED
        BY <1>5, <2>1, <2>3, <2>4 DEF FactTold, FactsInv, RequestInv
<1>6. ASSUME NEW r \in Requests, FactFails(r) PROVE FactsInv'
    <2>1. RequestInv([AfterFact(requests[r], NotKnown) EXCEPT !.since = 0])
        BY <1>6, FactKept DEF FactFails
    <2> QED
        BY <1>6, <2>1 DEF FactFails, FactsInv, RequestInv
<1>7. ASSUME NEW r \in Requests, AskDifficulty(r) PROVE FactsInv'
    <2> DEFINE q == [requests[r] EXCEPT !.step = "load", !.fact = "difficulty"]
    <2>1. RequestInv(requests[r]) /\ requests[r].step = "next"
        BY <1>7 DEF AskDifficulty, FactsInv
    <2>2. /\ q \in RequestType /\ q.step = "load"
          /\ q.tip = requests[r].tip /\ q.got = requests[r].got
        BY <2>1 DEF RequestInv, RequestType, FactKinds
    <2>3. RequestInv(q)
        <3> HIDE DEF q
        <3> QED
            BY <2>1, <2>2 DEF RequestInv
    <2>4. requests' = [requests EXCEPT ![r] = q]
        BY <1>7 DEF AskDifficulty
    <2> HIDE DEF q
    <2> QED
        BY <1>7, <2>3, <2>4 DEF AskDifficulty, FactsInv, RequestInv
<1>8. ASSUME NEW r \in Requests, AnswerFacts(r) PROVE FactsInv'
    <2> QED
        BY <1>8, BlankRequest DEF AnswerFacts, FactsInv, RequestInv
<1> QED
    BY <1>0, <1>1, <1>2, <1>3, <1>4, <1>5, <1>6, <1>7, <1>8 DEF FactsNext

\* No handler tells its client, beside a tip, a fact darkfid told before it had
\* that tip (load_tip_fact), for any number of handlers and any moves of the tip.
THEOREM FactsNeverOlder == FactsSpec => []FactsNotOlder
<1>1. FactsInv => FactsNotOlder
    BY NotKnownAssumption DEF FactsInv, RequestInv, FactsFor, FactsNotOlder, NoRequest, Unknown
<1> QED
    BY <1>1, FactsStart, FactsStep, PTL DEF FactsSpec

-----------------------------------------------------------------------------
(* The clue directory.                                                      *)

DirectorySpec == DirectoryInit /\ [][DirectoryNext]_directoryVars

\* Nothing keeps a second registration out between CheckRow and InsertRow.
OneRegistration == \A r, s \in Registers : r = s

StoredRow    == [version : Nat, clue : ClueKeys]
Registration == [payee : Payees, version : Nat, clue : ClueKeys]
IsDecoy(body) == "decoy" \in DOMAIN body

\* A body a client may know of a payee: a decoy, the row, or one it replaced.
Told(p, body) ==
    \/ IsDecoy(body)
    \/ /\ body \in StoredRow /\ rows[p] \in StoredRow
       /\ rows[p] = body \/ rows[p].version > body.version

LookupInv(q) ==
    /\ DOMAIN q = DOMAIN NoLookup
    /\ q.step # "idle" => q.payee \in Payees /\ \A s \in q.seen : Told(q.payee, s)
    /\ q.step \in {"pepper", "draw", "swap"} => \A s \in q.seen : IsDecoy(s)
    /\ q.step = "answer" => Told(q.payee, q.body) /\ \A s \in q.seen : Newer(q.body, s)

\* The strengthening: a registration in progress still goes forward, and all
\* that was told is behind the row.
DirectoryInv ==
    /\ rows \in [Payees -> StoredRow \cup {Nothing}]
    /\ registers \in [Registers -> Registration \cup {Nothing}]
    /\ \A r \in Registers : registers[r] # Nothing =>
          ~Superseded(rows[registers[r].payee], registers[r].version, registers[r].clue)
    /\ \A a \in answers : a.payee \in Payees /\ Told(a.payee, a.body)
    /\ DOMAIN lookups = Lookups
    /\ \A l \in Lookups : LookupInv(lookups[l])

LEMMA IdleLookup == LookupInv(NoLookup)
    BY DEF LookupInv, NoLookup

LEMMA DirectoryStart == DirectoryInit => DirectoryInv
    BY IdleLookup, NothingAssumption DEF DirectoryInit, DirectoryInv, StoredRow, Registration

\* What Goes makes of a lookup, field by field.
LEMMA GoesShape ==
    ASSUME DOMAIN lookups = Lookups, NEW l \in Lookups, NEW step, NEW fields,
           Goes(l, step, fields)
    PROVE  \E q : /\ lookups' = [lookups EXCEPT ![l] = q]
                  /\ DOMAIN q = DOMAIN NoLookup
                  /\ q.step = step
                  /\ q.payee = IF "payee" \in DOMAIN fields THEN fields["payee"] ELSE lookups[l].payee
                  /\ q.body = IF "body" \in DOMAIN fields THEN fields["body"] ELSE lookups[l].body
                  /\ q.seen = IF "seen" \in DOMAIN fields THEN fields["seen"] ELSE lookups[l].seen
<1> DEFINE q == [f \in DOMAIN NoLookup |->
                   CASE f = "step" -> step
                     [] f # "step" /\ f \in DOMAIN fields -> fields[f]
                     [] OTHER -> lookups[l][f]]
<1>1. {"step", "payee", "body", "seen"} \subseteq DOMAIN NoLookup
    BY DEF NoLookup
<1>2. lookups' = [lookups EXCEPT ![l] = q]
    BY DEF Goes
<1>3. DOMAIN q = DOMAIN NoLookup /\ q.step = step
    BY <1>1
<1>4. q.payee = IF "payee" \in DOMAIN fields THEN fields["payee"] ELSE lookups[l].payee
    BY <1>1
<1>5. q.body = IF "body" \in DOMAIN fields THEN fields["body"] ELSE lookups[l].body
    BY <1>1
<1>6. q.seen = IF "seen" \in DOMAIN fields THEN fields["seen"] ELSE lookups[l].seen
    BY <1>1
<1> HIDE DEF q
<1> QED
    BY <1>2, <1>3, <1>4, <1>5, <1>6

\* Moving to a step that reads nothing new about the payee keeps a lookup good.
LEMMA PlainStep ==
    ASSUME DirectoryInv, NEW l \in Lookups, NEW step, NEW fields, Goes(l, step, fields),
           UNCHANGED <<rows, registers, answers>>,
           lookups[l].step # "idle", step \in {"row", "pepper", "draw", "swap"},
           "payee" \notin DOMAIN fields, "seen" \notin DOMAIN fields,
           step # "row" => \A s \in lookups[l].seen : IsDecoy(s)
    PROVE  DirectoryInv'
<1>1. PICK q : /\ lookups' = [lookups EXCEPT ![l] = q]
               /\ DOMAIN q = DOMAIN NoLookup
               /\ q.step = step
               /\ q.payee = lookups[l].payee
               /\ q.seen = lookups[l].seen
    BY GoesShape DEF DirectoryInv
<1>2. LookupInv(q)
    BY <1>1 DEF LookupInv, DirectoryInv
<1> QED
    BY <1>1, <1>2 DEF DirectoryInv, LookupInv, Told

\* An answer that is decided on now.
LEMMA AnswerStep ==
    ASSUME DirectoryInv, NEW l \in Lookups, NEW body, Goes(l, "answer", [body |-> body]),
           UNCHANGED <<rows, registers, answers>>,
           lookups[l].step # "idle", Told(lookups[l].payee, body),
           \A s \in lookups[l].seen : Newer(body, s)
    PROVE  DirectoryInv'
<1>0. DOMAIN [body |-> body] = {"body"} /\ [body |-> body]["body"] = body
    OBVIOUS
<1>1. PICK q : /\ lookups' = [lookups EXCEPT ![l] = q]
               /\ DOMAIN q = DOMAIN NoLookup
               /\ q.step = "answer"
               /\ q.payee = lookups[l].payee
               /\ q.body = body
               /\ q.seen = lookups[l].seen
    BY <1>0, GoesShape DEF DirectoryInv
<1>2. LookupInv(q)
    BY <1>1 DEF LookupInv, DirectoryInv
<1> QED
    BY <1>1, <1>2 DEF DirectoryInv, LookupInv, Told

\* Writing a row leaves everything that was told behind it.
LEMMA RowGrows ==
    ASSUME DirectoryInv, NEW r \in Registers, InsertRow(r), NEW p \in Payees, NEW body, Told(p, body)
    PROVE  Told(p, body)'
<1> DEFINE reg == registers[r]
           new == [version |-> reg.version, clue |-> reg.clue]
<1>1. reg \in Registration /\ ~Superseded(rows[reg.payee], reg.version, reg.clue)
    BY DEF InsertRow, DirectoryInv
<1>2. new \in StoredRow /\ rows' = [rows EXCEPT ![reg.payee] = new]
    BY <1>1 DEF InsertRow, Registration, StoredRow
<1>3. CASE p # reg.payee \/ IsDecoy(body)
    BY <1>2, <1>3 DEF Told, DirectoryInv
<1>4. CASE p = reg.payee /\ ~IsDecoy(body)
    <2>1. body \in StoredRow /\ rows[p] \in StoredRow /\ rows[p] # Nothing
        BY <1>4, NothingAssumption DEF Told, StoredRow
    <2>2. new.version > rows[p].version \/ (new.version = rows[p].version /\ new.clue = rows[p].clue)
        BY <1>1, <1>4, <2>1 DEF Superseded, StoredRow, Registration
    <2>3. new.version > rows[p].version \/ new = rows[p]
        BY <2>1, <2>2 DEF StoredRow
    <2>4. rows'[p] = new
        BY <1>2, <1>4 DEF DirectoryInv
    <2>5. new.version \in Int /\ rows[p].version \in Int /\ body.version \in Int
        BY <1>2, <2>1 DEF StoredRow
    <2>6. rows[p] = body \/ rows[p].version > body.version
        BY <1>4 DEF Told
    <2> HIDE DEF new
    <2>7. new = body \/ new.version > body.version
        BY <2>3, <2>5, <2>6
    <2> QED
        BY <1>2, <2>1, <2>4, <2>7 DEF Told
<1> QED
    BY <1>3, <1>4

LEMMA DirectoryStep ==
    ASSUME OneRegistration, DirectoryInv, [DirectoryNext]_directoryVars
    PROVE  DirectoryInv'
<1> USE NothingAssumption
<1>0. CASE UNCHANGED directoryVars
    BY <1>0 DEF DirectoryInv, LookupInv, Told, directoryVars
<1>1. ASSUME NEW r \in Registers, CheckRow(r) PROVE DirectoryInv'
    <2>1. PICK payee \in Payees, version \in 0 .. MaxVersion, clue \in ClueKeys :
              registers' = IF version = 0 \/ Superseded(rows[payee], version, clue) THEN registers
                           ELSE [registers EXCEPT ![r] =
                                    [payee |-> payee, version |-> version, clue |-> clue]]
        BY <1>1 DEF CheckRow
    <2>2. CASE registers' = registers
        BY <1>1, <2>2 DEF CheckRow, DirectoryInv, LookupInv, Told
    <2>3. CASE registers' # registers
        <3> DEFINE reg == [payee |-> payee, version |-> version, clue |-> clue]
        <3>1. /\ registers' = [registers EXCEPT ![r] = reg]
              /\ ~Superseded(rows[payee], version, clue)
            BY <2>1, <2>3
        <3>2. /\ reg \in Registration /\ reg.payee = payee /\ reg.version = version
              /\ reg.clue = clue
            BY DEF Registration
        <3> HIDE DEF reg
        <3>3. \A s \in Registers : registers'[s] = reg
            BY <3>1 DEF OneRegistration, DirectoryInv
        <3> QED
            BY <1>1, <3>1, <3>2, <3>3 DEF CheckRow, DirectoryInv, LookupInv, Told, Superseded
    <2> QED
        BY <2>2, <2>3
<1>2. ASSUME NEW r \in Registers, InsertRow(r) PROVE DirectoryInv'
    <2>1. \A s \in Registers : registers'[s] = Nothing
        BY <1>2 DEF InsertRow, OneRegistration, DirectoryInv
    <2>2. /\ registers' \in [Registers -> Registration \cup {Nothing}]
          /\ rows' \in [Payees -> StoredRow \cup {Nothing}]
        BY <1>2 DEF InsertRow, DirectoryInv, Registration, StoredRow
    <2>3. \A l \in Lookups : LookupInv(lookups[l])'
        BY <1>2, RowGrows DEF InsertRow, DirectoryInv, LookupInv
    <2>4. \A a \in answers' : a.payee \in Payees /\ Told(a.payee, a.body)'
        BY <1>2, RowGrows DEF InsertRow, DirectoryInv
    <2> QED
        BY <1>2, <2>1, <2>2, <2>3, <2>4 DEF InsertRow, DirectoryInv
<1>3. ASSUME NEW l \in Lookups, ReadAttest(l) PROVE DirectoryInv'
    <2>1. PICK payee \in Payees :
              Goes(l, IF attest = Nothing THEN "attest" ELSE "row",
                   [payee |-> payee, attest |-> attest,
                    seen  |-> {a.body : a \in {b \in answers : b.payee = payee}}])
        BY <1>3 DEF ReadAttest
    <2>2. PICK q : /\ lookups' = [lookups EXCEPT ![l] = q]
                   /\ DOMAIN q = DOMAIN NoLookup
                   /\ q.step \in {"attest", "row"}
                   /\ q.payee = payee
                   /\ q.seen = {a.body : a \in {b \in answers : b.payee = payee}}
        BY <2>1, GoesShape DEF DirectoryInv
    <2>3. LookupInv(q)
        BY <2>2 DEF LookupInv, DirectoryInv
    <2> QED
        BY <1>3, <2>2, <2>3 DEF ReadAttest, DirectoryInv, LookupInv, Told
<1>4. ASSUME NEW l \in Lookups, DrawAttest(l) PROVE DirectoryInv'
    <2>1. Goes(l, "row", [attest |-> draws'])
        BY <1>4 DEF DrawAttest
    <2>2. "payee" \notin DOMAIN [attest |-> draws'] /\ "seen" \notin DOMAIN [attest |-> draws']
        OBVIOUS
    <2> QED
        BY <1>4, <2>1, <2>2, PlainStep DEF DrawAttest, At
<1>5. ASSUME NEW l \in Lookups, ReadRow(l) PROVE DirectoryInv'
    <2> DEFINE row == rows[lookups[l].payee]
    <2>0. /\ LookupInv(lookups[l]) /\ lookups[l].step = "row" /\ lookups[l].payee \in Payees
          /\ UNCHANGED <<rows, registers, answers>>
          /\ row \in StoredRow \cup {Nothing}
          /\ \A s \in lookups[l].seen : Told(lookups[l].payee, s)
        BY <1>5 DEF ReadRow, At, DirectoryInv, LookupInv
    <2>1. CASE row = Nothing
        <3>1. \A s \in lookups[l].seen : IsDecoy(s)
            BY <2>0, <2>1 DEF Told, StoredRow
        <3>2. Goes(l, "pepper", <<>>)
            BY <1>5, <2>1 DEF ReadRow
        <3>3. "payee" \notin DOMAIN <<>> /\ "seen" \notin DOMAIN <<>>
            OBVIOUS
        <3> QED
            BY <2>0, <3>1, <3>2, <3>3, PlainStep
    <2>2. CASE row # Nothing
        <3>1. Goes(l, "answer", [body |-> row])
            BY <1>5, <2>2 DEF ReadRow
        <3>2. row \in StoredRow /\ DOMAIN row = {"version", "clue"}
            BY <2>0, <2>2 DEF StoredRow
        <3>3. Told(lookups[l].payee, row)
            BY <3>2 DEF Told
        <3>4. \A s \in lookups[l].seen : Newer(row, s)
            BY <2>0, <3>2 DEF Told, Newer, IsDecoy
        <3> HIDE DEF row
        <3> QED
            BY <2>0, <3>1, <3>3, <3>4, AnswerStep
    <2> QED
        BY <2>1, <2>2
<1>a. ASSUME NEW l \in Lookups, lookups[l].step \in {"pepper", "draw", "swap"}, NEW secret,
             Goes(l, "answer", [body |-> Decoy(lookups[l].payee, secret)]),
             UNCHANGED <<rows, registers, answers>>
      PROVE  DirectoryInv'
    <2>1. IsDecoy(Decoy(lookups[l].payee, secret))
        BY DEF IsDecoy, Decoy
    <2>2. \A s \in lookups[l].seen : IsDecoy(s)
        BY <1>a DEF DirectoryInv, LookupInv
    <2>3. /\ Told(lookups[l].payee, Decoy(lookups[l].payee, secret))
          /\ \A s \in lookups[l].seen : Newer(Decoy(lookups[l].payee, secret), s)
        BY <2>1, <2>2 DEF Told, Newer, IsDecoy
    <2> QED
        BY <1>a, <2>3, AnswerStep
<1>b. ASSUME NEW l \in Lookups, lookups[l].step \in {"pepper", "draw", "swap"},
             NEW step \in {"pepper", "draw", "swap"}, NEW fields, Goes(l, step, fields),
             "payee" \notin DOMAIN fields, "seen" \notin DOMAIN fields,
             UNCHANGED <<rows, registers, answers>>
      PROVE  DirectoryInv'
    <2>1. \A s \in lookups[l].seen : IsDecoy(s)
        BY <1>b DEF DirectoryInv, LookupInv
    <2> QED
        BY <1>b, <2>1, PlainStep
<1>6. ASSUME NEW l \in Lookups, ReadPepper(l) PROVE DirectoryInv'
    <2>1. "payee" \notin DOMAIN <<>> /\ "seen" \notin DOMAIN <<>>
        OBVIOUS
    <2> QED
        BY <1>6, <1>a, <1>b, <2>1 DEF ReadPepper, At
<1>7. ASSUME NEW l \in Lookups, DrawPepper(l) PROVE DirectoryInv'
    <2> DEFINE fields == [pepper |-> draws', current |-> pepper]
    <2>1. "payee" \notin DOMAIN fields /\ "seen" \notin DOMAIN fields
        OBVIOUS
    <2>2. Goes(l, "swap", fields) /\ lookups[l].step = "draw" /\ UNCHANGED <<rows, registers, answers>>
        BY <1>7 DEF DrawPepper, At
    <2> HIDE DEF fields
    <2> QED
        BY <1>b, <2>1, <2>2
<1>8. ASSUME NEW l \in Lookups, SwapPepper(l) PROVE DirectoryInv'
    <2>1. "payee" \notin DOMAIN <<>> /\ "seen" \notin DOMAIN <<>>
        OBVIOUS
    <2> QED
        BY <1>8, <1>a, <1>b, <2>1 DEF SwapPepper, At
<1>9. ASSUME NEW l \in Lookups, AnswerLookup(l) PROVE DirectoryInv'
    <2> DEFINE new == [payee |-> lookups[l].payee, body |-> lookups[l].body]
    <2>1. /\ new.payee = lookups[l].payee /\ new.body = lookups[l].body
          /\ answers' = answers \cup {new}
          /\ lookups' = [lookups EXCEPT ![l] = NoLookup]
          /\ UNCHANGED <<rows, registers>>
        BY <1>9 DEF AnswerLookup
    <2>2. new.payee \in Payees /\ Told(new.payee, new.body)
        BY <1>9, <2>1 DEF AnswerLookup, At, DirectoryInv, LookupInv
    <2> HIDE DEF new
    <2>3. \A a \in answers' : a.payee \in Payees /\ Told(a.payee, a.body)
        BY <2>1, <2>2 DEF DirectoryInv
    <2>4. \A k \in Lookups : LookupInv(lookups'[k])
        BY <2>1, IdleLookup DEF DirectoryInv
    <2> QED
        BY <2>1, <2>3, <2>4 DEF DirectoryInv, LookupInv, Told
<1> QED
    BY <1>0, <1>1, <1>2, <1>3, <1>4, <1>5, <1>6, <1>7, <1>8, <1>9 DEF DirectoryNext

\* A lookup that starts after another was answered is told the same row or a
\* newer one, never a decoy after a key (store_clue_public_key,
\* get_clue_public_key): for any number of lookups, payees and versions, when
\* registrations come one after another.
THEOREM DirectoryNeverGoesBack ==
    ASSUME OneRegistration
    PROVE  DirectorySpec => []LookupsNeverGoBack
<1>1. DirectoryInv => LookupsNeverGoBack
    BY DEF DirectoryInv, LookupInv, LookupsNeverGoBack, At
<1>2. DirectoryInv /\ [DirectoryNext]_directoryVars => DirectoryInv'
    BY DirectoryStep
<1> QED
    BY <1>1, <1>2, DirectoryStart, PTL DEF DirectorySpec

-----------------------------------------------------------------------------
(* Padded ranges.                                                           *)

LEMMA PowersAreNat ==
    /\ PowersOf2 \subseteq 1 .. TopPower
    /\ 1 \in PowersOf2 /\ TopPower \in PowersOf2
    /\ TopPower \in Nat
<1>1. 0 \in 0 .. 30 /\ 30 \in 0 .. 30
    OBVIOUS
<1>2. 2 ^ 0 \in PowersOf2 /\ 2 ^ 30 \in PowersOf2
    BY <1>1 DEF PowersOf2
<1>3. ASSUME NEW k \in PowersOf2 PROVE k \in Nat \ {0} /\ k <= TopPower
    BY PowerAssumption DEF PowersOf2, TopPower
<1>4. 2 ^ 0 = 1 /\ 2 ^ 30 = TopPower
    BY PowerAssumption DEF TopPower
<1>5. TopPower \in Nat
    BY <1>2, <1>3, <1>4
<1> QED
    BY <1>2, <1>3, <1>4, <1>5

LEMMA PowerIsNat ==
    ASSUME NEW k, k \in PowersOf2
    PROVE  k \in Nat
BY PowersAreNat

\* Sets of powers have a least and a greatest member, which Min and Max choose.
LEMMA MinOfPowers ==
    ASSUME NEW T, T \subseteq PowersOf2, T # {}
    PROVE  Min(T) \in T /\ \A k \in T : Min(T) <= k
<1> DEFINE R == {ss \in Nat \X Nat : ss[1] < ss[2]}
<1>1. IsWellFoundedOn(R, Nat)
    BY NatLessThanWellFounded, Zenon DEF OpToRel
<1>2. T \subseteq Nat
    BY PowersAreNat
<1> HIDE DEF R
<1>3. \E m \in T : \A n \in T : ~ (<<n, m>> \in R)
    BY <1>1, <1>2, WFMin, Zenon
<1>4. PICK m \in T : \A n \in T : ~ (<<n, m>> \in R)
    BY <1>3
<1>5. ASSUME NEW n \in T PROVE m <= n
    <2>1. n \in Nat /\ m \in Nat /\ ~ (<<n, m>> \in R)
        BY <1>2, <1>4
    <2>2. ~ (n < m)
        BY <2>1 DEF R
    <2> QED BY <2>1, <2>2
<1> QED
    BY <1>5 DEF Min

LEMMA MaxOfPowers ==
    ASSUME NEW T, T \subseteq PowersOf2, T # {}
    PROVE  Max(T) \in T /\ \A k \in T : k <= Max(T)
<1> DEFINE top  == TopPower
           R    == {ss \in Nat \X Nat : ss[1] < ss[2]}
           Gaps == {top - k : k \in T}
<1>1. IsWellFoundedOn(R, Nat)
    BY NatLessThanWellFounded, Zenon DEF OpToRel
<1>2. \A k \in T : k \in Nat /\ top - k \in Nat
    BY PowersAreNat
<1>3. Gaps \subseteq Nat /\ Gaps # {}
    BY <1>2
<1> HIDE DEF R, Gaps
<1>4. PICK g \in Gaps : \A n \in Gaps : ~ (<<n, g>> \in R)
    BY <1>1, <1>3, WFMin, Zenon
<1>5. PICK m \in T : g = top - m
    BY DEF Gaps
<1>6. ASSUME NEW k \in T PROVE m >= k
    <2>1. top - k \in Gaps
        BY DEF Gaps
    <2>2. ~ (<<top - k, top - m>> \in R)
        BY <1>4, <1>5, <2>1
    <2>3. ~ (top - k < top - m)
        BY <1>2, <2>2 DEF R
    <2>4. top - k \in Int /\ k \in Int /\ m \in Int /\ top \in Int
        BY <1>2, PowersAreNat
    <2> HIDE DEF top
    <2> QED
        BY <2>3, <2>4
<1>7. /\ Max(T) \in T
      /\ \A k \in T : Max(T) >= k
    BY <1>6 DEF Max
<1> QED
    BY <1>2, <1>7

LEMMA OfTwo ==
    ASSUME NEW a \in Int, NEW b \in Int
    PROVE  /\ Min({a, b}) = IF a <= b THEN a ELSE b
           /\ Max({a, b}) = IF a >= b THEN a ELSE b
<1>1. \E x \in {a, b} : \A y \in {a, b} : x <= y
    OBVIOUS
<1>2. \E x \in {a, b} : \A y \in {a, b} : x >= y
    OBVIOUS
<1>3. Min({a, b}) \in {a, b} /\ \A y \in {a, b} : Min({a, b}) <= y
    BY <1>1 DEF Min
<1>4. Max({a, b}) \in {a, b} /\ \A y \in {a, b} : Max({a, b}) >= y
    BY <1>2 DEF Max
<1> QED
    BY <1>3, <1>4

LEMMA NextPower ==
    ASSUME NEW n \in Nat, n <= TopPower
    PROVE  NextPow2(n) \in PowersOf2 /\ NextPow2(n) >= n
<1> DEFINE T == {k \in PowersOf2 : k >= n}
<1>1. T \subseteq PowersOf2 /\ T # {}
    BY PowersAreNat
<1>2. NextPow2(n) = Min(T)
    BY DEF NextPow2
<1>3. Min(T) \in T
    <2> HIDE DEF T
    <2> QED BY <1>1, MinOfPowers
<1> QED
    BY <1>2, <1>3

LEMMA GreatestPower ==
    ASSUME NEW n \in Nat \ {0}
    PROVE  LET g == Max({k \in PowersOf2 : k <= n})
           IN  g \in PowersOf2 /\ g <= n /\ \A k \in PowersOf2 : k <= n => k <= g
<1> DEFINE T == {k \in PowersOf2 : k <= n}
<1>1. T \subseteq PowersOf2 /\ T # {}
    BY PowersAreNat
<1>2. Max(T) \in T /\ \A k \in T : k <= Max(T)
    <2> HIDE DEF T
    <2> QED BY <1>1, MaxOfPowers
<1> QED
    BY <1>2

\* The span a wallet pads to: a bucket at least as wide as the least, if the
\* chain has room for that, and wide enough if any bucket of the chain is.
Span(s, e, tip) ==
    LET want == Min({NextPow2(Max({e - s + 1, MinSpan})), MaxBucket})
    IN  IF want <= tip + 1 THEN want ELSE Max({k \in PowersOf2 : k <= tip + 1})

LEMMA SpanOfBucket ==
    ASSUME NEW tip \in Nat, tip < TopPower,
           NEW e \in 0 .. tip, NEW s \in 0 .. e
    PROVE  /\ Span(s, e, tip) \in PowersOf2
           /\ Span(s, e, tip) <= tip + 1 /\ Span(s, e, tip) <= MaxBucket
           /\ Span(s, e, tip) < MinSpan <=> tip + 1 < MinSpan
           /\ \A r \in PowersOf2 : r <= tip + 1 /\ r <= MaxBucket /\ e - s + 1 <= r
                 => e - s + 1 <= Span(s, e, tip)
<1> USE BucketAssumption
<1> DEFINE n     == Max({e - s + 1, MinSpan})
           np    == NextPow2(n)
           want  == Min({np, MaxBucket})
           great == Max({k \in PowersOf2 : k <= tip + 1})
<1>1. /\ MinSpan \in 1 .. TopPower /\ MaxBucket \in 1 .. TopPower
      /\ TopPower \in Nat
    BY PowersAreNat
<1>2. n = IF e - s + 1 >= MinSpan THEN e - s + 1 ELSE MinSpan
    <2>1. e - s + 1 \in Int /\ MinSpan \in Int
        BY <1>1
    <2> QED BY <2>1, OfTwo
<1> HIDE DEF n
<1>3. n \in Nat /\ n <= TopPower /\ n >= MinSpan /\ n >= e - s + 1
    BY <1>1, <1>2
<1>4. np \in PowersOf2 /\ np >= n
    BY <1>3, NextPower
<1> HIDE DEF np
<1>5. np \in Int /\ np \in 1 .. TopPower
    BY <1>4, PowersAreNat
<1>6. want = IF np <= MaxBucket THEN np ELSE MaxBucket
    BY <1>1, <1>5, OfTwo
<1> HIDE DEF want
<1>7. want \in PowersOf2 /\ want <= MaxBucket /\ want >= MinSpan
        /\ want \in 1 .. TopPower
    BY <1>1, <1>3, <1>4, <1>5, <1>6
<1>8. /\ great \in PowersOf2 /\ great <= tip + 1
      /\ \A k \in PowersOf2 : k <= tip + 1 => k <= great
    <2>1. tip + 1 \in Nat \ {0}
        OBVIOUS
    <2> QED BY <2>1, GreatestPower
<1> HIDE DEF great
<1>9. great \in 1 .. TopPower
    BY <1>8, PowersAreNat
<1>10. Span(s, e, tip) = IF want <= tip + 1 THEN want ELSE great
    BY DEF Span, want, np, n, great
<1>11. CASE want <= tip + 1
    <2>1. Span(s, e, tip) = want
        BY <1>10, <1>11
    <2>2. ASSUME NEW r \in PowersOf2, r <= MaxBucket, e - s + 1 <= r
          PROVE  e - s + 1 <= want
        <3>1. r \in 1 .. TopPower
            BY PowersAreNat
        <3> QED
            BY <1>1, <1>3, <1>4, <1>5, <1>6, <2>2, <3>1
    <2> QED
        BY <1>1, <1>7, <1>11, <2>1, <2>2
<1>12. CASE ~ (want <= tip + 1)
    <2>1. Span(s, e, tip) = great
        BY <1>10, <1>12
    <2>2. great <= MaxBucket
        BY <1>1, <1>7, <1>8, <1>9, <1>12
    <2>3. great < MinSpan <=> tip + 1 < MinSpan
        BY <1>1, <1>8, <1>9
    <2>4. ASSUME NEW r \in PowersOf2, r <= tip + 1, e - s + 1 <= r
          PROVE  e - s + 1 <= great
        <3>1. r \in 1 .. TopPower /\ r <= great
            BY <1>8, <2>4, PowersAreNat
        <3> QED
            BY <1>9, <2>4, <3>1
    <2> QED
        BY <1>8, <2>1, <2>2, <2>3, <2>4
<1> QED
    BY <1>11, <1>12

\* The wallet knows a tip the server had.
WishInv ==
    /\ serverTip \in 0 .. MaxTip
    /\ wish \in [start : 0 .. MaxTip, end : 0 .. MaxTip, tip : 0 .. MaxTip]
    /\ wish.start <= wish.end /\ wish.tip <= serverTip

LEMMA WishStart == RangeInit => WishInv
BY MaxTipAssumption DEF RangeInit, WishInv

LEMMA WishStep == WishInv /\ [RangeNext]_rangeVars => WishInv'
<1> USE MaxTipAssumption
<1> SUFFICES ASSUME WishInv, [RangeNext]_rangeVars PROVE WishInv'
    OBVIOUS
<1>1. CASE StartCycle
    BY <1>1 DEF StartCycle, WishInv
<1>2. CASE TipGrows
    BY <1>2 DEF TipGrows, WishInv
<1>3. CASE UNCHANGED rangeVars
    BY <1>3 DEF rangeVars, WishInv
<1> QED
    BY <1>1, <1>2, <1>3 DEF RangeNext

LEMMA WishServed == WishInv => PaddedRangeServed
<1> USE MaxTipAssumption, BucketAssumption
<1> SUFFICES ASSUME WishInv PROVE PaddedRangeServed
    OBVIOUS
<1> DEFINE tip  == wish.tip
           e    == Min({wish.end, tip})
           s    == Min({wish.start, e})
           span == Span(s, e, tip)
<1>1. /\ tip \in Nat /\ tip < TopPower /\ serverTip \in Nat /\ tip <= serverTip
      /\ wish.start \in Nat /\ wish.end \in Nat
    BY PowersAreNat DEF WishInv
<1>2. MinSpan \in 1 .. TopPower /\ MaxBucket \in 1 .. TopPower
    BY PowersAreNat
<1>3. e \in 0 .. tip /\ (wish.end >= tip => e = tip)
    BY <1>1, OfTwo
<1> HIDE DEF e
<1>4. s \in 0 .. e
    BY <1>1, <1>3, OfTwo
<1> HIDE DEF s
<1>5. /\ span \in PowersOf2 /\ span <= tip + 1 /\ span <= MaxBucket
      /\ span < MinSpan <=> tip + 1 < MinSpan
      /\ \A r \in PowersOf2 : r <= tip + 1 /\ r <= MaxBucket /\ e - s + 1 <= r
            => e - s + 1 <= span
    BY <1>1, <1>3, <1>4, SpanOfBucket
<1>6. Padded = CASE span < MinSpan -> <<0, e>>
                 [] span >= MinSpan /\ e + 1 >= span -> <<e + 1 - span, e>>
                 [] OTHER -> <<0, span - 1>>
    BY DEF Padded, PadBlockRange, Span, e, s
<1>7. Wanted = <<s, e>>
    BY DEF Wanted, e, s
<1> HIDE DEF span
<1>8. span \in 1 .. TopPower
    BY <1>5, PowersAreNat
<1>9. \/ span < MinSpan /\ Padded = <<0, e>>
      \/ span >= MinSpan /\ e + 1 >= span /\ Padded = <<e + 1 - span, e>>
      \/ span >= MinSpan /\ e + 1 < span /\ Padded = <<0, span - 1>>
    BY <1>2, <1>3, <1>6, <1>8
<1>10. Rejected(Padded[1], Padded[2], serverTip) <=>
           (tip + 1 < MinSpan /\ e + MaxTipLag < serverTip)
    <2>1. CASE span < MinSpan
        <3>1. Padded[1] = 0 /\ Padded[2] = e /\ tip + 1 < MinSpan
            BY <1>1, <1>2, <1>3, <1>5, <1>8, <1>9, <2>1
        <3> DEFINE width == e - 0 + 1
                   full  == NextPow2(Max({width, MinSpan}))
                   align == Max({full \div 2, MinSpan})
        <3>2. width \in Int /\ MinSpan \in Int /\ width < MinSpan
            BY <1>1, <1>2, <1>3, <3>1
        <3>3. full \in Nat
            <4> DEFINE least == Max({width, MinSpan})
            <4>1. least = MinSpan
                <5> HIDE DEF width
                <5>1. Max({width, MinSpan}) = IF width >= MinSpan THEN width ELSE MinSpan
                    BY <3>2, OfTwo
                <5> QED BY <3>2, <5>1
            <4>2. MinSpan \in Nat /\ MinSpan <= TopPower
                BY <1>2
            <4> HIDE DEF least
            <4>3. NextPow2(least) \in PowersOf2
                BY <4>1, <4>2, NextPower
            <4>4. full = NextPow2(least)
                BY DEF least
            <4> HIDE DEF full
            <4> QED
                BY <4>3, <4>4, PowerIsNat
        <3> HIDE DEF full
        <3>4. full \div 2 \in Int
            BY <3>3
        <3>5. align \in Nat \ {0}
            <4> DEFINE half == full \div 2
            <4>1. half \in Int /\ MinSpan \in Int /\ MinSpan > 0
                BY <1>2, <3>4
            <4> HIDE DEF half
            <4>2. Max({half, MinSpan}) = IF half >= MinSpan THEN half ELSE MinSpan
                BY <4>1, OfTwo
            <4>3. Max({half, MinSpan}) \in Nat \ {0}
                BY <4>1, <4>2
            <4> QED BY <4>3 DEF half
        <3> HIDE DEF align
        <3>6. 0 % align = 0
            BY <3>5
        <3>7. /\ ~ (0 > e) /\ ~ (e > serverTip) /\ ~ (e - 0 + 1 > MaxBlocks)
              /\ ~ (e - 0 + 1 >= MinSpan)
            BY <1>1, <1>2, <1>3, <3>1
        <3>8. Rejected(0, e, serverTip) <=> e + MaxTipLag < serverTip
            BY <3>6, <3>7 DEF Rejected, align, full
        <3> QED
            BY <3>1, <3>8
    <2>2. CASE span >= MinSpan
        <3>1. /\ Padded[2] - Padded[1] + 1 = span
              /\ Padded[1] \in Nat /\ Padded[2] \in Nat /\ Padded[2] <= tip
            BY <1>1, <1>2, <1>3, <1>5, <1>8, <1>9, <2>2
        <3>2. /\ ~ (Padded[1] > Padded[2]) /\ ~ (Padded[2] > serverTip)
              /\ ~ (span > MaxBlocks)
            BY <1>1, <1>2, <1>5, <1>8, <3>1
        <3>3. ~ Rejected(Padded[1], Padded[2], serverTip)
            BY <1>5, <2>2, <3>1, <3>2 DEF Rejected
        <3>4. ~ (tip + 1 < MinSpan)
            BY <1>1, <1>2, <1>5, <1>8, <2>2
        <3> QED
            BY <3>3, <3>4
    <2> QED
        BY <1>2, <1>8, <2>1, <2>2
<1>11. ASSUME tip + 1 < MinSpan \/ e - s < Room
       PROVE  Padded[1] <= s /\ e <= Padded[2]
    <2>1. CASE span < MinSpan
        BY <1>2, <1>3, <1>4, <1>8, <1>9, <2>1
    <2>2. CASE span >= MinSpan /\ e + 1 >= span
        <3> DEFINE space == Min({tip + 1, MaxBucket})
        <3>1. space = IF tip + 1 <= MaxBucket THEN tip + 1 ELSE MaxBucket
            BY <1>1, <1>2, OfTwo
        <3> HIDE DEF space
        <3>2. space \in Nat \ {0} /\ space <= tip + 1 /\ space <= MaxBucket
            BY <1>1, <1>2, <3>1
        <3>3. Room = Max({k \in PowersOf2 : k <= space})
            BY DEF Room, space
        <3>4. Room \in PowersOf2 /\ Room <= space
            BY <3>2, <3>3, GreatestPower
        <3>5. Room \in 1 .. TopPower
            BY <3>4, PowersAreNat
        <3>6. e - s < Room
            BY <1>1, <1>2, <1>5, <1>8, <1>11, <2>2
        <3>7. e - s + 1 <= Room /\ Room <= tip + 1 /\ Room <= MaxBucket
            BY <1>1, <1>2, <1>3, <1>4, <3>2, <3>4, <3>5, <3>6
        <3>8. e - s + 1 <= span
            BY <1>5, <3>4, <3>7
        <3>9. Padded = <<e + 1 - span, e>>
            BY <1>2, <1>3, <1>8, <1>9, <2>2
        <3> QED
            BY <1>3, <1>4, <1>8, <3>8, <3>9
    <2>3. CASE span >= MinSpan /\ e + 1 < span
        BY <1>2, <1>3, <1>4, <1>8, <1>9, <2>3
    <2> QED
        BY <1>2, <1>3, <1>8, <2>1, <2>2, <2>3
<1> QED
    BY <1>7, <1>10, <1>11 DEF PaddedRangeServed

\* Which of the ranges that its wallets pad the server takes, and that they are wide
\* enough: pad_block_range at the tip a wallet knows, padded_range_rejection at a tip
\* that is later.
THEOREM PaddedAndServed == RangeSpec => []PaddedRangeServed
BY WishStart, WishStep, WishServed, PTL DEF RangeSpec
================================================================================
