--------------------------- MODULE ConfigCheckInv ---------------------------
(***************************************************************************)
(* The inductive invariant behind CheckPredicts: what either loop has made *)
(* of the entries and blocks it is past, told by what the check has said.  *)
(***************************************************************************)
EXTENDS ConfigCheck

\* The loop that runs is past block j of entry i, or past the entry itself (block 0).
Past(i, j) == i < entry \/ (i = entry /\ j < block)
Checked(i, j) == phase # "check" \/ Past(i, j)
Served(i, j) == phase = "done" \/ (phase = "serve" /\ Past(i, j))

C(i) == config[i]
Closed(i) == C(i).port = 0 /\ C(i).inline
Enters(i) == C(i).on /\ C(i).driver = "compiled" /\ ~ C(i).broken
Flawed(i) == C(i).on /\ (Closed(i) \/ (C(i).driver = "compiled" /\ C(i).broken))

\* The numbers that the check has given, by port and type, and those of them that
\* block j of entry i found taken.
Oks == {r \in told : r.is = "ok"}
Listed(i, k, t) == C(i).port = k /\ C(i).type = t
GivenFor(k, t) == {r.num : r \in {q \in Oks : Listed(q.at[1], k, t)}}
Earlier(at, i, j) == at[1] < i \/ (at[1] = i /\ at[2] < j)
Before(i, j) == {q \in Oks : Earlier(q.at, i, j) /\ Listed(q.at[1], C(i).port, C(i).type)}
Taken(i, j) == {r.num : r \in Before(i, j)}

Passes(i, j) == LET b == C(i).blocks[j] IN b.on /\ b.builds /\ CanAssign(Taken(i, j), b.pin)
NumberAt(i, j) == NumberFor(Taken(i, j), C(i).blocks[j].pin)

-----------------------------------------------------------------------------
Table == [Types -> SUBSET Nat]
Walk ==
    /\ config \in Seq(Entries) /\ Len(config) <= MaxEntries
    /\ phase \in {"check", "serve", "done"}
    /\ entry \in 1..(Len(config) + 1) /\ block \in Nat /\ scanned \in Nat
    /\ nums \in [Keys -> Table]
    /\ block > 0 => entry <= Len(config) /\ block <= Len(E.blocks)
    /\ block > 0 /\ phase = "check" => E.on /\ (Enters(entry) \/ E.driver = "none")
    /\ block > 0 /\ phase = "serve" => Enters(entry) /\ ~ Closed(entry)
    /\ phase = "check" => scanned = 0 /\ rows = {}
    /\ phase = "serve" => scanned < entry \/ (scanned = entry /\ block > 0)

\* What the check says is so, and it says all it should.
Record(kinds) == [at : (1..Len(config)) \X Nat, is : kinds, num : Nat]
ToldOK(r) ==
    LET i == r.at[1]
        j == r.at[2]
    IN  /\ j \in 0..Len(C(i).blocks) /\ Checked(i, j) /\ C(i).on
        /\ j = 0 /\ r.is = "error" => Flawed(i)
        /\ r.is = "binary" => C(i).driver = "binary"
        /\ r.is = "warn" => C(i).driver = "none"
        /\ r.is = "ok" => j > 0 /\ Enters(i) /\ Passes(i, j) /\ r.num = NumberAt(i, j)
ToldRight ==
    /\ IsFiniteSet(told)
    /\ told \in SUBSET Record({"error", "ok", "binary", "warn"})
    /\ \A r \in told : ToldOK(r)
ToldEntries ==
    \A i \in 1..Len(config) : Checked(i, 0) =>
        /\ Flawed(i) => Told(i, 0, "error")
        /\ C(i).on /\ C(i).driver = "binary" => Told(i, 0, "binary")
ToldBlocks ==
    \A i \in 1..Len(config) : \A j \in 1..Len(C(i).blocks) :
        Checked(i, j) /\ Enters(i) /\ Passes(i, j) =>
            [at |-> <<i, j>>, is |-> "ok", num |-> NumberAt(i, j)] \in told

\* The tables of either loop, in the terms of the check.
CheckTables ==
    phase = "check" => \A k \in PortNames, t \in Types : nums[k][t] = GivenFor(k, t)
GivenPast(k, t) == {r.num : r \in {q \in Oks : Past(q.at[1], q.at[2]) /\ Listed(q.at[1], k, t)}}
ServeTables ==
    phase = "serve" =>
        /\ \A k \in PortNames \ {0}, t \in Types : nums[k][t] = GivenPast(k, t)
        /\ \A k \in 1..MaxEntries, t \in Types : k > scanned => nums[-k][t] = {}
        /\ block > 0 /\ E.port = 0 => scanned > 0 /\ nums[-scanned][E.type] \subseteq Taken(entry, block)

\* What start-up has made is what the check said, and it has made all of that.
RowOK(r) ==
    LET i == r.at[1]
        j == r.at[2]
    IN  /\ C(i).on
        /\ r.is = "separate" => C(i).driver = "binary" /\ ~ Closed(i)
        /\ r.is \in Numbered => /\ j \in 1..Len(C(i).blocks) /\ Enters(i) /\ ~ Closed(i)
                                /\ C(i).port # 0 => Passes(i, j) /\ r.num = NumberAt(i, j)
RowsRight ==
    /\ rows \in SUBSET Record({"skipped", "separate"} \union Numbered)
    /\ \A r \in rows : RowOK(r)
Has(i, j, what) == \E r \in rows : r.at = <<i, j>> /\ r.is = what
RowsEntries ==
    \A i \in 1..Len(config) : Served(i, 0) /\ C(i).on =>
        /\ C(i).driver = "binary" /\ ~ Closed(i) => Has(i, 0, "separate")
        /\ C(i).driver = "none" => Has(i, 0, "skipped")
Made(i, j) == \E r \in rows : /\ r.at = <<i, j>> /\ r.is \in Numbered
                              /\ C(i).port # 0 => r.num = NumberAt(i, j)
RowsBlocks ==
    \A i \in 1..Len(config) : \A j \in 1..Len(C(i).blocks) :
        Served(i, j) /\ Enters(i) /\ ~ Closed(i) /\ Passes(i, j) => Made(i, j)

IInv == /\ Walk /\ ToldRight /\ ToldEntries /\ ToldBlocks /\ CheckTables
        /\ ServeTables /\ RowsRight /\ RowsEntries /\ RowsBlocks
=============================================================================
