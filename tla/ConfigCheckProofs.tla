------------------------- MODULE ConfigCheckProofs --------------------------
(***************************************************************************)
(* Proof that "alpacahurd -check" foresees start-up, for any configuration *)
(* of any size: IInv is inductive.                                         *)
(***************************************************************************)
EXTENDS ConfigCheckInv, DeviceNumbersProofs, SequenceTheorems

USE EntriesAreTyped, CheckBounds

-----------------------------------------------------------------------------
(* The configuration.                                                       *)

LEMMA EntryFacts ==
    ASSUME Walk, NEW i \in 1..Len(config)
    PROVE  /\ C(i) \in EntryType /\ C(i).port \in PortNames /\ C(i).type \in Types
           /\ C(i).port \in Keys /\ C(i).driver \in {"compiled", "binary", "none"}
           /\ Len(C(i).blocks) \in Nat /\ Len(C(i).blocks) > 0
           /\ \A j \in 1..Len(C(i).blocks) : C(i).blocks[j] \in BlockType
<1>1. C(i) \in EntryType
  BY DEF Walk, C
<1>2. C(i).blocks \in Seq(BlockType) /\ C(i).blocks # <<>>
  BY <1>1 DEF EntryType
<1>3. Len(C(i).blocks) > 0
  BY <1>2, EmptySeq
<1> QED BY <1>1, <1>2, <1>3 DEF EntryType, Keys

\* The entry and the block that the loop is at.
LEMMA HereFacts ==
    ASSUME Walk, entry <= Len(config)
    PROVE  /\ entry \in 1..Len(config) /\ E = C(entry)
           /\ block > 0 => /\ block \in 1..Len(C(entry).blocks)
                           /\ B = C(entry).blocks[block] /\ B \in BlockType
<1>1. entry \in 1..Len(config) /\ E = C(entry)
  BY DEF Walk, E, C
<1>2. block > 0 => block \in 1..Len(C(entry).blocks) /\ B = C(entry).blocks[block]
  BY <1>1, EntryFacts DEF Walk, B
<1> QED BY <1>1, <1>2, EntryFacts

-----------------------------------------------------------------------------
(* What the check has said, while more is said.                             *)

LEMMA SameConfig ==
    ASSUME config' = config, NEW i
    PROVE  /\ C(i)' = C(i) /\ (Closed(i)' <=> Closed(i)) /\ (Enters(i)' <=> Enters(i))
           /\ (Flawed(i)' <=> Flawed(i))
           /\ \A k, t : Listed(i, k, t)' <=> Listed(i, k, t)
BY DEF C, Closed, Enters, Flawed, Listed

\* A block's table is that of the devices the check has accepted before it.
LEMMA SameTaken ==
    ASSUME config' = config, NEW i, NEW j, Before(i, j)' = Before(i, j)
    PROVE  /\ Taken(i, j)' = Taken(i, j) /\ (Passes(i, j)' <=> Passes(i, j))
           /\ NumberAt(i, j)' = NumberAt(i, j)
<1>1. Taken(i, j)' = Taken(i, j)
  BY DEF Taken
<1> QED BY <1>1, SameConfig DEF Passes, NumberAt

LEMMA SameOks ==
    ASSUME config' = config, Oks' = Oks
    PROVE  /\ \A i, j : /\ Taken(i, j)' = Taken(i, j) /\ (Passes(i, j)' <=> Passes(i, j))
                        /\ NumberAt(i, j)' = NumberAt(i, j)
           /\ \A k, t : GivenFor(k, t)' = GivenFor(k, t)
<1>1. ASSUME NEW i, NEW j
      PROVE  /\ Taken(i, j)' = Taken(i, j) /\ (Passes(i, j)' <=> Passes(i, j))
             /\ NumberAt(i, j)' = NumberAt(i, j)
  <2>1. Before(i, j)' = Before(i, j)
    BY DEF Before, Listed, C, Earlier
  <2> QED BY <2>1, SameTaken
<1>2. ASSUME NEW k, NEW t PROVE GivenFor(k, t)' = GivenFor(k, t)
  BY DEF GivenFor, Listed, C
<1> QED BY <1>1, <1>2

LEMMA OneFinite == ASSUME NEW x PROVE IsFiniteSet({x})
BY FS_Singleton

\* Finitely many records have finitely many numbers.
LEMMA NumsFinite ==
    ASSUME NEW S, IsFiniteSet(S)
    PROVE  IsFiniteSet({r.num : r \in S})
<1> DEFINE T == {r.num : r \in S}
           f == [r \in S |-> r.num]
<1>1. f \in Surjection(S, T)
  BY DEF Surjection
<1> QED BY <1>1, FS_Surjection

\* Numbers are naturals, and finitely many are taken.
LEMMA TakenFinite ==
    ASSUME Walk, ToldRight, NEW i, NEW j
    PROVE  Taken(i, j) \in SUBSET Nat /\ IsFiniteSet(Taken(i, j))
<1>1. Before(i, j) \subseteq told /\ IsFiniteSet(told)
  BY DEF Before, Oks, ToldRight
<1>2. IsFiniteSet(Before(i, j))
  BY <1>1, FS_Subset
<1>3. \A r \in Before(i, j) : r.num \in Nat
  BY <1>1 DEF ToldRight, Record
<1>4. IsFiniteSet(Taken(i, j))
  BY <1>2, NumsFinite DEF Taken
<1> QED BY <1>3, <1>4 DEF Taken

-----------------------------------------------------------------------------
(* checkConfig, at an entry.                                                *)

\* The loop leaves the entry, or goes on to its blocks.
LEMMA PastEntry ==
    ASSUME Walk, block = 0, entry <= Len(config),
           \/ block' = 0 /\ entry' = entry + 1
           \/ block' = 1 /\ entry' = entry,
           NEW i \in Nat, NEW j \in Nat
    PROVE  Past(i, j)' <=> Past(i, j) \/ (i = entry /\ (j = 0 \/ entry' = entry + 1))
BY DEF Past, Walk

\* X is what the check says of the entry.
LEMMA EntrySaid ==
    ASSUME IInv, phase = "check", block = 0, entry <= Len(config),
           UNCHANGED <<config, phase, nums, scanned, rows>>,
           NEW X \in SUBSET Record({"error", "binary", "warn"}), IsFiniteSet(X),
           told' = told \union X,
           \A r \in X : /\ r.at = <<entry, 0>> /\ C(entry).on
                        /\ r.is = "error" => Flawed(entry)
                        /\ r.is = "binary" => C(entry).driver = "binary"
                        /\ r.is = "warn" => C(entry).driver = "none",
           Flawed(entry) => \E r \in X : r.is = "error",
           C(entry).on /\ C(entry).driver = "binary" => \E r \in X : r.is = "binary",
           \/ block' = 0 /\ entry' = entry + 1 /\ ~ Enters(entry)
           \/ /\ block' = 1 /\ entry' = entry
              /\ C(entry).on /\ (Enters(entry) \/ C(entry).driver = "none")
    PROVE  IInv'
<1>0. /\ Walk /\ ToldRight /\ ToldEntries /\ ToldBlocks /\ CheckTables
      /\ config' = config /\ phase' = "check"
  BY DEF IInv
<1>1. entry \in 1..Len(config) /\ E = C(entry) /\ Len(E.blocks) \in Nat /\ Len(E.blocks) > 0
  BY <1>0, HereFacts, EntryFacts
<1>2. Oks' = Oks
  BY DEF Oks, Record
<1>3. Walk'
  <2>1. E' = C(entry')
    BY <1>0 DEF E, C
  <2>2. block' > 0 => entry' <= Len(config) /\ block' <= Len(E'.blocks) /\ E'.on
                      /\ (Enters(entry) \/ E'.driver = "none")
    BY <1>1, <2>1
  <2>3. Enters(entry)' <=> Enters(entry')
    BY <1>0 DEF Enters, C
  <2>4. entry' \in 1..(Len(config) + 1) /\ block' \in Nat
    BY <1>1
  <2> QED BY <1>0, <2>2, <2>3, <2>4 DEF Walk
<1>4. \A i, j \in Nat : Checked(i, j)' <=> Checked(i, j) \/ (i = entry /\ (j = 0 \/ entry' = entry + 1))
  BY <1>0, PastEntry DEF Checked
<1>5. ToldRight'
  <2>1. told' \in SUBSET Record({"error", "ok", "binary", "warn"}) /\ IsFiniteSet(told')
    BY <1>0, FS_Union DEF ToldRight, Record
  <2>2. Record({"error", "ok", "binary", "warn"})' = Record({"error", "ok", "binary", "warn"})
    BY DEF Record
  <2>3. ASSUME NEW r \in told
        PROVE  ToldOK(r)'
    <3>1. r.at[1] \in Nat /\ r.at[2] \in Nat
      BY <1>0 DEF ToldRight, Record
    <3> QED BY <1>0, <1>2, <1>4, <3>1, SameOks, SameConfig DEF ToldRight, ToldOK
  <2>4. ASSUME NEW r \in X
        PROVE  ToldOK(r)' /\ r.is # "ok"
    <3>1. r.at[1] = entry /\ r.at[2] = 0 /\ r.is # "ok"
      BY DEF Record
    <3> QED BY <1>0, <1>1, <1>4, <3>1, SameConfig, EntryFacts DEF ToldOK
  <2> QED BY <2>1, <2>2, <2>3, <2>4 DEF ToldRight
<1>6. ToldEntries'
  <2> SUFFICES ASSUME NEW i \in 1..Len(config), Checked(i, 0)'
               PROVE  /\ Flawed(i)' => Told(i, 0, "error")'
                      /\ C(i)'.on /\ C(i)'.driver = "binary" => Told(i, 0, "binary")'
    BY <1>0 DEF ToldEntries
  <2>1. \A what : Told(i, 0, what) => Told(i, 0, what)'
    BY DEF Told
  <2>2. CASE Checked(i, 0)
    BY <1>0, <2>1, <2>2, SameConfig DEF ToldEntries
  <2>3. CASE i = entry
    <3>1. \A what : (\E r \in X : r.is = what) => Told(i, 0, what)'
      BY <2>3 DEF Told
    <3> QED BY <1>0, <2>3, <3>1, SameConfig
  <2> QED BY <1>4, <2>2, <2>3
<1>7. ToldBlocks'
  <2> SUFFICES ASSUME NEW i \in 1..Len(config), NEW j \in 1..Len(C(i).blocks),
                      Checked(i, j)', Enters(i), Passes(i, j)
               PROVE  [at |-> <<i, j>>, is |-> "ok", num |-> NumberAt(i, j)] \in told
    BY <1>0, <1>2, SameOks, SameConfig DEF ToldBlocks
  <2>1. i # entry \/ entry' # entry + 1
    BY <1>1
  <2>2. i \in Nat /\ j \in Nat /\ j # 0
    BY <1>0, EntryFacts
  <2>3. Checked(i, j)
    BY <1>4, <2>1, <2>2
  <2> QED BY <1>0, <2>3 DEF ToldBlocks
<1>8. CheckTables'
  BY <1>0, <1>2, SameOks DEF CheckTables
<1>9. ServeTables' /\ RowsEntries' /\ RowsBlocks'
  BY <1>0 DEF ServeTables, RowsEntries, RowsBlocks, Served
<1>10. RowsRight'
  BY <1>0 DEF RowsRight, Walk
<1> QED BY <1>3, <1>5, <1>6, <1>7, <1>8, <1>9, <1>10 DEF IInv

LEMMA CheckEntry ==
    ASSUME IInv, phase = "check", block = 0, entry <= Len(config),
           CheckSkips \/ CheckBinary \/ CheckUnresolved \/ CheckBroken \/ CheckEnters,
           UNCHANGED <<config, phase, nums, scanned, rows>>
    PROVE  IInv'
<1>0. Walk /\ entry \in 1..Len(config) /\ E = C(entry)
  BY HereFacts DEF IInv
<1>1. Portless <=> Closed(entry)
  BY <1>0 DEF Portless, Closed
<1>2. CASE CheckSkips
  <2>1. told' = told \union {} /\ block' = 0 /\ entry' = entry + 1 /\ ~ C(entry).on
    BY <1>0, <1>2 DEF CheckSkips, ToEntry
  <2>2. IsFiniteSet({})
    BY FS_EmptySet
  <2> QED BY <2>1, <2>2, EntrySaid DEF Enters, Flawed
<1>3. ASSUME NEW what \in {"binary", "warn", "error"}, CheckStops(what), ~ Enters(entry),
             what = "error" => Flawed(entry),
             what = "binary" <=> C(entry).driver = "binary",
             what = "warn" => C(entry).driver = "none",
             what # "error" => C(entry).driver # "compiled"
      PROVE  IInv'
  <2> DEFINE kinds == {what} \union (IF Closed(entry) THEN {"error"} ELSE {})
             X == {[at |-> <<entry, 0>>, is |-> w, num |-> 0] : w \in kinds}
  <2>1. told' = told \union X /\ block' = 0 /\ entry' = entry + 1 /\ C(entry).on
    BY <1>0, <1>1, <1>3 DEF CheckStops, ToEntry
  <2>2. \A r \in X : r.at = <<entry, 0>> /\ r.is \in kinds /\ r.num = 0
    OBVIOUS
  <2>3. ASSUME NEW w \in kinds PROVE \E r \in X : r.is = w
    <3>1. [at |-> <<entry, 0>>, is |-> w, num |-> 0] \in X
      OBVIOUS
    <3> QED BY <3>1
  <2>4. X \in SUBSET Record({"error", "binary", "warn"})
    BY <1>0, <1>3 DEF Record
  <2>5. IsFiniteSet(X)
    <3>1. CASE Closed(entry)
      <4> DEFINE a == [at |-> <<entry, 0>>, is |-> what, num |-> 0]
                 b == [at |-> <<entry, 0>>, is |-> "error", num |-> 0]
      <4>1. X = {a} \union {b}
        BY <3>1
      <4> HIDE DEF a, b, X
      <4>2. IsFiniteSet({a}) /\ IsFiniteSet({b})
        BY OneFinite
      <4> QED BY <4>1, <4>2, FS_Union
    <3>2. CASE ~ Closed(entry)
      <4> DEFINE a == [at |-> <<entry, 0>>, is |-> what, num |-> 0]
      <4>1. X = {a}
        BY <3>2
      <4> HIDE DEF a, X
      <4> QED BY <4>1, OneFinite
    <3> QED BY <3>1, <3>2
  <2>6. what \in kinds /\ (Closed(entry) => "error" \in kinds)
    OBVIOUS
  <2>7. \A w \in kinds : w = what \/ (w = "error" /\ Closed(entry))
    OBVIOUS
  <2>8. Flawed(entry) => "error" \in kinds
    BY <1>3, <2>6 DEF Flawed
  <2> HIDE DEF X, kinds
  <2>9. \A r \in X : /\ r.at = <<entry, 0>> /\ C(entry).on
                     /\ r.is = "error" => Flawed(entry)
                     /\ r.is = "binary" => C(entry).driver = "binary"
                     /\ r.is = "warn" => C(entry).driver = "none"
    BY <1>3, <2>1, <2>2, <2>7 DEF Flawed
  <2>10. PICK Y : Y = X
    OBVIOUS
  <2> QED BY <1>3, <2>1, <2>3, <2>4, <2>5, <2>6, <2>8, <2>9, <2>10, EntrySaid
<1>4. CASE CheckBinary \/ CheckUnresolved \/ CheckBroken
  BY <1>0, <1>3, <1>4 DEF CheckBinary, CheckUnresolved, CheckBroken, Enters, Flawed, CheckStops
<1>5. CASE CheckEnters
  <2>1. /\ block' = 1 /\ entry' = entry /\ C(entry).on /\ C(entry).driver # "binary"
        /\ Enters(entry) \/ C(entry).driver = "none"
        /\ Flawed(entry) => Closed(entry)
    BY <1>0, <1>5 DEF CheckEnters, ToBlock, Enters, Flawed
  <2>2. CASE Closed(entry)
    <3> DEFINE n == [at |-> <<entry, 0>>, is |-> "error", num |-> 0]
    <3>1. told' = told \union {n}
      BY <1>1, <1>5, <2>2 DEF CheckEnters, Says, AtEntry
    <3>2. PICK Y : Y = {n}
      OBVIOUS
    <3>3. Y \in SUBSET Record({"error", "binary", "warn"})
      BY <1>0, <3>2 DEF Record
    <3>4. \A r \in Y : r.at = <<entry, 0>> /\ r.is = "error"
      BY <3>2
    <3>5. \E r \in Y : r.is = "error"
      BY <3>2
    <3>6. Flawed(entry)
      BY <2>1, <2>2 DEF Flawed
    <3> HIDE DEF n
    <3>7. IsFiniteSet(Y)
      BY <3>2, OneFinite
    <3> QED BY <2>1, <3>7, <3>1, <3>2, <3>3, <3>4, <3>5, <3>6, EntrySaid
  <2>3. CASE ~ Closed(entry)
    <3>1. told' = told \union {}
      BY <1>1, <1>5, <2>3 DEF CheckEnters
    <3>2. IsFiniteSet({})
      BY FS_EmptySet
    <3> QED BY <2>1, <2>3, <3>1, <3>2, EntrySaid
  <2> QED BY <2>2, <2>3
<1> QED BY <1>2, <1>4, <1>5

-----------------------------------------------------------------------------
(* checkConfig, at a block.                                                 *)

LEMMA PastBlock ==
    ASSUME Walk, block > 0, Onward, NEW i \in 1..Len(config), NEW j \in 0..Len(C(i).blocks)
    PROVE  Past(i, j)' <=> Past(i, j) \/ (i = entry /\ j = block)
<1>1. entry \in Nat /\ block \in Nat /\ E = C(entry) /\ block \in 1..Len(C(entry).blocks)
  BY HereFacts DEF Walk
<1>2. Len(C(entry).blocks) \in Nat /\ Len(C(i).blocks) \in Nat
  BY HereFacts, EntryFacts DEF Walk
<1>3. CASE block < Len(E.blocks)
  BY <1>1, <1>2, <1>3 DEF Onward, Past
<1>4. CASE ~ (block < Len(E.blocks))
  BY <1>1, <1>2, <1>4 DEF Onward, ToEntry, Past
<1> QED BY <1>3, <1>4

LEMMA WalkOn ==
    ASSUME Walk, block > 0, Onward, phase # "done", UNCHANGED <<config, phase, scanned>>,
           nums' \in [Keys -> Table], phase = "check" => rows' = rows
    PROVE  Walk'
<1>1. entry \in 1..Len(config) /\ E = C(entry) /\ Len(E.blocks) \in Nat /\ block <= Len(E.blocks)
  BY HereFacts, EntryFacts DEF Walk
<1>2. CASE block < Len(E.blocks)
  <2>1. entry' = entry /\ block' = block + 1 /\ E' = E
    BY <1>2 DEF Onward, E
  <2> QED BY <1>1, <1>2, <2>1, SameConfig DEF Walk
<1>3. CASE ~ (block < Len(E.blocks))
  <2>1. entry' = entry + 1 /\ block' = 0
    BY <1>3 DEF Onward, ToEntry
  <2> QED BY <1>1, <2>1 DEF Walk
<1> QED BY <1>2, <1>3

\* In the check, a block finds exactly the table that the accepted ones before it left.
LEMMA TakenNow ==
    ASSUME Walk, ToldRight, CheckTables, phase = "check", block > 0
    PROVE  nums[E.port][E.type] = Taken(entry, block)
<1>1. entry \in 1..Len(config) /\ E = C(entry) /\ C(entry).port \in PortNames /\ C(entry).type \in Types
  BY HereFacts, EntryFacts DEF Walk
<1>2. ASSUME NEW q \in Oks PROVE Earlier(q.at, entry, block)
  BY <1>2 DEF Oks, ToldRight, ToldOK, Checked, Past, Earlier
<1>3. Before(entry, block) = {q \in Oks : Listed(q.at[1], C(entry).port, C(entry).type)}
  BY <1>2 DEF Before
<1> QED BY <1>1, <1>3 DEF CheckTables, GivenFor, Taken

\* A block is passed over or refused.
LEMMA CheckRefuses ==
    ASSUME IInv, phase = "check", block > 0, Onward, UNCHANGED <<config, phase, scanned, rows, nums>>,
           ~ (Enters(entry) /\ Passes(entry, block)), C(entry).on,
           told' = told \/ told' = told \union {[at |-> <<entry, block>>, is |-> "error", num |-> 0]}
    PROVE  IInv'
<1>0. /\ Walk /\ ToldRight /\ ToldEntries /\ ToldBlocks /\ CheckTables
      /\ config' = config /\ phase' = "check"
  BY DEF IInv
<1>1. entry \in 1..Len(config) /\ block \in 1..Len(C(entry).blocks) /\ block \in Nat
  BY <1>0, HereFacts DEF Walk
<1>2. Oks' = Oks
  BY DEF Oks
<1>3. Walk'
  BY <1>0, WalkOn DEF Walk
<1>4. \A i \in 1..Len(config) : \A j \in 0..Len(C(i).blocks) :
          Checked(i, j)' <=> Checked(i, j) \/ (i = entry /\ j = block)
  BY <1>0, PastBlock DEF Checked
<1>5. ToldRight'
  <2>1. told' \in SUBSET Record({"error", "ok", "binary", "warn"})
    BY <1>0, <1>1 DEF ToldRight, Record
  <2>2. IsFiniteSet(told')
    <3> DEFINE n == [at |-> <<entry, block>>, is |-> "error", num |-> 0]
    <3>1. told' = told \/ told' = told \union {n}
      OBVIOUS
    <3> HIDE DEF n
    <3> QED BY <1>0, <3>1, FS_AddElement DEF ToldRight
  <2>3. Record({"error", "ok", "binary", "warn"})' = Record({"error", "ok", "binary", "warn"})
    BY <1>0 DEF Record
  <2>4. \A i \in 1..Len(config) : \A j \in 0..Len(C(i).blocks) : Checked(i, j) => Checked(i, j)'
    BY <1>4
  <2>5. /\ \A i \in 1..Len(config) : \A j \in 0..Len(C(i).blocks) : i = entry /\ j = block => Checked(i, j)'
        /\ block \in 0..Len(C(entry).blocks)
    BY <1>1, <1>4, <1>0, EntryFacts
  <2>6. ASSUME NEW r \in told
        PROVE  ToldOK(r)'
    <3>1. r.at[1] \in 1..Len(config)
      BY <1>0 DEF ToldRight, Record
    <3> QED BY <1>0, <1>2, <2>4, <3>1, SameOks, SameConfig DEF ToldRight, ToldOK
  <2>7. ASSUME NEW r \in told', r \notin told
        PROVE  ToldOK(r)'
    <3>1. r.at[1] = entry /\ r.at[2] = block /\ r.is = "error" /\ block # 0
      BY <2>7, <1>1
    <3> QED BY <1>0, <1>1, <2>5, <3>1, SameConfig DEF ToldOK
  <2> QED BY <2>1, <2>2, <2>3, <2>6, <2>7 DEF ToldRight
<1>6. ToldEntries'
  <2>1. \A i, what : Told(i, 0, what) => Told(i, 0, what)'
    BY DEF Told
  <2>2. ASSUME NEW i \in 1..Len(config), Checked(i, 0)' PROVE Checked(i, 0)
    BY <1>0, <1>1, <1>4, <2>2, EntryFacts
  <2> QED BY <1>0, <2>1, <2>2, SameConfig DEF ToldEntries
<1>7. ToldBlocks'
  <2> SUFFICES ASSUME NEW i \in 1..Len(config), NEW j \in 1..Len(C(i).blocks),
                      Checked(i, j)', Enters(i), Passes(i, j)
               PROVE  [at |-> <<i, j>>, is |-> "ok", num |-> NumberAt(i, j)] \in told
    BY <1>0, <1>2, SameOks, SameConfig DEF ToldBlocks
  <2>1. Checked(i, j)
    BY <1>0, <1>4, EntryFacts
  <2> QED BY <1>0, <2>1 DEF ToldBlocks
<1>8. CheckTables'
  BY <1>0, <1>2, SameOks DEF CheckTables
<1>9. ServeTables' /\ RowsEntries' /\ RowsBlocks'
  BY <1>0 DEF ServeTables, RowsEntries, RowsBlocks, Served
<1>10. RowsRight'
  BY <1>0 DEF RowsRight, Walk
<1> QED BY <1>3, <1>5, <1>6, <1>7, <1>8, <1>9, <1>10 DEF IInv

\* Claiming a number of an entry's type.
Puts(key, type, num) == nums' = [nums EXCEPT ![key][type] = @ \union {num}]
LEMMA Claimed ==
    ASSUME nums \in [Keys -> Table], NEW key \in Keys, NEW type \in Types, NEW num \in Nat,
           Puts(key, type, num)
    PROVE  /\ nums' \in [Keys -> Table]
           /\ \A k \in Keys, t \in Types :
                 nums'[k][t] = nums[k][t] \union (IF k = key /\ t = type THEN {num} ELSE {})
<1> DEFINE row == [nums[key] EXCEPT ![type] = nums[key][type] \union {num}]
<1>1. nums[key] \in Table
  OBVIOUS
<1>2. nums' = [nums EXCEPT ![key] = row]
  BY DEF Puts
<1>3. /\ row \in Table
      /\ \A t \in Types : row[t] = nums[key][t] \union (IF t = type THEN {num} ELSE {})
  BY <1>1 DEF Table
<1> HIDE DEF row
<1>4. nums' \in [Keys -> Table] /\ nums'[key] = row /\ \A k \in Keys : k # key => nums'[k] = nums[k]
  BY <1>2, <1>3
<1>5. ASSUME NEW k \in Keys, NEW t \in Types
      PROVE  nums'[k][t] = nums[k][t] \union (IF k = key /\ t = type THEN {num} ELSE {})
  <2>1. CASE k = key
    BY <1>3, <1>4, <2>1
  <2>2. CASE k # key
    BY <1>4, <2>2
  <2> QED BY <2>1, <2>2
<1> QED BY <1>4, <1>5

\* A block is accepted under the number that its table gives.
LEMMA CheckAccepts ==
    ASSUME IInv, phase = "check", block > 0, Onward, UNCHANGED <<config, phase, scanned, rows>>,
           Enters(entry), Passes(entry, block), NEW num, num = NumberAt(entry, block),
           told' = told \union {[at |-> <<entry, block>>, is |-> "ok", num |-> num]},
           Puts(C(entry).port, C(entry).type, num)
    PROVE  IInv'
<1> DEFINE n == [at |-> <<entry, block>>, is |-> "ok", num |-> num]
<1>0. /\ Walk /\ ToldRight /\ ToldEntries /\ ToldBlocks /\ CheckTables
      /\ config' = config /\ phase' = "check"
  BY DEF IInv
<1>1. /\ entry \in 1..Len(config) /\ block \in 1..Len(C(entry).blocks) /\ block \in Nat
      /\ C(entry).blocks[block].pin \in Int /\ C(entry).port \in Keys /\ C(entry).type \in Types
  BY <1>0, HereFacts, EntryFacts DEF Walk, BlockType
<1>2. num \in Nat
  BY <1>0, <1>1, TakenFinite, NumberIsFree DEF Passes, NumberAt
<1>3. /\ nums' \in [Keys -> Table]
      /\ \A k \in Keys, t \in Types : nums'[k][t] = nums[k][t] \union
            (IF k = C(entry).port /\ t = C(entry).type THEN {num} ELSE {})
  <2>1. PICK key \in Keys, type \in Types : key = C(entry).port /\ type = C(entry).type
    BY <1>1
  <2>2. Puts(key, type, num)
    BY <2>1 DEF Puts
  <2>3. nums \in [Keys -> Table]
    BY <1>0 DEF Walk
  <2>4. /\ nums' \in [Keys -> Table]
        /\ \A k \in Keys, t \in Types :
              nums'[k][t] = nums[k][t] \union (IF k = key /\ t = type THEN {num} ELSE {})
    BY <1>2, <2>2, <2>3, Claimed
  <2> QED BY <2>1, <2>4
<1>4. Walk'
  BY <1>0, <1>3, WalkOn DEF Walk
<1>5. n.at = <<entry, block>> /\ n.at[1] = entry /\ n.at[2] = block /\ n.is = "ok" /\ n.num = num
  OBVIOUS
<1>6. Oks' = Oks \union {n} /\ told' = told \union {n}
  BY DEF Oks
<1>7. n \in Record({"error", "ok", "binary", "warn"})
  BY <1>1, <1>2 DEF Record
<1> HIDE DEF n
<1>8. \A i \in 1..Len(config) : \A j \in 0..Len(C(i).blocks) :
          Checked(i, j)' <=> Checked(i, j) \/ (i = entry /\ j = block)
  BY <1>0, PastBlock DEF Checked
<1>9. ASSUME NEW i \in 1..Len(config), NEW j \in 0..Len(C(i).blocks), Checked(i, j)'
      PROVE  /\ Taken(i, j)' = Taken(i, j) /\ (Passes(i, j)' <=> Passes(i, j))
             /\ NumberAt(i, j)' = NumberAt(i, j)
  <2>1. Past(i, j) \/ (i = entry /\ j = block)
    BY <1>0, <1>8, <1>9 DEF Checked
  <2>2. ~ Earlier(n.at, i, j)
    BY <1>1, <1>5, <2>1, EntryFacts, <1>0 DEF Earlier, Past
  <2>3. Before(i, j)' = Before(i, j)
    BY <1>0, <1>6, <2>2 DEF Before, Listed, C, Earlier
  <2> QED BY <1>0, <2>3, SameTaken
<1>10. ToldRight'
  <2>1. told' \in SUBSET Record({"error", "ok", "binary", "warn"}) /\ IsFiniteSet(told')
    BY <1>0, <1>6, <1>7, FS_AddElement DEF ToldRight
  <2>2. Record({"error", "ok", "binary", "warn"})' = Record({"error", "ok", "binary", "warn"})
    BY <1>0 DEF Record
  <2>3. ASSUME NEW r \in told
        PROVE  ToldOK(r)'
    <3>1. r.at[1] \in 1..Len(config)
      BY <1>0 DEF ToldRight, Record
    <3> QED BY <1>0, <1>8, <1>9, <3>1, SameConfig DEF ToldRight, ToldOK
  <2>4. ASSUME NEW r, r = n
        PROVE  ToldOK(r)'
    <3>1. r.at[1] = entry /\ r.at[2] = block /\ r.is = "ok" /\ r.num = num
      BY <1>5, <2>4
    <3>2. PICK i, j : i = entry /\ j = block
      OBVIOUS
    <3>3. i \in 1..Len(config) /\ j \in 0..Len(C(i).blocks) /\ j \in 1..Len(C(i).blocks)
      BY <1>0, <1>1, <3>2, EntryFacts
    <3>4. Checked(i, j)' /\ Passes(i, j)' /\ NumberAt(i, j)' = num
      BY <1>8, <1>9, <3>2, <3>3
    <3>5. C(i)'.on /\ Enters(i)' /\ j \in 1..Len(C(i)'.blocks)
      BY <1>0, <3>2, <3>3, SameConfig DEF Enters
    <3> QED BY <3>1, <3>2, <3>4, <3>5 DEF ToldOK
  <2> QED BY <1>6, <2>1, <2>2, <2>3, <2>4 DEF ToldRight
<1>11. ToldEntries'
  <2>1. \A i, what : Told(i, 0, what) => Told(i, 0, what)'
    BY <1>6 DEF Told
  <2>2. ASSUME NEW i \in 1..Len(config), Checked(i, 0)' PROVE Checked(i, 0)
    BY <1>0, <1>1, <1>8, <2>2, EntryFacts
  <2> QED BY <1>0, <2>1, <2>2, SameConfig DEF ToldEntries
<1>12. ToldBlocks'
  <2> SUFFICES ASSUME NEW i \in 1..Len(config), NEW j \in 1..Len(C(i).blocks),
                      Checked(i, j)', Enters(i), Passes(i, j)'
               PROVE  [at |-> <<i, j>>, is |-> "ok", num |-> NumberAt(i, j)'] \in told'
    BY <1>0, SameConfig DEF ToldBlocks
  <2>1. Passes(i, j) /\ NumberAt(i, j)' = NumberAt(i, j) /\ j \in 0..Len(C(i).blocks)
    BY <1>0, <1>9, EntryFacts
  <2>2. CASE Checked(i, j)
    BY <1>0, <1>6, <2>1, <2>2 DEF ToldBlocks
  <2>3. CASE i = entry /\ j = block
    BY <1>6, <2>1, <2>3 DEF n
  <2> QED BY <1>8, <2>1, <2>2, <2>3
<1>13. CheckTables'
  <2> SUFFICES ASSUME NEW k \in PortNames, NEW t \in Types PROVE nums'[k][t] = GivenFor(k, t)'
    BY DEF CheckTables
  <2>1. GivenFor(k, t)' = GivenFor(k, t) \union (IF Listed(entry, k, t) THEN {num} ELSE {})
    BY <1>0, <1>5, <1>6 DEF GivenFor, Listed, C
  <2>2. k \in Keys /\ nums[k][t] = GivenFor(k, t)
    BY <1>0 DEF CheckTables, Keys
  <2> QED BY <1>3, <2>1, <2>2 DEF Listed
<1>14. ServeTables' /\ RowsEntries' /\ RowsBlocks'
  BY <1>0 DEF ServeTables, RowsEntries, RowsBlocks, Served
<1>15. RowsRight'
  BY <1>0 DEF RowsRight, Walk
<1> QED BY <1>4, <1>10, <1>11, <1>12, <1>13, <1>14, <1>15 DEF IInv

LEMMA CheckBlocks ==
    ASSUME IInv, phase = "check", block > 0, CheckBlock, UNCHANGED <<config, phase, scanned, rows>>
    PROVE  IInv'
<1>0. Walk /\ ToldRight /\ CheckTables
  BY DEF IInv
<1>1. /\ entry \in 1..Len(config) /\ E = C(entry) /\ B = C(entry).blocks[block] /\ Onward
      /\ C(entry).on /\ (Enters(entry) \/ C(entry).driver = "none")
  BY <1>0, HereFacts DEF Walk, CheckBlock, AtBlock, Loop
<1>2. nums[E.port][E.type] = Taken(entry, block)
  BY <1>0, TakenNow
<1>3. B.on /\ Fits(CheckKey(E)) <=> Passes(entry, block)
  BY <1>1, <1>2 DEF Fits, CheckKey, Passes
<1>4. Number(CheckKey(E)) = NumberAt(entry, block)
  BY <1>1, <1>2 DEF Number, CheckKey, NumberAt
<1>5. CASE ~ B.on /\ UNCHANGED <<told, nums>>
  BY <1>1, <1>3, <1>5, CheckRefuses
<1>6. CASE B.on /\ (E.driver = "none" \/ ~ Fits(CheckKey(E))) /\ Says("error", 0) /\ UNCHANGED nums
  BY <1>1, <1>3, <1>6, CheckRefuses DEF Says, Enters
<1>7. CASE B.on /\ E.driver = "compiled" /\ Fits(CheckKey(E))
           /\ Says("ok", Number(CheckKey(E))) /\ Claims(CheckKey(E))
  <2>1. PICK num : num = NumberAt(entry, block)
    OBVIOUS
  <2>2. told' = told \union {[at |-> <<entry, block>>, is |-> "ok", num |-> num]}
    BY <1>4, <1>7, <2>1 DEF Says
  <2>3. Puts(C(entry).port, C(entry).type, num)
    BY <1>1, <1>4, <1>7, <2>1 DEF Claims, CheckKey, Puts
  <2>4. Enters(entry) /\ Passes(entry, block)
    BY <1>1, <1>3, <1>7
  <2> QED BY <1>1, <2>1, <2>2, <2>3, <2>4, CheckAccepts
<1> QED BY <1>5, <1>6, <1>7 DEF CheckBlock

-----------------------------------------------------------------------------
(* From one loop to the other.                                              *)

\* The check is over, and what it said stays.
LEMMA ToldStays ==
    ASSUME IInv, UNCHANGED <<config, told>>, phase' # "check",
           \A i \in 1..Len(config) : \A j \in 0..Len(C(i).blocks) : Checked(i, j)
    PROVE  ToldRight' /\ ToldEntries' /\ ToldBlocks' /\ CheckTables'
<1>0. ToldRight /\ ToldEntries /\ ToldBlocks /\ Walk /\ config' = config /\ Oks' = Oks
  BY DEF IInv, Oks
<1>1. \A i, j : Checked(i, j)'
  BY DEF Checked
<1>2. ToldRight'
  <2>1. Record({"error", "ok", "binary", "warn"})' = Record({"error", "ok", "binary", "warn"})
    BY <1>0 DEF Record
  <2>2. ASSUME NEW r \in told PROVE ToldOK(r)'
    BY <1>0, <1>1, SameOks, SameConfig DEF ToldRight, ToldOK
  <2> QED BY <1>0, <2>1, <2>2 DEF ToldRight
<1>3. ToldEntries'
  <2> SUFFICES ASSUME NEW i \in 1..Len(config)
               PROVE  /\ Flawed(i)' => Told(i, 0, "error")'
                      /\ C(i)'.on /\ C(i)'.driver = "binary" => Told(i, 0, "binary")'
    BY <1>0 DEF ToldEntries
  <2>1. Checked(i, 0)
    BY <1>0, EntryFacts
  <2>2. \A what : Told(i, 0, what) => Told(i, 0, what)'
    BY DEF Told
  <2> QED BY <1>0, <2>1, <2>2, SameConfig DEF ToldEntries
<1>4. ToldBlocks'
  <2> SUFFICES ASSUME NEW i \in 1..Len(config), NEW j \in 1..Len(C(i).blocks), Enters(i), Passes(i, j)
               PROVE  [at |-> <<i, j>>, is |-> "ok", num |-> NumberAt(i, j)] \in told
    BY <1>0, SameOks, SameConfig DEF ToldBlocks
  <2>1. Checked(i, j)
    BY <1>0, EntryFacts
  <2> QED BY <1>0, <2>1 DEF ToldBlocks
<1> QED BY <1>2, <1>3, <1>4 DEF CheckTables

\* What start-up has made stays right.
LEMMA RowsStay ==
    ASSUME IInv, UNCHANGED <<config, told>>,
           rows' = rows \/ \E r \in Record({"skipped", "separate"} \union Numbered) :
                              RowOK(r) /\ rows' = rows \union {r}
    PROVE  RowsRight'
<1>0. RowsRight /\ config' = config /\ Oks' = Oks
  BY DEF IInv, Oks
<1>1. \A r : RowOK(r) => RowOK(r)'
  BY <1>0, SameOks, SameConfig DEF RowOK
<1>2. Record({"skipped", "separate"} \union Numbered)' = Record({"skipped", "separate"} \union Numbered)
  BY <1>0 DEF Record
<1> QED BY <1>0, <1>1, <1>2 DEF RowsRight

LEMMA Turning == ASSUME IInv, Turns PROVE IInv'
<1>0. /\ Walk /\ entry > Len(config) /\ entry \in Nat /\ Len(config) \in Nat
      /\ UNCHANGED <<config, told, rows, scanned>> /\ config' = config
      /\ phase' \in {"serve", "done"} /\ (phase' = "serve" <=> phase = "check")
      /\ (phase' = "done" <=> phase = "serve")
      /\ entry' = 1 /\ block' = 0 /\ nums' = Empty
  BY DEF IInv, Walk, Turns
<1>1. ASSUME NEW i \in 1..Len(config), NEW j PROVE Past(i, j) /\ ~ (Past(i, j)' /\ j \in Nat)
  BY <1>0 DEF Past
<1>2. Walk'
  <2>1. Empty \in [Keys -> Table]
    BY DEF Empty, Table
  <2> QED BY <1>0, <2>1 DEF Walk
<1>3. ToldRight' /\ ToldEntries' /\ ToldBlocks' /\ CheckTables'
  BY <1>0, <1>1, ToldStays DEF Checked
<1>4. ServeTables'
  <2> SUFFICES ASSUME phase' = "serve" PROVE ServeTables'
    BY DEF ServeTables
  <2>1. ASSUME NEW k \in PortNames \ {0}, NEW t \in Types PROVE nums'[k][t] = GivenPast(k, t)'
    <3>1. \A q \in Oks' : ~ Past(q.at[1], q.at[2])'
      <4> SUFFICES ASSUME NEW q \in told PROVE ~ Past(q.at[1], q.at[2])'
        BY <1>0 DEF Oks
      <4>1. q.at[1] \in 1..Len(config) /\ q.at[2] \in Nat
        BY DEF IInv, ToldRight, Record
      <4> QED BY <1>1, <4>1
    <3>2. GivenPast(k, t)' = {}
      BY <3>1 DEF GivenPast
    <3> QED BY <1>0, <3>2 DEF Empty, Keys
  <2>2. \A k \in 1..MaxEntries, t \in Types : nums'[-k][t] = {}
    BY <1>0 DEF Empty, Keys
  <2> QED BY <1>0, <2>1, <2>2 DEF ServeTables
<1>5. RowsRight'
  BY <1>0, RowsStay
<1>6. ASSUME NEW i \in 1..Len(config), NEW j \in Nat PROVE Served(i, j)' => Served(i, j)
  BY <1>0, <1>1 DEF Served
<1>7. RowsEntries'
  <2>1. \A i, what : Has(i, 0, what) => Has(i, 0, what)'
    BY <1>0 DEF Has
  <2> QED BY <1>0, <1>6, <2>1, SameConfig DEF RowsEntries, IInv
<1>8. RowsBlocks'
  <2>1. Oks' = Oks
    BY <1>0 DEF Oks
  <2>2. ASSUME NEW i \in 1..Len(config), NEW j \in 1..Len(C(i).blocks), Served(i, j)' PROVE Served(i, j)
    BY <1>0, <1>6, <2>2, EntryFacts
  <2>3. \A i, j : Made(i, j) => Made(i, j)'
    BY <1>0, <2>1, SameOks, SameConfig DEF Made
  <2> QED BY <1>0, <2>1, <2>2, <2>3, SameOks, SameConfig DEF RowsBlocks, IInv
<1> QED BY <1>2, <1>3, <1>4, <1>5, <1>7, <1>8 DEF IInv

-----------------------------------------------------------------------------
(* serve, at an entry.                                                      *)

\* No device that the check accepted on a port is passed by.
LEMMA TablesPassed ==
    ASSUME IInv, phase = "serve", block = 0, entry <= Len(config), UNCHANGED <<config, told>>,
           \/ block' = 0 /\ entry' = entry + 1 /\ ~ (Enters(entry) /\ ~ Closed(entry))
           \/ block' = 1 /\ entry' = entry,
           NEW k \in PortNames \ {0}, NEW t
    PROVE  GivenPast(k, t)' = GivenPast(k, t)
<1>0. Walk /\ ToldRight /\ Oks' = Oks
  BY DEF IInv, Oks
<1>1. ASSUME NEW q \in Oks, Listed(q.at[1], k, t) PROVE Past(q.at[1], q.at[2])' <=> Past(q.at[1], q.at[2])
  <2>1. /\ q.at[1] \in 1..Len(config) /\ q.at[2] \in Nat /\ q.at[2] > 0
        /\ Enters(q.at[1]) /\ ~ Closed(q.at[1])
    BY <1>0, <1>1 DEF Oks, ToldRight, ToldOK, Record, Listed, Closed
  <2>2. PICK i \in 1..Len(config), j \in Nat : i = q.at[1] /\ j = q.at[2]
    BY <2>1
  <2>3. Past(i, j)' <=> Past(i, j) \/ (i = entry /\ (j = 0 \/ entry' = entry + 1))
    BY <1>0, PastEntry
  <2>4. i = entry => entry' # entry + 1
    BY <1>0, <2>1, <2>2 DEF Walk
  <2> QED BY <2>1, <2>2, <2>3, <2>4
<1>2. \A q : Listed(q.at[1], k, t)' <=> Listed(q.at[1], k, t)
  BY SameConfig
<1> QED BY <1>0, <1>1, <1>2 DEF GivenPast

\* What Served and the rows of an entry become.
LEMMA RowsOfEntry ==
    ASSUME IInv, phase = "serve", block = 0, entry <= Len(config), UNCHANGED <<config, told, phase>>,
           rows \subseteq rows',
           \/ block' = 0 /\ entry' = entry + 1 /\ ~ (Enters(entry) /\ ~ Closed(entry))
           \/ block' = 1 /\ entry' = entry,
           NEW e, e = entry,
           C(e).on /\ C(e).driver = "binary" /\ ~ Closed(e) => Has(e, 0, "separate")',
           C(e).on /\ C(e).driver = "none" => Has(e, 0, "skipped")'
    PROVE  RowsEntries' /\ RowsBlocks'
<1>0. Walk /\ RowsEntries /\ RowsBlocks /\ Oks' = Oks /\ config' = config
  BY DEF IInv, Oks
<1>1. \A i, j \in Nat : Served(i, j)' <=> Served(i, j) \/ (i = entry /\ (j = 0 \/ entry' = entry + 1))
  BY <1>0, PastEntry DEF Served
<1>2. RowsEntries'
  <2>1. \A i, what : Has(i, 0, what) => Has(i, 0, what)'
    BY DEF Has
  <2> SUFFICES ASSUME NEW i \in 1..Len(config), Served(i, 0)', C(i).on
               PROVE  /\ C(i).driver = "binary" /\ ~ Closed(i) => Has(i, 0, "separate")'
                      /\ C(i).driver = "none" => Has(i, 0, "skipped")'
    BY <1>0, SameConfig DEF RowsEntries
  <2>2. CASE Served(i, 0)
    BY <1>0, <2>1, <2>2 DEF RowsEntries
  <2>3. CASE i = entry
    BY <2>3
  <2>4. i \in Nat
    BY <1>0 DEF Walk
  <2> QED BY <1>1, <2>2, <2>3, <2>4
<1>3. RowsBlocks'
  <2> SUFFICES ASSUME NEW i \in 1..Len(config), NEW j \in 1..Len(C(i).blocks),
                      Served(i, j)', Enters(i), ~ Closed(i), Passes(i, j)
               PROVE  Made(i, j)'
    BY <1>0, SameOks, SameConfig DEF RowsBlocks
  <2>1. i \in Nat /\ j \in Nat /\ j # 0
    BY <1>0, EntryFacts
  <2>2. i # entry \/ entry' # entry + 1
    BY <1>0 DEF Walk
  <2>3. Served(i, j)
    BY <1>1, <2>1, <2>2
  <2>4. Made(i, j)
    BY <1>0, <2>3 DEF RowsBlocks
  <2> QED BY <1>0, <2>4, SameOks, SameConfig DEF Made
<1> QED BY <1>2, <1>3

LEMMA ServeEntry ==
    ASSUME IInv, phase = "serve", block = 0, entry <= Len(config), UNCHANGED <<config, phase, told>>,
           \/ (ServeSkips \/ ServeSeparate) /\ UNCHANGED <<nums, scanned>>
           \/ ServeEnters /\ UNCHANGED nums
    PROVE  IInv'
<1>0. /\ Walk /\ ServeTables /\ config' = config /\ phase' = "serve"
      /\ entry \in 1..Len(config) /\ E = C(entry) /\ Len(E.blocks) \in Nat /\ Len(E.blocks) > 0
      /\ Len(config) \in Nat /\ Len(config) <= MaxEntries /\ scanned \in Nat /\ scanned < entry
  BY HereFacts, EntryFacts DEF IInv, Walk
<1>1. Portless <=> Closed(entry)
  BY <1>0 DEF Portless, Closed
<1>2. ToldRight' /\ ToldEntries' /\ ToldBlocks' /\ CheckTables'
  BY <1>0, ToldStays DEF Checked
<1>3. CASE (ServeSkips \/ ServeSeparate) /\ UNCHANGED <<nums, scanned>>
  <2>1. block' = 0 /\ entry' = entry + 1 /\ ~ (Enters(entry) /\ ~ Closed(entry))
    BY <1>0, <1>1, <1>3 DEF ServeSkips, ServeSeparate, ToEntry, Enters
  <2>2. Walk'
    BY <1>0, <1>3, <2>1 DEF Walk
  <2>3. ServeTables'
    BY <1>0, <1>3, <2>1, TablesPassed DEF ServeTables
  <2>4. \/ rows' = rows /\ ~ C(entry).on
        \/ \E what \in {"skipped", "separate"} :
              /\ rows' = rows \union {[at |-> <<entry, 0>>, is |-> what, num |-> 0]} /\ C(entry).on
              /\ what = "separate" <=> C(entry).driver = "binary" /\ ~ Closed(entry)
    BY <1>0, <1>1, <1>3 DEF ServeSkips, ServeSeparate, Makes, AtEntry
  <2>5. CASE rows' = rows /\ ~ C(entry).on
    BY <1>0, <1>2, <2>1, <2>2, <2>3, <2>5, RowsStay, RowsOfEntry DEF IInv
  <2>6. ASSUME NEW what \in {"skipped", "separate"}, C(entry).on,
               rows' = rows \union {[at |-> <<entry, 0>>, is |-> what, num |-> 0]},
               what = "separate" <=> C(entry).driver = "binary" /\ ~ Closed(entry)
        PROVE  IInv'
    <3>1. PICK r : r = [at |-> <<entry, 0>>, is |-> what, num |-> 0]
      OBVIOUS
    <3>2. rows' = rows \union {r} /\ r.at = <<entry, 0>> /\ r.at[1] = entry /\ r.is = what
      BY <2>6, <3>1
    <3>3. r \in Record({"skipped", "separate"} \union Numbered)
      BY <1>0, <3>1 DEF Record
    <3>4. RowOK(r)
      BY <2>6, <3>2 DEF RowOK, Numbered
    <3>5. RowsRight'
      BY <1>0, <3>2, <3>3, <3>4, RowsStay
    <3>6. r \in rows' /\ rows \subseteq rows'
      BY <3>2
    <3>7. PICK e : e = entry
      OBVIOUS
    <3>8. Has(e, 0, what)'
      BY <3>2, <3>6, <3>7 DEF Has
    <3>9. /\ C(e).on /\ C(e).driver = "binary" /\ ~ Closed(e) => Has(e, 0, "separate")'
          /\ C(e).on /\ C(e).driver = "none" => Has(e, 0, "skipped")'
      BY <2>6, <3>7, <3>8
    <3> QED BY <1>0, <1>2, <2>1, <2>2, <2>3, <3>5, <3>6, <3>7, <3>9, RowsOfEntry DEF IInv
  <2> QED BY <2>4, <2>5, <2>6
<1>4. CASE ServeEnters /\ UNCHANGED nums
  <2>1. /\ block' = 1 /\ entry' = entry /\ rows' = rows /\ Enters(entry) /\ ~ Closed(entry)
        /\ scanned' = IF C(entry).port = 0 THEN scanned + 1 ELSE scanned
    BY <1>0, <1>1, <1>4 DEF ServeEnters, ToBlock, Enters
  <2>2. E' = E /\ (Enters(entry)' <=> Enters(entry)) /\ (Closed(entry)' <=> Closed(entry))
    BY <1>0, <2>1 DEF E, Enters, Closed, C
  <2>3. Walk'
    BY <1>0, <1>4, <2>1, <2>2 DEF Walk
  <2>4. ServeTables'
    <3>1. \A k \in 1..MaxEntries : k > scanned' => k > scanned
      BY <1>0, <2>1
    <3>2. C(entry).port = 0 => scanned' > 0 /\ scanned' \in 1..MaxEntries /\ scanned' > scanned
      BY <1>0, <2>1
    <3>3. E.type \in Types
      BY <1>0, EntryFacts
    <3>4. C(entry).port = 0 => nums'[-(scanned')][E'.type] = {}
      BY <1>0, <1>4, <2>2, <3>2, <3>3 DEF ServeTables
    <3>5. \A k \in PortNames \ {0}, t \in Types : nums'[k][t] = GivenPast(k, t)'
      BY <1>0, <1>4, <2>1, TablesPassed DEF ServeTables
    <3> QED BY <1>0, <1>4, <2>2, <3>1, <3>2, <3>4, <3>5 DEF ServeTables
  <2>5. RowsRight'
    BY <2>1, RowsStay
  <2>6. RowsEntries' /\ RowsBlocks'
    BY <1>0, <2>1, RowsOfEntry DEF Enters
  <2> QED BY <1>2, <2>3, <2>4, <2>5, <2>6 DEF IInv
<1> QED BY <1>3, <1>4

-----------------------------------------------------------------------------
(* serve, at a block.                                                       *)

\* A port's table is the one the check had here; that of a scanning entry holds no
\* more, for the check kept one table for all of them.
LEMMA TableNow ==
    ASSUME IInv, phase = "serve", block > 0
    PROVE  /\ E.port # 0 => nums[E.port][E.type] = Taken(entry, block)
           /\ E.port = 0 => nums[-scanned][E.type] \subseteq Taken(entry, block)
<1>0. /\ Walk /\ ServeTables /\ E = C(entry) /\ E.port \in PortNames /\ E.type \in Types
  BY HereFacts, EntryFacts DEF IInv, Walk
<1>1. GivenPast(E.port, E.type) = Taken(entry, block)
  BY <1>0 DEF GivenPast, Taken, Before, Past, Earlier
<1> QED BY <1>0, <1>1 DEF ServeTables

\* The next block's table in the check: that of this one and the number given here.
LEMMA NextTaken ==
    ASSUME IInv, phase = "serve", NEW i \in 1..Len(config), NEW j \in 1..Len(C(i).blocks), Enters(i)
    PROVE  Taken(i, j) \union (IF Passes(i, j) THEN {NumberAt(i, j)} ELSE {}) \subseteq Taken(i, j + 1)
<1>0. Walk /\ ToldRight /\ ToldBlocks /\ i \in Nat /\ j \in Nat /\ Checked(i, j)
  BY EntryFacts DEF IInv, Walk, Checked
<1>1. Before(i, j) \subseteq Before(i, j + 1)
  <2> SUFFICES ASSUME NEW q \in Before(i, j) PROVE Earlier(q.at, i, j + 1)
    BY DEF Before
  <2>1. q.at[1] \in Nat /\ q.at[2] \in Nat /\ Earlier(q.at, i, j)
    BY <1>0 DEF Before, Oks, ToldRight, Record
  <2> QED BY <1>0, <2>1 DEF Earlier
<1>2. ASSUME Passes(i, j) PROVE NumberAt(i, j) \in Taken(i, j + 1)
  <2>1. PICK r : r = [at |-> <<i, j>>, is |-> "ok", num |-> NumberAt(i, j)]
    OBVIOUS
  <2>2. r \in Oks /\ r.at[1] = i /\ r.at[2] = j /\ r.num = NumberAt(i, j)
    BY <1>0, <1>2, <2>1 DEF ToldBlocks, Oks
  <2>3. r \in Before(i, j + 1)
    BY <1>0, <2>2 DEF Before, Earlier, Listed
  <2> QED BY <2>2, <2>3 DEF Taken
<1> QED BY <1>1, <1>2 DEF Taken

\* The same for a port, over all its entries.
LEMMA NextGiven ==
    ASSUME IInv, phase = "serve", block > 0, Onward, UNCHANGED <<config, told>>, NEW k, NEW t
    PROVE  GivenPast(k, t)' = GivenPast(k, t) \union
              (IF Listed(entry, k, t) /\ Enters(entry) /\ Passes(entry, block)
               THEN {NumberAt(entry, block)} ELSE {})
<1>0. /\ Walk /\ ToldRight /\ ToldBlocks /\ Oks' = Oks /\ config' = config
      /\ entry \in 1..Len(config) /\ block \in 1..Len(C(entry).blocks) /\ Checked(entry, block)
  BY HereFacts DEF IInv, Oks, Walk, Checked
<1>1. ASSUME NEW q \in Oks
      PROVE  Past(q.at[1], q.at[2])' <=> Past(q.at[1], q.at[2]) \/ (q.at[1] = entry /\ q.at[2] = block)
  <2>1. q.at[1] \in 1..Len(config) /\ q.at[2] \in 0..Len(C(q.at[1]).blocks)
    BY <1>0 DEF Oks, ToldRight, ToldOK, Record
  <2>2. PICK i \in 1..Len(config) : i = q.at[1]
    BY <2>1
  <2>3. PICK j \in 0..Len(C(i).blocks) : j = q.at[2]
    BY <2>1, <2>2
  <2>4. Past(i, j)' <=> Past(i, j) \/ (i = entry /\ j = block)
    BY <1>0, PastBlock
  <2> QED BY <2>2, <2>3, <2>4
<1>2. \A i : Listed(i, k, t)' <=> Listed(i, k, t)
  BY <1>0, SameConfig
<1>3. ASSUME NEW q \in Oks, q.at[1] = entry, q.at[2] = block
      PROVE  Enters(entry) /\ Passes(entry, block) /\ q.num = NumberAt(entry, block)
  BY <1>0, <1>3 DEF Oks, ToldRight, ToldOK
<1>4. ASSUME Enters(entry), Passes(entry, block)
      PROVE  \E q \in Oks : q.at[1] = entry /\ q.at[2] = block /\ q.num = NumberAt(entry, block)
  <2>1. PICK r : r = [at |-> <<entry, block>>, is |-> "ok", num |-> NumberAt(entry, block)]
    OBVIOUS
  <2>2. r \in told
    BY <1>0, <1>4, <2>1 DEF ToldBlocks
  <2> QED BY <2>1, <2>2 DEF Oks
<1> DEFINE New == {q \in Oks : q.at[1] = entry /\ q.at[2] = block /\ Listed(entry, k, t)}
<1>5. GivenPast(k, t)' = GivenPast(k, t) \union {q.num : q \in New}
  BY <1>0, <1>1, <1>2 DEF GivenPast
<1>6. {q.num : q \in New} = IF Listed(entry, k, t) /\ Enters(entry) /\ Passes(entry, block)
                            THEN {NumberAt(entry, block)} ELSE {}
  BY <1>3, <1>4
<1> QED BY <1>5, <1>6

\* serve skips a block or serves it under num.  It serves what the check accepted, and
\* on a port nothing else and under the same number.
LEMMA BlockMade ==
    ASSUME IInv, phase = "serve", block > 0, Onward, UNCHANGED <<config, phase, told, scanned>>,
           NEW key, key = ServeKey, NEW n,
           n \in Record({"skipped"} \union Numbered), n.at = <<entry, block>>,
           \/ ~ Passes(entry, block) /\ nums' = nums /\ rows' = rows
           \/ ~ Passes(entry, block) /\ nums' = nums /\ rows' = rows \union {n} /\ n.is = "skipped"
           \/ /\ Puts(key, E.type, n.num) /\ rows' = rows \union {n} /\ n.is \in Numbered
              /\ E.port # 0 => Passes(entry, block) /\ n.num = NumberAt(entry, block)
              /\ E.port = 0 => n.num \in Taken(entry, block) \union
                                   (IF Passes(entry, block) THEN {NumberAt(entry, block)} ELSE {})
    PROVE  IInv'
<1>00. /\ Walk /\ ServeTables /\ RowsRight /\ RowsEntries /\ RowsBlocks /\ Oks' = Oks /\ config' = config
       /\ phase' = "serve" /\ scanned' = scanned
  BY DEF IInv, Oks
<1>01. /\ entry \in 1..Len(config) /\ block \in 1..Len(C(entry).blocks) /\ block \in Nat /\ E = C(entry)
       /\ E.port \in PortNames /\ E.port \in Nat /\ E.type \in Types
  BY <1>00, HereFacts, EntryFacts DEF Walk
<1>02. /\ Enters(entry) /\ ~ Closed(entry) /\ scanned <= entry /\ scanned \in Nat
       /\ Len(config) <= MaxEntries /\ Len(config) \in Nat /\ nums \in [Keys -> Table]
  BY <1>00, <1>01 DEF Walk
<1>03. n.num \in Nat
  BY DEF Record
<1>0. /\ Walk /\ ServeTables /\ RowsRight /\ RowsEntries /\ RowsBlocks /\ Oks' = Oks /\ config' = config
      /\ phase' = "serve" /\ E = C(entry) /\ scanned' = scanned /\ scanned \in Nat
      /\ entry \in 1..Len(config) /\ block \in 1..Len(C(entry).blocks) /\ block \in Nat
      /\ Enters(entry) /\ ~ Closed(entry) /\ scanned <= entry /\ Len(config) <= MaxEntries
      /\ E.port \in PortNames /\ E.port \in Nat /\ E.type \in Types /\ Len(config) \in Nat
      /\ nums \in [Keys -> Table] /\ n.num \in Nat
  BY <1>00, <1>01, <1>02, <1>03
<1>1. key \in Keys /\ (E.port = 0 => key = -scanned /\ scanned > 0) /\ (E.port # 0 => key = E.port)
  <2>1. E.port = 0 => scanned > 0
    BY <1>00 DEF ServeTables
  <2>2. scanned > 0 => -scanned \in Keys
    BY <1>01, <1>02 DEF Keys
  <2>3. E.port \in Keys
    BY <1>01 DEF Keys
  <2>4. key = IF E.port = 0 THEN -scanned ELSE E.port
    BY DEF ServeKey
  <2> QED BY <2>1, <2>2, <2>3, <2>4
<1>2. nums' \in [Keys -> Table]
      /\ \A k \in Keys, t \in Types :
            \/ nums'[k][t] = nums[k][t]
            \/ k = key /\ t = E.type /\ n.is \in Numbered /\ nums'[k][t] = nums[k][t] \union {n.num}
  <2>1. CASE nums' = nums
    BY <1>0, <2>1
  <2>2. CASE Puts(key, E.type, n.num) /\ n.is \in Numbered
    <3>1. PICK type \in Types : type = E.type
      BY <1>0
    <3>2. PICK num \in Nat : num = n.num
      BY <1>0
    <3>3. /\ nums' \in [Keys -> Table]
          /\ \A k \in Keys, t \in Types :
                nums'[k][t] = nums[k][t] \union (IF k = key /\ t = type THEN {num} ELSE {})
      <4>1. Puts(key, type, num)
        BY <2>2, <3>1, <3>2
      <4>2. nums \in [Keys -> Table] /\ key \in Keys
        BY <1>02, <1>1
      <4> QED BY <3>1, <3>2, <4>1, <4>2, Claimed
    <3>4. ASSUME NEW k \in Keys, NEW t \in Types
          PROVE  \/ nums'[k][t] = nums[k][t]
                 \/ k = key /\ t = E.type /\ n.is \in Numbered /\ nums'[k][t] = nums[k][t] \union {n.num}
      <4>1. nums'[k][t] = nums[k][t] \union (IF k = key /\ t = type THEN {num} ELSE {})
        BY <3>3
      <4>2. CASE k = key /\ t = type
        BY <2>2, <3>1, <3>2, <4>1, <4>2
      <4>3. CASE ~ (k = key /\ t = type)
        BY <4>1, <4>3
      <4> QED BY <4>2, <4>3
    <3> QED BY <3>3, <3>4
  <2> QED BY <2>1, <2>2
<1>3. Walk'
  BY <1>0, <1>2, WalkOn
<1>4. ToldRight' /\ ToldEntries' /\ ToldBlocks' /\ CheckTables'
  BY <1>0, ToldStays DEF Checked
<1>5. ServeTables'
  <2>1. ASSUME NEW k \in PortNames \ {0}, NEW t \in Types PROVE nums'[k][t] = GivenPast(k, t)'
    <3>1. k \in Keys /\ nums[k][t] = GivenPast(k, t)
      BY <1>0 DEF ServeTables, Keys
    <3>2. GivenPast(k, t)' = GivenPast(k, t) \union
              (IF Listed(entry, k, t) /\ Enters(entry) /\ Passes(entry, block)
               THEN {NumberAt(entry, block)} ELSE {})
      BY NextGiven
    <3>3. CASE Listed(entry, k, t)
      <4>1. k = key /\ t = E.type /\ E.port # 0
        BY <1>0, <1>1, <3>3 DEF Listed
      <4>2. CASE Passes(entry, block)
        <5>1. Puts(key, E.type, n.num) /\ n.num = NumberAt(entry, block)
          BY <4>1, <4>2
        <5>2. nums'[k][t] = nums[k][t] \union {n.num}
          BY <1>0, <1>1, <4>1, <5>1, Claimed
        <5> QED BY <1>0, <3>1, <3>2, <3>3, <4>2, <5>1, <5>2
      <4>3. CASE ~ Passes(entry, block)
        BY <3>1, <3>2, <4>1, <4>3
      <4> QED BY <4>2, <4>3
    <3>4. CASE ~ Listed(entry, k, t)
      <4>1. k # key \/ t # E.type
        BY <1>0, <1>1, <3>4, CheckBounds DEF Listed
      <4> QED BY <1>2, <3>1, <3>2, <3>4, <4>1
    <3> QED BY <3>3, <3>4
  <2>2. ASSUME NEW k \in 1..MaxEntries, NEW t \in Types, k > scanned PROVE nums'[-k][t] = {}
    <3>1. -k \in Keys
      BY DEF Keys
    <3>2. -k # key
      BY <1>0, <1>1, <2>2
    <3>3. nums[-k][t] = {}
      BY <1>0, <2>2 DEF ServeTables
    <3> QED BY <1>2, <3>1, <3>2, <3>3
  <2>3. ASSUME block' > 0, E'.port = 0
        PROVE  scanned > 0 /\ nums'[-scanned][E'.type] \subseteq Taken(entry', block')
    <3>1. entry' = entry /\ block' = block + 1 /\ E' = E
      BY <1>0, <2>3 DEF Onward, ToEntry, E
    <3>2. PICK i, j : i = entry /\ j = block
      OBVIOUS
    <3>3. Taken(i, j) \union (IF Passes(i, j) THEN {NumberAt(i, j)} ELSE {}) \subseteq Taken(i, j + 1)
      BY <1>0, <3>2, NextTaken
    <3>4. nums[-scanned][E.type] \subseteq Taken(i, j) /\ -scanned = key /\ scanned > 0
      BY <1>1, <2>3, <3>1, <3>2, TableNow
    <3>5. nums'[-scanned][E.type] \subseteq Taken(i, j + 1)
      <4>1. CASE nums' = nums
        BY <3>3, <3>4, <4>1
      <4>2. CASE n.num \in Taken(i, j) \union (IF Passes(i, j) THEN {NumberAt(i, j)} ELSE {})
        BY <1>0, <1>1, <1>2, <3>3, <3>4, <4>2
      <4> QED BY <2>3, <3>1, <3>2, <4>1, <4>2
    <3> QED BY <3>1, <3>2, <3>4, <3>5
  <2>4. Taken(entry', block') = Taken(entry, block)' 
    BY <1>0 DEF Taken, Before, Listed, C, Earlier
  <2> QED BY <1>0, <2>1, <2>2, <2>3, <2>4 DEF ServeTables
<1>6. RowsRight'
  <2>1. n.at[1] = entry /\ n.at[2] = block /\ C(entry).on
    BY <1>0 DEF Enters
  <2>2. rows' # rows => RowOK(n)
    BY <1>0, <2>1 DEF RowOK, Numbered
  <2>3. n \in Record({"skipped", "separate"} \union Numbered)
    BY DEF Record
  <2> QED BY <1>0, <2>2, <2>3, RowsStay
<1>7. \A i \in 1..Len(config) : \A j \in 0..Len(C(i).blocks) :
          Served(i, j)' <=> Served(i, j) \/ (i = entry /\ j = block)
  BY <1>0, PastBlock DEF Served
<1>8. RowsEntries'
  <2>1. \A i, what : Has(i, 0, what) => Has(i, 0, what)'
    BY DEF Has
  <2>2. ASSUME NEW i \in 1..Len(config), Served(i, 0)' PROVE Served(i, 0)
    BY <1>0, <1>7, <2>2, EntryFacts
  <2> QED BY <1>0, <2>1, <2>2, SameConfig DEF RowsEntries
<1>9. RowsBlocks'
  <2> SUFFICES ASSUME NEW i \in 1..Len(config), NEW j \in 1..Len(C(i).blocks),
                      Served(i, j)', Enters(i), ~ Closed(i), Passes(i, j)
               PROVE  Made(i, j)'
    BY <1>0, SameOks, SameConfig DEF RowsBlocks
  <2>1. CASE Served(i, j)
    <3>1. Made(i, j)
      BY <1>0, <2>1 DEF RowsBlocks
    <3> QED BY <1>0, <3>1, SameOks, SameConfig DEF Made
  <2>2. CASE i = entry /\ j = block
    <3>1. n \in rows' /\ n.is \in Numbered /\ n.at = <<i, j>>
          /\ (C(i).port # 0 => n.num = NumberAt(i, j))
      BY <1>0, <2>2
    <3> QED BY <1>0, <3>1, SameOks, SameConfig DEF Made
  <2> QED BY <1>0, <1>7, <2>1, <2>2, EntryFacts
<1> QED BY <1>3, <1>4, <1>5, <1>6, <1>8, <1>9 DEF IInv

LEMMA ServeBlocks ==
    ASSUME IInv, phase = "serve", block > 0, ServeBlock, UNCHANGED <<config, phase, told, scanned>>
    PROVE  IInv'
<1>0. /\ Walk /\ ToldRight /\ Onward /\ entry <= Len(config)
      /\ nums \in [Keys -> Table] /\ E.type \in Types /\ scanned \in Nat
      /\ entry \in 1..Len(config) /\ block \in Nat /\ E = C(entry)
      /\ B = C(entry).blocks[block] /\ B \in BlockType /\ B.pin \in Int
  BY HereFacts, EntryFacts DEF IInv, Walk, ServeBlock, AtBlock, Loop, BlockType
<1>1. PICK key : key = ServeKey
  OBVIOUS
<1>2. PICK T : T = Taken(entry, block)
  OBVIOUS
<1>3. PICK S : S = nums[key][E.type]
  OBVIOUS
<1>4. T \in SUBSET Nat /\ IsFiniteSet(T)
  BY <1>0, <1>2, TakenFinite
<1>5. S \in SUBSET T /\ (E.port # 0 => S = T)
  BY <1>1, <1>2, <1>3, TableNow DEF ServeKey
<1>6. S \in SUBSET Nat /\ IsFiniteSet(S)
  BY <1>4, <1>5, FS_Subset
<1>7. PICK pin \in Int : pin = B.pin
  BY <1>0
<1>8. /\ CanAssign(T, pin) => CanAssign(S, pin)
      /\ CanAssign(S, pin) =>
            NumberFor(S, pin) \in T \union (IF CanAssign(T, pin) THEN {NumberFor(T, pin)} ELSE {})
  BY <1>4, <1>5, NumberStaysWithin
<1>9. Fits(ServeKey) <=> B.builds /\ CanAssign(S, pin)
  BY <1>1, <1>3, <1>7 DEF Fits
<1>10. Number(ServeKey) = NumberFor(S, pin)
  BY <1>1, <1>3, <1>7 DEF Number
<1>11. Passes(entry, block) <=> B.on /\ B.builds /\ CanAssign(T, pin)
  BY <1>0, <1>2, <1>7 DEF Passes
<1>12. NumberAt(entry, block) = NumberFor(T, pin)
  BY <1>0, <1>2, <1>7 DEF NumberAt
<1>13. CASE ~ B.on /\ UNCHANGED <<rows, nums>>
  <2>1. PICK n : n = [at |-> <<entry, block>>, is |-> "skipped", num |-> 0]
    OBVIOUS
  <2>2. n \in Record({"skipped"} \union Numbered) /\ n.at = <<entry, block>>
    BY <1>0, <2>1 DEF Record
  <2> QED BY <1>0, <1>1, <1>11, <1>13, <2>2, BlockMade
<1>14. CASE B.on /\ ~ Fits(ServeKey) /\ Makes("skipped", 0) /\ UNCHANGED nums
  <2>1. PICK n : n = [at |-> <<entry, block>>, is |-> "skipped", num |-> 0]
    OBVIOUS
  <2>2. n \in Record({"skipped"} \union Numbered) /\ n.at = <<entry, block>> /\ n.is = "skipped"
    BY <1>0, <2>1 DEF Record
  <2>3. rows' = rows \union {n} /\ nums' = nums
    BY <1>14, <2>1 DEF Makes
  <2>4. ~ Passes(entry, block)
    BY <1>8, <1>9, <1>11, <1>14
  <2> QED BY <1>0, <1>1, <2>2, <2>3, <2>4, BlockMade
<1>15. ASSUME B.on, Fits(ServeKey), Claims(ServeKey), NEW what \in Numbered,
              Makes(what, Number(ServeKey))
       PROVE  IInv'
  <2>1. PICK num : num = NumberFor(S, pin)
    OBVIOUS
  <2>2. num \in Nat /\ CanAssign(S, pin) /\ B.on /\ B.builds
    BY <1>6, <1>9, <1>15, <2>1, NumberIsFree
  <2>3. PICK n : n = [at |-> <<entry, block>>, is |-> what, num |-> num]
    OBVIOUS
  <2>4. n \in Record({"skipped"} \union Numbered) /\ n.at = <<entry, block>> /\ n.is \in Numbered /\ n.num = num
    BY <1>0, <2>2, <2>3 DEF Record
  <2>5. rows' = rows \union {n}
    BY <1>10, <1>15, <2>1, <2>3 DEF Makes
  <2>6. Puts(key, E.type, n.num)
    BY <1>1, <1>10, <1>15, <2>1, <2>4 DEF Puts, Claims
  <2>7. E.port # 0 => Passes(entry, block) /\ n.num = NumberAt(entry, block)
    BY <1>5, <1>11, <1>12, <2>1, <2>2, <2>4
  <2>8. n.num \in Taken(entry, block) \union
                  (IF Passes(entry, block) THEN {NumberAt(entry, block)} ELSE {})
    BY <1>2, <1>8, <1>11, <1>12, <2>1, <2>2, <2>4
  <2> QED BY <1>0, <1>1, <2>4, <2>5, <2>6, <2>7, <2>8, BlockMade
<1> QED BY <1>13, <1>14, <1>15 DEF ServeBlock

-----------------------------------------------------------------------------
LEMMA Starts == Init => IInv
<1> SUFFICES ASSUME Init PROVE IInv
  OBVIOUS
<1>1. /\ phase = "check" /\ entry = 1 /\ block = 0 /\ nums = Empty
      /\ scanned = 0 /\ told = {} /\ rows = {}
  BY DEF Init
<1>2. config \in Seq(Entries) /\ Len(config) <= MaxEntries /\ Len(config) \in Nat
  <2>1. PICK n \in 1..MaxEntries : config \in [1..n -> Entries]
    BY DEF Init
  <2> QED BY <2>1, CheckBounds
<1>3. Empty \in [Keys -> Table]
  BY DEF Empty, Table
<1>4. Walk
  BY <1>1, <1>2, <1>3 DEF Walk
<1>5. ToldRight
  BY <1>1, FS_EmptySet DEF ToldRight
<1>6. \A i \in 1..Len(config), j \in Nat : ~ Checked(i, j)
  BY <1>1, <1>2 DEF Checked, Past
<1>7. ToldEntries /\ ToldBlocks
  BY <1>4, <1>6, EntryFacts DEF ToldEntries, ToldBlocks
<1>8. CheckTables
  BY <1>1 DEF CheckTables, GivenFor, Oks, Empty, Keys
<1>9. ServeTables /\ RowsRight
  BY <1>1 DEF ServeTables, RowsRight
<1>10. RowsEntries /\ RowsBlocks
  BY <1>1 DEF RowsEntries, RowsBlocks, Served
<1> QED BY <1>4, <1>5, <1>7, <1>8, <1>9, <1>10 DEF IInv

LEMMA Stutter == ASSUME IInv, UNCHANGED vars PROVE IInv'
<1>0. /\ config' = config /\ Oks' = Oks /\ phase' = phase /\ told' = told /\ rows' = rows
      /\ entry' = entry /\ block' = block /\ nums' = nums /\ scanned' = scanned /\ E' = E
  BY DEF vars, Oks, E
<1>1. \A i, j : (Past(i, j)' <=> Past(i, j)) /\ (Checked(i, j)' <=> Checked(i, j)) /\ (Served(i, j)' <=> Served(i, j))
  BY <1>0 DEF Past, Checked, Served
<1>2. Walk'
  BY <1>0, SameConfig DEF IInv, Walk
<1>3. ToldRight'
  <2>1. \A r : ToldOK(r)' <=> ToldOK(r)
    BY <1>0, <1>1, SameOks, SameConfig DEF ToldOK
  <2> QED BY <1>0, <2>1 DEF IInv, ToldRight, Record
<1>4. ToldEntries'
  <2>1. \A i, what : Told(i, 0, what)' <=> Told(i, 0, what)
    BY <1>0 DEF Told
  <2> QED BY <1>0, <1>1, <2>1, SameConfig DEF IInv, ToldEntries
<1>5. ToldBlocks'
  BY <1>0, <1>1, SameOks, SameConfig DEF IInv, ToldBlocks
<1>6. CheckTables'
  BY <1>0, SameOks DEF IInv, CheckTables
<1>7. ServeTables'
  <2>1. \A k, t : GivenPast(k, t)' = GivenPast(k, t)
    BY <1>0, <1>1, SameConfig DEF GivenPast
  <2>2. Taken(entry', block') = Taken(entry, block) /\ Taken(entry, block)' = Taken(entry, block)
    BY <1>0 DEF Taken, Before, Earlier, Listed, C
  <2> SUFFICES ASSUME phase = "serve" PROVE ServeTables'
    BY <1>0 DEF ServeTables
  <2>3. /\ \A k \in PortNames \ {0}, t \in Types : nums[k][t] = GivenPast(k, t)
        /\ \A k \in 1..MaxEntries, t \in Types : k > scanned => nums[-k][t] = {}
        /\ block > 0 /\ E.port = 0 => scanned > 0 /\ nums[-scanned][E.type] \subseteq Taken(entry, block)
    BY DEF IInv, ServeTables
  <2>4. \A k \in PortNames \ {0}, t \in Types : nums'[k][t] = GivenPast(k, t)'
    BY <1>0, <2>1, <2>3
  <2>5. \A k \in 1..MaxEntries, t \in Types : k > scanned' => nums'[-k][t] = {}
    BY <1>0, <2>3
  <2>6. block' > 0 /\ E'.port = 0
            => scanned' > 0 /\ nums'[-scanned'][E'.type] \subseteq Taken(entry, block)'
    BY <1>0, <2>2, <2>3
  <2> QED BY <2>4, <2>5, <2>6 DEF ServeTables
<1>8. RowsRight'
  BY <1>0, RowsStay
<1>9. RowsEntries'
  <2>1. \A i, what : Has(i, 0, what)' <=> Has(i, 0, what)
    BY <1>0 DEF Has
  <2> QED BY <1>0, <1>1, <2>1, SameConfig DEF IInv, RowsEntries
<1>10. RowsBlocks'
  <2>1. \A i, j : Made(i, j)' <=> Made(i, j)
    BY <1>0, SameOks, SameConfig DEF Made
  <2> QED BY <1>0, <1>1, <2>1, SameOks, SameConfig DEF IInv, RowsBlocks
<1> QED BY <1>2, <1>3, <1>4, <1>5, <1>6, <1>7, <1>8, <1>9, <1>10 DEF IInv

LEMMA Steps == IInv /\ [Next]_vars => IInv'
<1> SUFFICES ASSUME IInv, [Next]_vars PROVE IInv'
  OBVIOUS
<1>0. Walk
  BY DEF IInv
<1>1. CASE Checks
  <2>1. phase = "check" /\ entry <= Len(config) /\ UNCHANGED <<config, phase, scanned, rows>>
    BY <1>1 DEF Checks, Loop
  <2>2. CASE CheckBlock
    BY <2>1, <2>2, CheckBlocks DEF CheckBlock, AtBlock
  <2>3. CASE (CheckSkips \/ CheckBinary \/ CheckUnresolved \/ CheckBroken \/ CheckEnters) /\ UNCHANGED nums
    <3>1. block = 0
      BY <2>3 DEF CheckSkips, CheckBinary, CheckUnresolved, CheckBroken, CheckEnters, CheckStops, AtEntry
    <3> QED BY <2>1, <2>3, <3>1, CheckEntry
  <2> QED BY <1>1, <2>2, <2>3 DEF Checks
<1>2. CASE Serves
  <2>1. UNCHANGED <<config, phase, told>>
    BY <1>2 DEF Serves
  <2>2. CASE ServeBlock /\ UNCHANGED scanned
    BY <2>1, <2>2, ServeBlocks DEF ServeBlock, AtBlock, Loop
  <2>3. CASE (ServeSkips \/ ServeSeparate) /\ UNCHANGED <<nums, scanned>>
    BY <2>1, <2>3, ServeEntry DEF ServeSkips, ServeSeparate, AtEntry, Loop
  <2>4. CASE ServeEnters /\ UNCHANGED nums
    BY <2>1, <2>4, ServeEntry DEF ServeEnters, AtEntry, Loop
  <2> QED BY <1>2, <2>2, <2>3, <2>4 DEF Serves
<1>3. CASE Turns
  BY <1>3, Turning
<1>4. CASE UNCHANGED vars
  BY <1>4, Stutter
<1> QED BY <1>1, <1>2, <1>3, <1>4 DEF Next

\* At the end everything has been checked and served, and the two agree.
LEMMA Foresees == IInv => CheckPredicts
<1> SUFFICES ASSUME IInv, phase = "done", NEW i \in 1..Len(config)
             PROVE  LET clean == ~ Told(i, 0, "error")
                        fine == Given(told, i, "ok")
                        kept == UNION {Given(rows, i, what) : what \in Numbered}
                    IN  /\ clean => {f[1] : f \in fine} \subseteq {s[1] : s \in kept}
                        /\ clean /\ config[i].port # 0 => fine = kept
                        /\ ~ clean => kept = {}
                        /\ clean => (Told(i, 0, "binary") <=> Given(rows, i, "separate") # {})
                        /\ Told(i, 0, "warn") => Given(rows, i, "skipped") # {}
  BY DEF CheckPredicts
<1> DEFINE fine == Given(told, i, "ok")
           kept == UNION {Given(rows, i, what) : what \in Numbered}
<1>0. /\ Walk /\ ToldRight /\ ToldEntries /\ ToldBlocks /\ RowsRight /\ RowsEntries /\ RowsBlocks
      /\ C(i) = config[i]
      /\ \A j : Checked(i, j) /\ Served(i, j)
  BY DEF IInv, Checked, Served, C
<1>1. Told(i, 0, "error") <=> Flawed(i)
  <2>1. ASSUME NEW r \in told, r.at = <<i, 0>>, r.is = "error" PROVE Flawed(i)
    BY <1>0, <2>1 DEF ToldRight, ToldOK
  <2> QED BY <1>0, <2>1 DEF ToldEntries, Told
<1>2. ASSUME NEW f \in fine
      PROVE  /\ f[1] \in 1..Len(C(i).blocks) /\ Enters(i) /\ Passes(i, f[1])
             /\ f = <<f[1], NumberAt(i, f[1])>>
  <2>1. PICK r \in told : r.at[1] = i /\ r.is = "ok" /\ f = <<r.at[2], r.num>>
    BY <1>2 DEF Given, Of
  <2>2. ToldOK(r)
    BY <1>0, <2>1 DEF ToldRight
  <2>3. r.at[2] \in 0..Len(C(i).blocks) /\ r.at[2] > 0
    BY <2>1, <2>2 DEF ToldOK
  <2>4. Len(C(i).blocks) \in Nat
    BY <1>0, EntryFacts
  <2> QED BY <2>1, <2>2, <2>3, <2>4 DEF ToldOK
<1>3. ASSUME NEW s \in kept
      PROVE  /\ s[1] \in 1..Len(C(i).blocks) /\ Enters(i) /\ ~ Closed(i)
             /\ C(i).port # 0 => Passes(i, s[1]) /\ s = <<s[1], NumberAt(i, s[1])>>
  <2>1. PICK r \in rows : r.at[1] = i /\ r.is \in Numbered /\ s = <<r.at[2], r.num>>
    BY <1>3 DEF Given, Of
  <2>2. RowOK(r)
    BY <1>0, <2>1 DEF RowsRight
  <2> QED BY <2>1, <2>2 DEF RowOK
<1>4. ASSUME ~ Flawed(i), NEW f \in fine
      PROVE  \E s \in kept : s[1] = f[1] /\ (C(i).port # 0 => s = f)
  <2>1. PICK j \in 1..Len(C(i).blocks) : j = f[1]
    BY <1>2
  <2>2. Enters(i) /\ Passes(i, j) /\ f = <<j, NumberAt(i, j)>>
    BY <1>2, <2>1
  <2>3. ~ Closed(i)
    BY <1>4, <2>2 DEF Flawed, Enters
  <2>4. Made(i, j)
    BY <1>0, <2>2, <2>3 DEF RowsBlocks
  <2>5. PICK r \in rows : r.at = <<i, j>> /\ r.is \in Numbered /\ (C(i).port # 0 => r.num = NumberAt(i, j))
    BY <2>4 DEF Made
  <2>6. PICK s : s = <<j, r.num>>
    OBVIOUS
  <2>7. r.at[1] = i /\ r.at[2] = j
    BY <2>5
  <2>8. s \in kept
    BY <2>5, <2>6, <2>7 DEF Given, Of
  <2> QED BY <2>1, <2>2, <2>5, <2>6, <2>8
<1>5. ASSUME C(i).port # 0, NEW s \in kept PROVE s \in fine
  <2>1. PICK j \in 1..Len(C(i).blocks) : j = s[1]
    BY <1>3
  <2>2. Enters(i) /\ Passes(i, j) /\ s = <<j, NumberAt(i, j)>>
    BY <1>3, <1>5, <2>1
  <2>3. PICK r : r = [at |-> <<i, j>>, is |-> "ok", num |-> NumberAt(i, j)]
    OBVIOUS
  <2>4. r \in told
    BY <1>0, <2>2, <2>3 DEF ToldBlocks
  <2>5. r.at[1] = i /\ r.at[2] = j /\ r.is = "ok" /\ r.num = NumberAt(i, j)
    BY <2>3
  <2> QED BY <2>2, <2>4, <2>5 DEF Given, Of
<1>6. ASSUME Flawed(i) PROVE kept = {}
  BY <1>3, <1>6 DEF Flawed, Enters
<1>7. ASSUME ~ Flawed(i) PROVE Told(i, 0, "binary") <=> Given(rows, i, "separate") # {}
  <2>1. ASSUME Told(i, 0, "binary") PROVE Given(rows, i, "separate") # {}
    <3>1. PICK r \in told : r.at = <<i, 0>> /\ r.is = "binary"
      BY <2>1 DEF Told
    <3>2. ToldOK(r) /\ r.at[1] = i
      BY <1>0, <3>1 DEF ToldRight
    <3>3. C(i).on /\ C(i).driver = "binary"
      BY <3>1, <3>2 DEF ToldOK
    <3>4. Has(i, 0, "separate")
      BY <1>0, <1>7, <3>3 DEF RowsEntries, Flawed
    <3>5. PICK q \in rows : q.at = <<i, 0>> /\ q.is = "separate"
      BY <3>4 DEF Has
    <3>6. q.at[1] = i
      BY <3>5
    <3>7. <<q.at[2], q.num>> \in Given(rows, i, "separate")
      BY <3>5, <3>6 DEF Given, Of
    <3> QED BY <3>7
  <2>2. ASSUME NEW q \in rows, q.at[1] = i, q.is = "separate" PROVE Told(i, 0, "binary")
    <3>1. C(i).on /\ C(i).driver = "binary"
      BY <1>0, <2>2 DEF RowsRight, RowOK
    <3> QED BY <1>0, <3>1 DEF ToldEntries
  <2> QED BY <2>1, <2>2 DEF Given, Of
<1>8. ASSUME Told(i, 0, "warn") PROVE Given(rows, i, "skipped") # {}
  <2>1. PICK r \in told : r.at = <<i, 0>> /\ r.is = "warn"
    BY <1>8 DEF Told
  <2>2. ToldOK(r) /\ r.at[1] = i
    BY <1>0, <2>1 DEF ToldRight
  <2>3. C(i).on /\ C(i).driver = "none"
    BY <2>1, <2>2 DEF ToldOK
  <2>4. Has(i, 0, "skipped")
    BY <1>0, <2>3 DEF RowsEntries
  <2>5. PICK q \in rows : q.at = <<i, 0>> /\ q.is = "skipped"
    BY <2>4 DEF Has
  <2>6. q.at[1] = i
    BY <2>5
  <2>7. <<q.at[2], q.num>> \in Given(rows, i, "skipped")
    BY <2>5, <2>6 DEF Given, Of
  <2> QED BY <2>7
<1>9. ASSUME ~ Flawed(i) PROVE {f[1] : f \in fine} \subseteq {s[1] : s \in kept}
  BY <1>4, <1>9
<1>10. ASSUME ~ Flawed(i), C(i).port # 0 PROVE fine = kept
  BY <1>4, <1>5, <1>10
<1> HIDE DEF fine, kept
<1> QED BY <1>0, <1>1, <1>6, <1>7, <1>8, <1>9, <1>10 DEF fine, kept

\* The check foresees start-up, whatever the configuration: a device that checkConfig
\* (cli.go) reports as fine gets its number, on a port of the file the one the check said,
\* an installed binary is started and an entry warned of is skipped, although the two
\* loops keep the numbers of scanning entries differently (cli.go:155-158,
\* run.go:147-158).
THEOREM CheckForesees == Spec => []CheckPredicts
<1>1. Spec => []IInv
  BY Starts, Steps, PTL DEF Spec
<1> QED BY <1>1, Foresees, PTL
=============================================================================
