------------------------- MODULE ProductEditor_proofs -------------------------
(***************************************************************************)
(* ProductEditor: the family the page tells of is there, no option is lost *)
(* between the table and the catalogue, and a retry completes the family   *)
(* it began, for any number of options, saves, uploads and faults; and the *)
(* type invariant.                                                         *)
(***************************************************************************)
EXTENDS ProductEditor, FiniteSetTheorems, SequenceTheorems, TLAPS

Active == Running \cup {"told"}

Loop == [pc : Active, submit : BOOLEAN, rows : Seq(Row), group : Nat, at : Nat,
         failed : SUBSET Nat]

\* Row i of a loop is a product of P, as the loop asked for it.
Created(l, i, P) ==
    \E p \in P :
        /\ p.label = l.rows[i].label /\ p.sku = l.rows[i].sku /\ p.group = l.group
        /\ p.photo = "own" <=> l.rows[i].photo
        /\ p.status = "SUBMITTED" <=> l.submit
        /\ p.status = "SUBMITTED" => p.photo # "none"

Labels(P) == {p.label : p \in P}

\* A loop that runs, or has told its success: the rows behind it that were not
\* refused are products, and what is wanted is a product or one of its rows.
Sound(l, P, W) ==
    /\ l.at \in 1..Len(l.rows) /\ l.failed \subseteq 1..l.at
    /\ l.pc \in {"look", "insert"} => l.at = 1
    /\ l.pc # "told" => l.failed \subseteq 1..(l.at - 1)
    /\ \A i \in 1..(l.at - 1) : i \notin l.failed => Created(l, i, P)
    /\ l.pc = "told" => \A i \in 1..Len(l.rows) : Created(l, i, P)
    /\ W \subseteq Labels(P) \cup LabelsOf(l.rows)

LoopsOK ==
    /\ saves \in [Save -> Loop \cup {Unsaved, Over}]
    /\ \A s \in Save : saves[s] \in Loop => Sound(saves[s], products, wanted)

RowsOK == rows \in Seq(Row) /\ tags \in Seq(Label)

LossInv == RowsOK /\ LoopsOK /\ NoOptionLost

\* Unless saves met, one runs at a time, and it adds a group to none.
GroupsOK ==
    /\ groups \subseteq Save
    /\ ~crossed => /\ \A s, o \in InState(Running) : s = o
                   /\ InState({"insert"}) # {} => groups = {}
                   /\ Cardinality(groups) <= 1

\* No option is in a group twice.
Single == \A p, q \in products : (p.group = q.group /\ p.label = q.label) => p = q

---------------------------------------------------------------------------
\* Loops

LEMMA ActiveIsLoop ==
    ASSUME LoopsOK, NEW s \in Save
    PROVE  saves[s].pc \in Active <=> saves[s] \in Loop
  <1>1. saves[s] \in Loop \/ saves[s] = Unsaved \/ saves[s] = Over
    BY DEF LoopsOK
  <1>2. saves[s] \in Loop => saves[s].pc \in Active
    BY DEF Loop
  <1>3. Unsaved.pc \notin Active /\ Over.pc \notin Active
    BY DEF Unsaved, Over, Active, Running
  <1> QED BY <1>1, <1>2, <1>3

LEMMA CreatedGrows ==
    ASSUME NEW l, NEW i, NEW P, NEW Q, P \subseteq Q, Created(l, i, P)
    PROVE  Created(l, i, Q)
  BY DEF Created

\* Products are added and wishes taken back.
LEMMA SoundGrows ==
    ASSUME NEW l, NEW P, NEW Q, NEW W, NEW V, P \subseteq Q, V \subseteq W, Sound(l, P, W)
    PROVE  Sound(l, Q, V)
  <1>1. \A i : Created(l, i, P) => Created(l, i, Q)
    BY CreatedGrows
  <1>2. Labels(P) \subseteq Labels(Q)
    BY DEF Labels
  <1> QED BY <1>1, <1>2 DEF Sound

\* A step of one loop.
LEMMA LoopStep ==
    ASSUME LoopsOK, NEW s \in Save, NEW l \in Loop \cup {Unsaved, Over},
           saves' = [saves EXCEPT ![s] = l],
           products \subseteq products', wanted' \subseteq wanted,
           l \in Loop => Sound(l, products', wanted')
    PROVE  LoopsOK'
  <1>1. saves' \in [Save -> Loop \cup {Unsaved, Over}]
    BY DEF LoopsOK
  <1>2. ASSUME NEW o \in Save, saves'[o] \in Loop
        PROVE  Sound(saves'[o], products', wanted')
    <2>1. CASE o = s
      BY <1>2, <2>1 DEF LoopsOK
    <2>2. CASE o # s
      <3>1. saves'[o] = saves[o] /\ Sound(saves[o], products, wanted)
        BY <1>2, <2>2 DEF LoopsOK
      <3> QED BY <3>1, SoundGrows
    <2> QED BY <2>1, <2>2
  <1> QED BY <1>1, <1>2 DEF LoopsOK

\* A step of no loop.
LEMMA LoopsRest ==
    ASSUME LoopsOK, saves' = saves, products' = products, wanted' \subseteq wanted
    PROVE  LoopsOK'
  <1>1. \A s \in Save : saves[s] \in Loop => Sound(saves[s], products, wanted')
    BY SoundGrows DEF LoopsOK
  <1> QED BY <1>1 DEF LoopsOK

---------------------------------------------------------------------------
\* The table

\* What a row is found at when another one is removed.
LEMMA RemovedKeeps ==
    ASSUME NEW S, NEW s \in Seq(S), NEW i \in 1..Len(s)
    PROVE  /\ RemoveAt(s, i) \in Seq(S)
           /\ \A j \in 1..Len(s) : j # i =>
                 \E k \in 1..Len(RemoveAt(s, i)) : RemoveAt(s, i)[k] = s[j]
  <1> DEFINE a == SubSeq(s, 1, i - 1)
             b == SubSeq(s, i + 1, Len(s))
  <1>1. /\ a \in Seq(S) /\ Len(a) = i - 1
        /\ \A k \in 1..(i - 1) : a[k] = s[k]
    BY SubSeqProperties
  <1>2. /\ b \in Seq(S) /\ Len(b) = Len(s) - i
        /\ \A k \in 1..(Len(s) - i) : b[k] = s[i + k]
    BY SubSeqProperties
  <1> HIDE DEF a, b
  <1>3. /\ a \o b \in Seq(S) /\ Len(a \o b) = Len(s) - 1
        /\ \A k \in 1..Len(a \o b) :
              (a \o b)[k] = IF k <= Len(a) THEN a[k] ELSE b[k - Len(a)]
    <2>1. /\ a \o b \in Seq(S) /\ Len(a \o b) = Len(a) + Len(b)
          /\ \A k \in 1..(Len(a) + Len(b)) :
                (a \o b)[k] = IF k <= Len(a) THEN a[k] ELSE b[k - Len(a)]
      BY <1>1, <1>2, ConcatProperties
    <2>2. Len(a) + Len(b) = Len(s) - 1
      BY <1>1, <1>2
    <2> QED BY <2>1, <2>2
  <1>4. ASSUME NEW j \in 1..Len(s), j # i
        PROVE  \E k \in 1..Len(a \o b) : (a \o b)[k] = s[j]
    <2>1. CASE j < i
      <3>1. j \in 1..Len(a \o b) /\ (a \o b)[j] = s[j]
        BY <1>1, <1>3, <2>1
      <3> QED BY <3>1
    <2>2. CASE j > i
      <3>1. j - 1 \in 1..Len(a \o b) /\ (a \o b)[j - 1] = b[j - i]
        BY <1>1, <1>3, <2>2
      <3>2. b[j - i] = s[j]
        BY <1>2, <2>2
      <3> QED BY <3>1, <3>2
    <2> QED BY <1>4, <2>1, <2>2
  <1>5. RemoveAt(s, i) = a \o b
    BY DEF RemoveAt, a, b
  <1> QED BY <1>3, <1>4, <1>5

---------------------------------------------------------------------------
\* The rows that are kept

Rank(F, i) == Cardinality({j \in F : j <= i})

\* The elements of a finite set of positions have the ranks 1, 2, ... and no other.
LEMMA Ranks ==
    ASSUME NEW F \in SUBSET Nat, IsFiniteSet(F)
    PROVE  /\ Cardinality(F) \in Nat
           /\ \A i \in F : Rank(F, i) \in 1..Cardinality(F)
           /\ \A i, j \in F : Rank(F, i) = Rank(F, j) => i = j
           /\ \A k \in 1..Cardinality(F) : \E i \in F : Rank(F, i) = k
  <1> DEFINE Upto(i) == {j \in F : j <= i}
             T == 1..Cardinality(F)
             r == [i \in F |-> Rank(F, i)]
  <1>0. Cardinality(F) \in Nat
    BY FS_CardinalityType
  <1>1. \A i : /\ IsFiniteSet(Upto(i)) /\ Rank(F, i) \in Nat
               /\ Rank(F, i) <= Cardinality(F)
    <2> SUFFICES ASSUME NEW i
                 PROVE  /\ IsFiniteSet(Upto(i)) /\ Rank(F, i) \in Nat
                        /\ Rank(F, i) <= Cardinality(F)
      OBVIOUS
    <2>1. Upto(i) \in SUBSET F
      OBVIOUS
    <2>2. IsFiniteSet(Upto(i)) /\ Cardinality(Upto(i)) <= Cardinality(F)
      BY <2>1, FS_Subset
    <2> QED BY <2>2, FS_CardinalityType DEF Rank
  <1>2. ASSUME NEW i \in F PROVE Rank(F, i) \in T
    <2>1. Upto(i) # {}
      OBVIOUS
    <2>2. Rank(F, i) # 0
      BY <1>1, <2>1, FS_EmptySet DEF Rank
    <2>3. Rank(F, i) \in Nat /\ Rank(F, i) <= Cardinality(F)
      BY <1>1
    <2> QED BY <1>0, <2>2, <2>3
  <1>3. ASSUME NEW i \in F, NEW j \in F, i < j PROVE Rank(F, i) # Rank(F, j)
    <2>0. \A x \in F : x \in Nat
      OBVIOUS
    <2>1. \A x \in F : x <= i => x <= j
      BY <1>3, <2>0
    <2>2. j \in Upto(j) /\ j \notin Upto(i)
      BY <1>3
    <2>3. Upto(i) \in SUBSET Upto(j)
      BY <2>1
    <2> QED BY <1>1, <2>2, <2>3, FS_Subset DEF Rank
  <1>4. ASSUME NEW i \in F, NEW j \in F, Rank(F, i) = Rank(F, j) PROVE i = j
    <2>1. i < j \/ j < i \/ i = j
      OBVIOUS
    <2> QED BY <1>3, <1>4, <2>1
  <1>5. r \in Injection(F, T)
    BY <1>2, <1>4 DEF Injection, IsInjective
  <1>6. IsFiniteSet(T) /\ Cardinality(T) = Cardinality(F)
    BY <1>0, FS_Interval
  <1>7. r \in Surjection(F, T)
    BY <1>5, <1>6, FS_Injection
  <1>8. \A k \in T : \E i \in F : r[i] = k
    BY <1>7 DEF Surjection
  <1> QED BY <1>0, <1>2, <1>4, <1>8

LEMMA SequenceOf ==
    ASSUME NEW S, NEW n \in Nat, NEW f \in [1..n -> S]
    PROVE  f \in Seq(S)
  BY SeqDef

\* The refused rows of a loop, and no others, are what it leaves in the table.
LEMMA KeptRows ==
    ASSUME NEW s, saves[s].rows \in Seq(Row),
           NEW F \in SUBSET (1..Len(saves[s].rows))
    PROVE  /\ Kept(s, F) \in Seq(Row)
           /\ \A i \in F : saves[s].rows[i].label \in LabelsOf(Kept(s, F))
  <1> DEFINE at(k) == CHOOSE i \in F : Rank(F, i) = k
             kept == [k \in 1..Cardinality(F) |-> saves[s].rows[at(k)]]
  <1>1. F \in SUBSET Nat /\ IsFiniteSet(F)
    <2>1. Len(saves[s].rows) \in Nat
      OBVIOUS
    <2>2. IsFiniteSet(1..Len(saves[s].rows))
      BY <2>1, FS_Interval
    <2>3. IsFiniteSet(F)
      BY <2>2, FS_Subset
    <2> QED BY <2>1, <2>3
  <1>2. /\ Cardinality(F) \in Nat
        /\ \A k \in 1..Cardinality(F) : \E i \in F : Rank(F, i) = k
        /\ \A i \in F : Rank(F, i) \in 1..Cardinality(F)
        /\ \A i, j \in F : Rank(F, i) = Rank(F, j) => i = j
    BY <1>1, Ranks
  <1>3. Kept(s, F) = kept
    BY DEF Kept, Rank
  <1>4. \A k \in 1..Cardinality(F) : at(k) \in F /\ Rank(F, at(k)) = k
    BY <1>2
  <1>5. \A i \in F : saves[s].rows[i] \in Row
    OBVIOUS
  <1>6. kept \in [1..Cardinality(F) -> Row]
    BY <1>4, <1>5
  <1>7. kept \in Seq(Row)
    <2> HIDE DEF kept
    <2> QED BY <1>2, <1>6, SequenceOf
  <1>8. ASSUME NEW i \in F
        PROVE  saves[s].rows[i].label \in LabelsOf(kept)
    <2>1. Rank(F, i) \in DOMAIN kept /\ at(Rank(F, i)) = i
      BY <1>2, <1>4
    <2>2. kept[Rank(F, i)] = saves[s].rows[i]
      BY <2>1
    <2> QED BY <2>1, <2>2 DEF LabelsOf
  <1> QED BY <1>3, <1>7, <1>8

---------------------------------------------------------------------------
\* No option is lost: the steps of the table

LEMMA LabelsGrow ==
    ASSUME NEW P, NEW Q, P \subseteq Q
    PROVE  Labels(P) \subseteq Labels(Q)
  BY DEF Labels

LEMMA NoOptionLostSplit ==
    NoOptionLost <=> wanted \subseteq Labels(products) \cup (IF open THEN LabelsOf(rows) ELSE {})
  BY DEF NoOptionLost, Labels

\* A step of the table that takes wishes back and leaves the others in it.
LEMMA TableStep ==
    ASSUME LossInv, UNCHANGED <<saves, products, open>>, rows' \in Seq(Row),
           tags' \in Seq(Label), wanted' \subseteq wanted,
           wanted' \cap LabelsOf(rows) \subseteq LabelsOf(rows')
    PROVE  LossInv'
  <1>1. LoopsOK'
    BY LoopsRest DEF LossInv
  <1>2. LabelsOf(rows)' = LabelsOf(rows')
    BY DEF LabelsOf
  <1>3. NoOptionLost'
    <2>1. wanted \subseteq Labels(products) \cup (IF open THEN LabelsOf(rows) ELSE {})
      BY NoOptionLostSplit DEF LossInv
    <2>2. wanted' \subseteq Labels(products) \cup (IF open THEN LabelsOf(rows') ELSE {})
      BY <2>1
    <2>3. Labels(products)' = Labels(products)
      BY DEF Labels
    <2>4. wanted' \subseteq Labels(products)' \cup (IF open' THEN LabelsOf(rows)' ELSE {})
      BY <1>2, <2>2, <2>3
    <2> QED BY <2>4 DEF NoOptionLost, Labels
  <1> QED BY <1>1, <1>3 DEF LossInv, RowsOK

LEMMA AddKeeps ==
    ASSUME LossInv, NEW l \in Label, AddVariantTag(l)
    PROVE  LossInv'
  <1> DEFINE row == [label |-> l, sku |-> l, photo |-> FALSE]
  <1>1. row \in Row
    BY DEF Row, Sku
  <1>2. rows \in Seq(Row) /\ tags \in Seq(Label)
    BY DEF LossInv, RowsOK
  <1>3. rows' = Append(rows, row) /\ tags' = Append(tags, l)
    BY DEF AddVariantTag
  <1> HIDE DEF row
  <1>4. RowsOK'
    BY <1>1, <1>2, <1>3 DEF RowsOK
  <1>5. /\ \A i \in DOMAIN rows : i \in DOMAIN rows' /\ rows'[i] = rows[i]
        /\ Len(rows') \in DOMAIN rows' /\ rows'[Len(rows')] = row
    BY <1>1, <1>2, <1>3
  <1>6. row.label = l
    BY DEF row
  <1>7. LabelsOf(rows) \cup {l} \subseteq LabelsOf(rows')
    BY <1>5, <1>6 DEF LabelsOf
  <1>8. wanted' \subseteq wanted \cup {l} /\ UNCHANGED <<open, saves, products>> /\ open
    BY DEF AddVariantTag, server
  <1>9. LoopsOK'
    <2>1. CASE InState(Active) = {}
      <3>1. \A s \in Save : saves[s] \notin Loop
        BY <2>1, ActiveIsLoop DEF InState, LossInv
      <3> QED BY <1>8, <3>1 DEF LossInv, LoopsOK
    <2>2. CASE InState(Active) # {}
      <3>1. wanted' = wanted
        BY <2>2 DEF AddVariantTag, Active
      <3> QED BY <1>8, <3>1, LoopsRest DEF LossInv
    <2> QED BY <2>1, <2>2
  <1>10. wanted \subseteq Labels(products) \cup LabelsOf(rows)
    BY <1>8, NoOptionLostSplit DEF LossInv
  <1>11. NoOptionLost'
    <2>1. wanted' \subseteq Labels(products) \cup LabelsOf(rows')
      BY <1>7, <1>8, <1>10
    <2> QED BY <1>8, <2>1 DEF NoOptionLost, Labels, LabelsOf
  <1> QED BY <1>4, <1>9, <1>11 DEF LossInv

LEMMA CutKeeps ==
    ASSUME NEW S, NEW q \in Seq(S), NEW i
    PROVE  /\ CutAt(q, i) \in Seq(S)
           /\ \A j \in DOMAIN q : j # i =>
                 \E k \in DOMAIN CutAt(q, i) : CutAt(q, i)[k] = q[j]
  <1>1. CASE i \in DOMAIN q
    <2>1. i \in 1..Len(q)
      BY <1>1
    <2>2. /\ RemoveAt(q, i) \in Seq(S)
          /\ \A j \in 1..Len(q) : j # i =>
                \E k \in 1..Len(RemoveAt(q, i)) : RemoveAt(q, i)[k] = q[j]
      BY <2>1, RemovedKeeps
    <2>3. CutAt(q, i) = RemoveAt(q, i)
      BY <1>1 DEF CutAt
    <2>4. DOMAIN q = 1..Len(q) /\ DOMAIN RemoveAt(q, i) = 1..Len(RemoveAt(q, i))
      BY <2>2
    <2> QED BY <2>2, <2>3, <2>4
  <1>2. CASE i \notin DOMAIN q
    BY <1>2 DEF CutAt
  <1> QED BY <1>1, <1>2

LEMMA RemoveKeeps ==
    ASSUME LossInv, NEW i, RemoveVariantTag(i)
    PROVE  LossInv'
  <1>1. rows \in Seq(Row) /\ tags \in Seq(Label)
    BY DEF LossInv, RowsOK
  <1>2. /\ tags' = CutAt(tags, i) /\ rows' = CutAt(rows, i)
        /\ wanted' \subseteq wanted \ (IF i \in DOMAIN rows THEN {rows[i].label} ELSE {})
        /\ UNCHANGED <<open, saves, products>>
    BY DEF RemoveVariantTag, server
  <1>3. /\ rows' \in Seq(Row) /\ tags' \in Seq(Label)
        /\ \A j \in DOMAIN rows : j # i => \E k \in DOMAIN rows' : rows'[k] = rows[j]
    BY <1>1, <1>2, CutKeeps
  <1>4. wanted' \cap LabelsOf(rows) \subseteq LabelsOf(rows')
    BY <1>2, <1>3 DEF LabelsOf
  <1> QED BY <1>2, <1>3, <1>4, TableStep

\* A cell of a row is written, and not its option.
LEMMA CellKeeps ==
    ASSUME LossInv, NEW i \in DOMAIN rows, NEW r \in Row, r.label = rows[i].label,
           rows' = [rows EXCEPT ![i] = r],
           UNCHANGED <<tags, saves, products, open, wanted>>
    PROVE  LossInv'
  <1>1. rows \in Seq(Row) /\ tags \in Seq(Label)
    BY DEF LossInv, RowsOK
  <1>2. rows' \in Seq(Row) /\ DOMAIN rows' = DOMAIN rows
    BY <1>1
  <1>3. \A j \in DOMAIN rows : rows'[j].label = rows[j].label
    BY <1>1
  <1>4. LabelsOf(rows) = LabelsOf(rows')
    BY <1>2, <1>3 DEF LabelsOf
  <1> QED BY <1>1, <1>2, <1>4, TableStep

LEMMA UpdateKeeps ==
    ASSUME LossInv, NEW i, NEW sku \in Sku, UpdateVariantRow(i, sku)
    PROVE  LossInv'
  <1> DEFINE r == [rows[i] EXCEPT !.sku = sku]
  <1>1. i \in DOMAIN rows /\ rows[i] \in Row
    BY DEF UpdateVariantRow, LossInv, RowsOK
  <1>2. r \in Row /\ r.label = rows[i].label
    BY <1>1 DEF Row
  <1>3. rows' = [rows EXCEPT ![i] = r] /\ UNCHANGED <<tags, saves, products, open, wanted>>
    BY DEF UpdateVariantRow, server
  <1> QED BY <1>1, <1>2, <1>3, CellKeeps

LEMMA PhotoKeeps ==
    ASSUME LossInv, NEW i \in DOMAIN rows, NEW b \in BOOLEAN,
           rows' = [rows EXCEPT ![i].photo = b],
           UNCHANGED <<tags, saves, products, open, wanted>>
    PROVE  LossInv'
  <1> DEFINE r == [rows[i] EXCEPT !.photo = b]
  <1>1. rows[i] \in Row
    BY DEF LossInv, RowsOK
  <1>2. r \in Row /\ r.label = rows[i].label
    BY <1>1 DEF Row
  <1>3. rows' = [rows EXCEPT ![i] = r]
    OBVIOUS
  <1> QED BY <1>2, <1>3, CellKeeps

LEMMA TableRest ==
    ASSUME LossInv, UNCHANGED <<tags, rows, saves, products, open, wanted>>
    PROVE  LossInv'
  <1>1. rows' \in Seq(Row) /\ tags' \in Seq(Label)
    BY DEF LossInv, RowsOK
  <1> QED BY <1>1, TableStep

LEMMA UploadKeeps ==
    ASSUME LossInv, NEW i, UploadDone(i)
    PROVE  LossInv'
  <1>1. UNCHANGED <<tags, saves, products, open, wanted>>
    BY DEF UploadDone, server
  <1>2. CASE i \in DOMAIN rows
    BY <1>1, <1>2, PhotoKeeps DEF UploadDone
  <1>3. CASE i \notin DOMAIN rows
    BY <1>1, <1>3, TableRest DEF UploadDone
  <1> QED BY <1>2, <1>3

---------------------------------------------------------------------------
\* No option is lost: the steps of the loops

LEMMA RunningIsLoop ==
    ASSUME LossInv, NEW s \in Save, saves[s].pc \in Running
    PROVE  /\ saves[s] \in Loop /\ Sound(saves[s], products, wanted)
           /\ LoopsOK /\ DOMAIN saves = Save
  <1>1. saves[s] \in Loop
    BY ActiveIsLoop DEF LossInv, Active
  <1> QED BY <1>1 DEF LossInv, LoopsOK

\* A step of one loop that adds products and leaves the table.
LEMMA ServerStep ==
    ASSUME LossInv, LoopsOK', UNCHANGED <<tags, rows, open, wanted>>,
           products \subseteq products'
    PROVE  LossInv'
  <1>1. wanted \subseteq Labels(products) \cup (IF open THEN LabelsOf(rows) ELSE {})
    BY NoOptionLostSplit DEF LossInv
  <1>2. Labels(products) \subseteq Labels(products')
    BY LabelsGrow
  <1>3. wanted' \subseteq Labels(products') \cup (IF open' THEN LabelsOf(rows') ELSE {})
    BY <1>1, <1>2
  <1>4. NoOptionLost'
    BY <1>3 DEF NoOptionLost, Labels, LabelsOf
  <1> QED BY <1>4 DEF LossInv, RowsOK

LEMMA OverIsNoLoop == Over \notin Loop /\ Unsaved \notin Loop
  BY DEF Over, Unsaved, Loop, Active, Running

LEMMA ThrowKeeps ==
    ASSUME LossInv, NEW s \in Save, Throw(s), UNCHANGED <<open, wanted>>,
           products \subseteq products'
    PROVE  LossInv'
  <1>1. saves' = [saves EXCEPT ![s] = Over] /\ UNCHANGED <<tags, rows>>
    BY DEF Throw, table
  <1>2. LoopsOK'
    BY <1>1, OverIsNoLoop, LoopStep DEF LossInv
  <1> QED BY <1>1, <1>2, ServerStep

LEMMA SaveKeeps ==
    ASSUME LossInv, NEW s \in Save, NEW submit \in BOOLEAN, SaveProduct(s, submit)
    PROVE  LossInv'
  <1> DEFINE l == [pc |-> "look", submit |-> submit, rows |-> rows,
                   group |-> 0, at |-> 1, failed |-> {}]
  <1>1. rows \in Seq(Row) /\ Len(rows) >= 2
    BY DEF LossInv, RowsOK, SaveProduct, Valid
  <1>2. l \in Loop
    BY <1>1 DEF Loop, Active, Running
  <1>3. wanted \subseteq Labels(products) \cup LabelsOf(rows)
    BY NoOptionLostSplit DEF LossInv
  <1>4. Sound(l, products, wanted)
    BY <1>1, <1>3 DEF Sound
  <1>5. saves' = [saves EXCEPT ![s] = l]
        /\ UNCHANGED <<tags, rows, products, open, wanted>>
    BY DEF SaveProduct, table, server
  <1> HIDE DEF l
  <1>6. LoopsOK'
    BY <1>2, <1>4, <1>5, LoopStep DEF LossInv
  <1> QED BY <1>5, <1>6, ServerStep

\* A loop that finds or makes its group has created nothing yet.
LEMMA GroupedIsSound ==
    ASSUME NEW l \in Loop, NEW k \in Loop, NEW P, NEW W, Sound(l, P, W),
           l.pc \in {"look", "insert"}, k.pc \in {"insert", "post"},
           k.rows = l.rows, k.at = l.at, k.failed = l.failed
    PROVE  Sound(k, P, W)
  <1>1. l.at = 1 /\ l.failed \subseteq 1..0
    BY DEF Sound
  <1>2. \A i \in 1..(k.at - 1) : FALSE
    BY <1>1
  <1> QED BY <1>1, <1>2 DEF Sound

LEMMA FindKeeps ==
    ASSUME LossInv, groups \subseteq Nat, NEW s \in Save, FindGroup(s)
    PROVE  LossInv'
  <1>1. /\ saves[s] \in Loop /\ Sound(saves[s], products, wanted) /\ LoopsOK
        /\ saves[s].pc = "look"
    BY RunningIsLoop DEF FindGroup, Running
  <1>2. UNCHANGED <<open, products, wanted>>
    BY DEF FindGroup, server
  <1>3. CASE groups = {}
    <2> DEFINE l == [saves[s] EXCEPT !.pc = "insert"]
    <2>1. saves' = [saves EXCEPT ![s] = l] /\ UNCHANGED <<tags, rows>>
      <3>1. Cardinality(groups) # 1
        BY <1>3, FS_EmptySet
      <3> QED BY <1>3, <3>1 DEF FindGroup, table
    <2>2. /\ l \in Loop /\ l.pc = "insert" /\ l.rows = saves[s].rows
          /\ l.at = saves[s].at /\ l.failed = saves[s].failed
      BY <1>1 DEF Loop, Active, Running
    <2> HIDE DEF l
    <2>3. Sound(l, products, wanted)
      BY <1>1, <2>2, GroupedIsSound
    <2>4. LoopsOK'
      BY <1>1, <1>2, <2>1, <2>2, <2>3, LoopStep
    <2> QED BY <1>2, <2>1, <2>4, ServerStep
  <1>4. CASE groups # {} /\ Cardinality(groups) = 1
    <2> DEFINE g == CHOOSE g \in groups : TRUE
               l == [saves[s] EXCEPT !.pc = "post", !.group = g]
    <2>0. g \in Nat
      BY <1>4
    <2> HIDE DEF g
    <2>1. saves' = [saves EXCEPT ![s] = l] /\ UNCHANGED <<tags, rows>>
      BY <1>4 DEF FindGroup, table, g
    <2>2. /\ l \in Loop /\ l.pc = "post" /\ l.rows = saves[s].rows
          /\ l.at = saves[s].at /\ l.failed = saves[s].failed
      BY <1>1, <2>0 DEF Loop, Active, Running
    <2> HIDE DEF l
    <2>3. Sound(l, products, wanted)
      BY <1>1, <2>2, GroupedIsSound
    <2>4. LoopsOK'
      BY <1>1, <1>2, <2>1, <2>2, <2>3, LoopStep
    <2> QED BY <1>2, <2>1, <2>4, ServerStep
  <1>5. CASE groups # {} /\ Cardinality(groups) # 1
    <2>1. Throw(s)
      BY <1>5 DEF FindGroup
    <2> QED BY <1>2, <2>1, ThrowKeeps
  <1> QED BY <1>3, <1>4, <1>5

LEMMA InsertKeeps ==
    ASSUME LossInv, NEW s \in Save, s \in Nat, InsertGroup(s)
    PROVE  LossInv'
  <1> DEFINE l == [saves[s] EXCEPT !.pc = "post", !.group = s]
  <1>1. /\ saves[s] \in Loop /\ Sound(saves[s], products, wanted) /\ LoopsOK
        /\ saves[s].pc = "insert"
    BY RunningIsLoop DEF InsertGroup, Running
  <1>2. UNCHANGED <<tags, rows, open, products, wanted>>
    BY DEF InsertGroup, table
  <1>3. saves' = [saves EXCEPT ![s] = l]
    BY DEF InsertGroup
  <1>4. /\ l \in Loop /\ l.pc = "post" /\ l.rows = saves[s].rows
        /\ l.at = saves[s].at /\ l.failed = saves[s].failed
    BY <1>1 DEF Loop, Active, Running
  <1> HIDE DEF l
  <1>5. Sound(l, products, wanted)
    BY <1>1, <1>4, GroupedIsSound
  <1>6. LoopsOK'
    BY <1>1, <1>2, <1>3, <1>4, <1>5, LoopStep
  <1> QED BY <1>2, <1>6, ServerStep

\* What the answer to a row tells of the rows behind the loop.
LEMMA AcceptedIsCreated ==
    ASSUME NEW s \in Save, saves[s] \in Loop, saves[s].at \in 1..Len(saves[s].rows),
           Accepted(Payload(s))
    PROVE  Created(saves[s], saves[s].at, products \cup {Payload(s)})
  <1> DEFINE l == saves[s]
             p == Payload(s)
             row == l.rows[l.at]
  <1>1. row \in Row /\ l.submit \in BOOLEAN
    BY DEF Loop
  <1>2. row.photo \in BOOLEAN
    BY <1>1 DEF Row
  <1>3. /\ p.label = row.label /\ p.sku = row.sku /\ p.group = l.group
        /\ p.photo = (IF row.photo THEN "own" ELSE IF shared THEN "shared" ELSE "none")
        /\ p.status = (IF l.submit THEN "SUBMITTED" ELSE "DRAFT")
    BY DEF Payload
  <1>4. p.photo = "own" <=> row.photo
    BY <1>2, <1>3
  <1>5. p.status = "SUBMITTED" <=> l.submit
    BY <1>1, <1>3
  <1>6. p.status = "SUBMITTED" => p.photo # "none"
    BY DEF Accepted
  <1> QED BY <1>3, <1>4, <1>5, <1>6 DEF Created

LEMMA CreatedAlike ==
    ASSUME NEW l, NEW k, NEW i, NEW P, Created(l, i, P),
           k.rows = l.rows, k.group = l.group, k.submit = l.submit
    PROVE  Created(k, i, P)
  BY DEF Created

LEMMA CreateKeeps ==
    ASSUME LossInv, NEW s \in Save, CreateProduct(s)
    PROVE  LossInv'
  <1> DEFINE l == saves[s]
             p == Payload(s)
             failed == l.failed \cup IF Accepted(p) THEN {} ELSE {l.at}
  <1>1. l \in Loop /\ Sound(l, products, wanted) /\ LoopsOK /\ l.pc = "post"
    BY RunningIsLoop DEF CreateProduct, Running
  <1>2. /\ products' = IF Accepted(p) THEN products \cup {p} ELSE products
        /\ Answered(s, Accepted(p)) /\ UNCHANGED <<open, wanted>>
    BY DEF CreateProduct
  <1>3. products \subseteq products'
    BY <1>2
  <1>4. /\ l.at \in 1..Len(l.rows) /\ l.at \in Nat /\ Len(l.rows) \in Nat
        /\ l.rows \in Seq(Row) /\ l.failed \subseteq 1..(l.at - 1)
        /\ \A i \in 1..(l.at - 1) : i \notin l.failed => Created(l, i, products)
        /\ wanted \subseteq Labels(products) \cup LabelsOf(l.rows)
    BY <1>1 DEF Sound, Loop
  <1>5. failed \subseteq 1..l.at
    BY <1>4
  <1>6. \A i \in 1..l.at : i \notin failed => Created(l, i, products')
    <2> SUFFICES ASSUME NEW i \in 1..l.at, i \notin failed
                 PROVE  Created(l, i, products')
      OBVIOUS
    <2>1. CASE i = l.at
      <3>1. Accepted(p)
        BY <2>1
      <3> QED BY <1>1, <1>2, <1>4, <2>1, <3>1, AcceptedIsCreated
    <2>2. CASE i # l.at
      <3>1. Created(l, i, products)
        BY <1>4, <2>2
      <3> QED BY <1>3, <3>1, CreatedGrows
    <2> QED BY <2>1, <2>2
  <1>7. wanted \subseteq Labels(products') \cup LabelsOf(l.rows)
    BY <1>3, <1>4, LabelsGrow
  <1>8. IF l.at < Len(l.rows)
        THEN /\ saves' = [saves EXCEPT ![s].at = @ + 1, ![s].failed = failed]
             /\ UNCHANGED <<tags, rows>>
        ELSE EndLoop(s, failed)
    BY <1>2 DEF Answered, table
  <1> HIDE DEF failed, p
  <1>9. CASE l.at < Len(l.rows)
    <2> DEFINE k == [l EXCEPT !.at = l.at + 1, !.failed = failed]
    <2>1. saves' = [saves EXCEPT ![s] = k] /\ UNCHANGED <<tags, rows>>
      BY <1>1, <1>8, <1>9 DEF LoopsOK
    <2>2. /\ k \in Loop /\ k.pc = "post" /\ k.at = l.at + 1 /\ k.failed = failed
          /\ k.rows = l.rows /\ k.group = l.group /\ k.submit = l.submit
      <3>1. failed \in SUBSET Nat /\ l.at + 1 \in Nat
        BY <1>4, <1>5
      <3> QED BY <1>1, <3>1 DEF Loop, Active, Running
    <2> HIDE DEF k
    <2>3. \A i \in 1..l.at : i \notin failed => Created(k, i, products')
      BY <1>6, <2>2, CreatedAlike
    <2>4. k.at \in 1..Len(k.rows) /\ k.at - 1 = l.at
      BY <1>4, <1>9, <2>2
    <2>5. failed \subseteq 1..k.at
      BY <1>4, <1>5, <2>2
    <2>6. Sound(k, products', wanted)
      BY <1>5, <1>7, <2>2, <2>3, <2>4, <2>5 DEF Sound
    <2>7. LoopsOK'
      BY <1>1, <1>2, <1>3, <2>1, <2>2, <2>6, LoopStep
    <2> QED BY <1>2, <1>3, <2>1, <2>7, ServerStep
  <1>10. CASE ~(l.at < Len(l.rows))
    <2>0. l.at = Len(l.rows)
      BY <1>4, <1>10
    <2>1. CASE failed = {}
      <3> DEFINE k == [l EXCEPT !.pc = "told"]
      <3>1. saves' = [saves EXCEPT ![s] = k] /\ UNCHANGED <<tags, rows>>
        BY <1>1, <1>8, <1>10, <2>1 DEF EndLoop, LoopsOK
      <3>2. /\ k \in Loop /\ k.pc = "told" /\ k.at = l.at /\ k.failed = l.failed
            /\ k.rows = l.rows /\ k.group = l.group /\ k.submit = l.submit
        BY <1>1 DEF Loop, Active
      <3> HIDE DEF k
      <3>3. \A i \in 1..Len(k.rows) : Created(k, i, products')
        BY <1>6, <2>0, <2>1, <3>2, CreatedAlike
      <3>4. k.failed \subseteq 1..k.at
        BY <1>4, <3>2
      <3>5. \A i \in 1..(k.at - 1) : Created(k, i, products')
        BY <1>4, <2>0, <3>2, <3>3
      <3>6. Sound(k, products', wanted)
        BY <1>4, <1>7, <3>2, <3>3, <3>4, <3>5 DEF Sound
      <3>7. LoopsOK'
        BY <1>1, <1>2, <1>3, <3>1, <3>2, <3>6, LoopStep
      <3> QED BY <1>2, <1>3, <3>1, <3>7, ServerStep
    <2>2. CASE failed # {}
      <3>1. /\ saves' = [saves EXCEPT ![s] = Over]
            /\ rows' = Kept(s, failed) /\ tags' = tags
        BY <1>8, <1>10, <2>2 DEF EndLoop
      <3>2. LoopsOK'
        BY <1>1, <1>2, <1>3, <3>1, OverIsNoLoop, LoopStep
      <3>3. /\ rows' \in Seq(Row)
            /\ \A i \in failed : l.rows[i].label \in LabelsOf(rows')
        BY <1>4, <1>5, <2>0, <3>1, KeptRows
      <3>4. ASSUME NEW i \in DOMAIN l.rows, i \notin failed
            PROVE  l.rows[i].label \in Labels(products')
        <4>1. i \in 1..l.at
          BY <1>4, <2>0
        <4> QED BY <1>6, <3>4, <4>1 DEF Created, Labels
      <3>5. LabelsOf(l.rows) \subseteq Labels(products') \cup LabelsOf(rows')
        BY <3>3, <3>4 DEF LabelsOf
      <3>6. CASE open
        <4>1. wanted' \subseteq Labels(products') \cup LabelsOf(rows')
          BY <1>2, <1>7, <3>5
        <4>2. NoOptionLost'
          BY <1>2, <3>6, <4>1 DEF NoOptionLost, Labels, LabelsOf
        <4> QED BY <3>1, <3>2, <3>3, <4>2 DEF LossInv, RowsOK
      <3>7. CASE ~open
        <4>1. wanted \subseteq Labels(products)
          BY <3>7, NoOptionLostSplit DEF LossInv
        <4>2. wanted' \subseteq Labels(products')
          BY <1>2, <1>3, <4>1, LabelsGrow
        <4>3. NoOptionLost'
          BY <1>2, <3>7, <4>2 DEF NoOptionLost, Labels
        <4> QED BY <3>1, <3>2, <3>3, <4>3 DEF LossInv, RowsOK
      <3> QED BY <3>6, <3>7
    <2> QED BY <2>1, <2>2
  <1> QED BY <1>9, <1>10

LEMMA LostKeeps ==
    ASSUME LossInv, NEW s \in Save, LostRequest(s)
    PROVE  LossInv'
  <1>1. Throw(s) /\ UNCHANGED <<open, wanted>>
    BY DEF LostRequest
  <1>2. products \subseteq products'
    BY DEF LostRequest, server
  <1> QED BY <1>1, <1>2, ThrowKeeps

\* The page closes after a success: all the rows of that click are products.
LEMMA NavigateKeeps ==
    ASSUME LossInv, Navigate
    PROVE  LossInv'
  <1>1. UNCHANGED <<tags, rows, saves, products, wanted>> /\ ~open'
    BY DEF Navigate, table, server
  <1>2. PICK s \in Save : saves[s].pc = "told"
    BY DEF Navigate, InState
  <1>3. saves[s] \in Loop /\ Sound(saves[s], products, wanted)
    BY <1>2, ActiveIsLoop DEF LossInv, LoopsOK, Active
  <1>4. saves[s].rows \in Seq(Row)
    BY <1>3 DEF Loop
  <1>5. \A i \in DOMAIN saves[s].rows : saves[s].rows[i].label \in Labels(products)
    BY <1>2, <1>3, <1>4 DEF Sound, Created, Labels
  <1>6. wanted \subseteq Labels(products)
    BY <1>3, <1>5 DEF Sound, LabelsOf
  <1>7. NoOptionLost'
    BY <1>1, <1>6 DEF NoOptionLost, Labels
  <1>8. LoopsOK'
    BY <1>1, LoopsRest DEF LossInv
  <1> QED BY <1>1, <1>7, <1>8 DEF LossInv, RowsOK

---------------------------------------------------------------------------
\* One family

LEMMA GroupsRest ==
    ASSUME GroupsOK, UNCHANGED <<saves, groups, crossed>>
    PROVE  GroupsOK'
  BY DEF GroupsOK, InState

\* A running loop takes a step: no other one starts to run, and the groups are
\* as they were unless it inserts its own.
LEMMA GroupsStep ==
    ASSUME GroupsOK, DOMAIN saves = Save, NEW s \in Save, saves[s].pc \in Running,
           NEW l, saves' = [saves EXCEPT ![s] = l], crossed' = crossed,
           \/ groups' = groups /\ l.pc # "insert"
           \/ groups' = groups /\ groups = {}
           \/ groups' = groups \cup {s} /\ saves[s].pc = "insert" /\ l.pc # "insert"
    PROVE  GroupsOK'
  <1>1. groups' \subseteq Save
    BY DEF GroupsOK
  <1>2. ASSUME ~crossed'
        PROVE  /\ \A a, b \in InState(Running)' : a = b
               /\ InState({"insert"})' # {} => groups' = {}
               /\ Cardinality(groups') <= 1
    <2>1. /\ \A a, b \in InState(Running) : a = b
          /\ InState({"insert"}) # {} => groups = {}
          /\ Cardinality(groups) <= 1
      BY <1>2 DEF GroupsOK
    <2>2. \A a \in Save : a # s => saves'[a] = saves[a]
      OBVIOUS
    <2>3. s \in InState(Running)
      BY DEF InState
    <2>4. \A a \in Save : a # s => saves[a].pc \notin Running
      BY <2>1, <2>3 DEF InState
    <2>5. \A a \in InState(Running)' : a = s
      BY <2>2, <2>4 DEF InState
    <2>6. \A a \in InState({"insert"})' : a = s
      BY <2>2, <2>4 DEF InState, Running
    <2>7. saves'[s].pc = l.pc
      OBVIOUS
    <2>8. l.pc # "insert" => InState({"insert"})' = {}
      BY <2>6, <2>7 DEF InState
    <2>9. CASE groups' = groups
      BY <2>1, <2>5, <2>8, <2>9
    <2>10. CASE groups' = groups \cup {s} /\ saves[s].pc = "insert" /\ l.pc # "insert"
      <3>1. groups = {}
        BY <2>1, <2>10 DEF InState
      <3>2. groups' = {s}
        BY <2>10, <3>1
      <3>3. Cardinality(groups') = 1
        BY <3>2, FS_Singleton
      <3> QED BY <2>5, <2>8, <2>10, <3>3
    <2> QED BY <2>9, <2>10
  <1> QED BY <1>1, <1>2 DEF GroupsOK

LEMMA GroupsSave ==
    ASSUME GroupsOK, DOMAIN saves = Save, NEW s \in Save, NEW submit, SaveProduct(s, submit)
    PROVE  GroupsOK'
  <1>1. /\ crossed' = (crossed \/ InState(Running) # {}) /\ groups' = groups
        /\ \A a \in Save : a # s => saves'[a] = saves[a]
        /\ saves'[s].pc = "look"
    BY DEF SaveProduct, server
  <1>2. ASSUME ~crossed'
        PROVE  /\ \A a, b \in InState(Running)' : a = b
               /\ InState({"insert"})' # {} => groups' = {}
               /\ Cardinality(groups') <= 1
    <2>1. InState(Running) = {} /\ ~crossed
      BY <1>1, <1>2
    <2>2. \A a \in InState(Running)' : a = s
      BY <1>1, <2>1 DEF InState
    <2>3. InState({"insert"})' = {}
      BY <1>1, <2>2 DEF InState, Running
    <2> QED BY <1>1, <2>1, <2>2, <2>3 DEF GroupsOK
  <1> QED BY <1>1, <1>2 DEF GroupsOK

LEMMA GroupsThrow ==
    ASSUME GroupsOK, DOMAIN saves = Save, NEW s \in Save, saves[s].pc \in Running,
           Throw(s), crossed' = crossed,
           groups' = groups \/ (groups' = groups \cup {s} /\ saves[s].pc = "insert")
    PROVE  GroupsOK'
  <1>1. saves' = [saves EXCEPT ![s] = Over] /\ Over.pc # "insert"
    BY DEF Throw, Over
  <1> QED BY <1>1, GroupsStep

LEMMA GroupsFind ==
    ASSUME LossInv, GroupsOK, NEW s \in Save, FindGroup(s)
    PROVE  GroupsOK'
  <1>1. saves[s].pc \in Running /\ groups' = groups /\ crossed' = crossed
    BY DEF FindGroup, Running, server
  <1>0. DOMAIN saves = Save /\ saves[s] \in Loop
    BY <1>1, RunningIsLoop
  <1>2. CASE groups = {}
    <2>1. Cardinality(groups) # 1
      BY <1>2, FS_EmptySet
    <2>2. saves' = [saves EXCEPT ![s] = [saves[s] EXCEPT !.pc = "insert"]]
      BY <1>2, <2>1 DEF FindGroup
    <2> QED BY <1>0, <1>1, <1>2, <2>2, GroupsStep
  <1>3. CASE groups # {} /\ Cardinality(groups) = 1
    <2> DEFINE g == CHOOSE g \in groups : TRUE
               l == [saves[s] EXCEPT !.pc = "post", !.group = g]
    <2> HIDE DEF g
    <2>1. saves' = [saves EXCEPT ![s] = l]
      BY <1>3 DEF FindGroup, g
    <2>2. l.pc # "insert"
      BY <1>0 DEF Loop
    <2> HIDE DEF l
    <2> QED BY <1>0, <1>1, <2>1, <2>2, GroupsStep
  <1>4. CASE groups # {} /\ Cardinality(groups) # 1
    <2>1. Throw(s)
      BY <1>4 DEF FindGroup
    <2> QED BY <1>0, <1>1, <2>1, GroupsThrow
  <1> QED BY <1>2, <1>3, <1>4

LEMMA GroupsInsert ==
    ASSUME LossInv, GroupsOK, NEW s \in Save, InsertGroup(s)
    PROVE  GroupsOK'
  <1> DEFINE l == [saves[s] EXCEPT !.pc = "post", !.group = s]
  <1>1. saves[s].pc = "insert" /\ groups' = groups \cup {s} /\ crossed' = crossed
    BY DEF InsertGroup
  <1>2. DOMAIN saves = Save /\ saves[s] \in Loop
    BY <1>1, RunningIsLoop DEF Running
  <1>3. saves' = [saves EXCEPT ![s] = l]
    BY DEF InsertGroup
  <1>4. l.pc # "insert"
    BY <1>2 DEF Loop
  <1> HIDE DEF l
  <1> QED BY <1>1, <1>2, <1>3, <1>4, GroupsStep DEF Running

LEMMA GroupsCreate ==
    ASSUME LossInv, GroupsOK, NEW s \in Save, CreateProduct(s)
    PROVE  GroupsOK'
  <1>1. saves[s].pc = "post" /\ groups' = groups /\ crossed' = crossed
    BY DEF CreateProduct
  <1>2. DOMAIN saves = Save /\ saves[s] \in Loop
    BY <1>1, RunningIsLoop DEF Running
  <1>3. PICK ok : Answered(s, ok)
    BY DEF CreateProduct
  <1> DEFINE failed == saves[s].failed \cup IF ok THEN {} ELSE {saves[s].at}
  <1>4. CASE saves[s].at < Len(saves[s].rows)
    <2> DEFINE l == [saves[s] EXCEPT !.at = saves[s].at + 1, !.failed = failed]
    <2>1. saves' = [saves EXCEPT ![s] = l]
      BY <1>2, <1>3, <1>4 DEF Answered
    <2>2. l.pc # "insert"
      BY <1>1, <1>2 DEF Loop
    <2> HIDE DEF l
    <2> QED BY <1>1, <1>2, <2>1, <2>2, GroupsStep DEF Running
  <1>5. CASE ~(saves[s].at < Len(saves[s].rows))
    <2> DEFINE l == IF failed = {} THEN [saves[s] EXCEPT !.pc = "told"] ELSE Over
    <2>1. saves' = [saves EXCEPT ![s] = l]
      BY <1>2, <1>3, <1>5 DEF Answered, EndLoop
    <2>2. l.pc # "insert"
      BY <1>1, <1>2 DEF Loop, Over
    <2> HIDE DEF l
    <2> QED BY <1>1, <1>2, <2>1, <2>2, GroupsStep DEF Running
  <1> QED BY <1>4, <1>5

LEMMA GroupsLost ==
    ASSUME LossInv, GroupsOK, NEW s \in Save, LostRequest(s)
    PROVE  GroupsOK'
  <1>1. /\ saves[s].pc \in Running /\ crossed' = crossed /\ Throw(s)
        /\ groups' = groups \/ (groups' = groups \cup {s} /\ saves[s].pc = "insert")
    BY DEF LostRequest, server
  <1>2. DOMAIN saves = Save
    BY <1>1, RunningIsLoop
  <1> QED BY <1>1, <1>2, GroupsThrow

\* A product is added when the server accepts it, and it refuses an option that
\* the group has.
LEMMA SingleStep ==
    ASSUME Single, NEW p, products' = products \/ (Accepted(p) /\ products' = products \cup {p})
    PROVE  Single'
  BY DEF Single, Accepted

---------------------------------------------------------------------------
\* The invariant

EditorInv == LossInv /\ GroupsOK /\ Single

LEMMA EditorInit == Init => EditorInv
  <1> SUFFICES ASSUME Init PROVE EditorInv
    OBVIOUS
  <1>1. \A s \in Save : saves[s] = Unsaved
    BY DEF Init
  <1>2. LoopsOK
    BY <1>1, OverIsNoLoop DEF Init, LoopsOK
  <1>3. NoOptionLost
    BY DEF Init, NoOptionLost
  <1>4. RowsOK
    BY DEF Init, RowsOK
  <1>5. \A pcs : Unsaved.pc \notin pcs => InState(pcs) = {}
    BY <1>1 DEF InState
  <1>6. InState(Running) = {} /\ InState({"insert"}) = {}
    BY <1>5 DEF Unsaved, Running
  <1>7. GroupsOK
    BY <1>6, FS_EmptySet DEF Init, GroupsOK
  <1>8. Single
    BY DEF Init, Single
  <1> QED BY <1>2, <1>3, <1>4, <1>7, <1>8 DEF EditorInv, LossInv

LEMMA EditorStep == EditorInv /\ [Next]_vars => EditorInv'
  <1> SUFFICES ASSUME EditorInv, [Next]_vars PROVE EditorInv'
    OBVIOUS
  <1> USE DEF EditorInv
  <1>0. /\ \A s \in Save : s \in Nat
        /\ groups \subseteq Nat /\ DOMAIN saves = Save
    BY DEF GroupsOK, LossInv, LoopsOK, Save
  \* The table, the uploads and the page.
  <1>1. ASSUME NEW l \in Label, AddVariantTag(l) PROVE EditorInv'
    <2>1. UNCHANGED <<saves, groups, products, crossed>>
      BY <1>1 DEF AddVariantTag, server
    <2> QED BY <1>1, <2>1, AddKeeps, GroupsRest DEF Single
  <1>2. ASSUME NEW i, RemoveVariantTag(i) PROVE EditorInv'
    <2>1. UNCHANGED <<saves, groups, products, crossed>>
      BY <1>2 DEF RemoveVariantTag, server
    <2> QED BY <1>2, <2>1, RemoveKeeps, GroupsRest DEF Single
  <1>3. ASSUME NEW i, NEW sku \in Sku, UpdateVariantRow(i, sku) PROVE EditorInv'
    <2>1. UNCHANGED <<saves, groups, products, crossed>>
      BY <1>3 DEF UpdateVariantRow, server
    <2> QED BY <1>3, <2>1, UpdateKeeps, GroupsRest DEF Single
  <1>4. ASSUME NEW i, ClearPhotos(i) PROVE EditorInv'
    <2>1. /\ UNCHANGED <<tags, saves, groups, products, crossed, open, wanted>>
          /\ i \in DOMAIN rows /\ rows' = [rows EXCEPT ![i].photo = FALSE]
      BY <1>4 DEF ClearPhotos, server
    <2> QED BY <2>1, PhotoKeeps, GroupsRest DEF Single
  <1>5. ASSUME NEW i, StartUpload(i) \/ UploadFailed(i) PROVE EditorInv'
    <2>1. UNCHANGED <<tags, rows, saves, groups, products, crossed, open, wanted>>
      BY <1>5 DEF StartUpload, UploadFailed, server
    <2> QED BY <2>1, TableRest, GroupsRest DEF Single
  <1>6. ASSUME NEW i, UploadDone(i) PROVE EditorInv'
    <2>1. UNCHANGED <<saves, groups, products, crossed>>
      BY <1>6 DEF UploadDone, server
    <2> QED BY <1>6, <2>1, UploadKeeps, GroupsRest DEF Single
  <1>7. ASSUME Navigate PROVE EditorInv'
    <2>1. UNCHANGED <<saves, groups, products, crossed>>
      BY <1>7 DEF Navigate, server
    <2> QED BY <1>7, <2>1, NavigateKeeps, GroupsRest DEF Single
  \* The saves.
  <1>8. ASSUME NEW s \in Save, NEW submit \in BOOLEAN, SaveProduct(s, submit)
        PROVE  EditorInv'
    <2>1. products' = products
      BY <1>8 DEF SaveProduct, server
    <2> QED BY <1>0, <1>8, <2>1, SaveKeeps, GroupsSave DEF Single
  <1>9. ASSUME NEW s \in Save, FindGroup(s) PROVE EditorInv'
    <2>1. products' = products
      BY <1>9 DEF FindGroup, server
    <2> QED BY <1>0, <1>9, <2>1, FindKeeps, GroupsFind DEF Single
  <1>10. ASSUME NEW s \in Save, InsertGroup(s) PROVE EditorInv'
    <2>1. products' = products
      BY <1>10 DEF InsertGroup
    <2> QED BY <1>0, <1>10, <2>1, InsertKeeps, GroupsInsert DEF Single
  <1>11. ASSUME NEW s \in Save, CreateProduct(s) PROVE EditorInv'
    <2>1. Single'
      BY <1>11, SingleStep DEF CreateProduct
    <2> QED BY <1>11, <2>1, CreateKeeps, GroupsCreate
  <1>12. ASSUME NEW s \in Save, LostRequest(s) PROVE EditorInv'
    <2>1. Single'
      BY <1>12, SingleStep DEF LostRequest, server
    <2> QED BY <1>12, <2>1, LostKeeps, GroupsLost
  <1>13. CASE UNCHANGED vars
    <2>1. UNCHANGED <<tags, rows, saves, groups, products, crossed, open, wanted>>
      BY <1>13 DEF vars, table, server
    <2> QED BY <2>1, TableRest, GroupsRest DEF Single
  <1> HIDE DEF EditorInv
  <1>14. CASE SellerActs
    BY <1>1, <1>2, <1>3, <1>4, <1>5, <1>8, <1>14 DEF SellerActs
  <1> QED BY <1>5, <1>6, <1>7, <1>9, <1>10, <1>11, <1>12, <1>13, <1>14 DEF Next

LEMMA Invariant == Spec => []EditorInv
  BY EditorInit, EditorStep, PTL DEF Spec

\* When the page tells of a created family, every row of that click is a product
\* of its group with the row's SKU, photos and the status asked for, whatever an
\* upload, the seller or another save did meanwhile (handleSaveProduct).
THEOREM ToldFamilyCorrect == Spec => []ToldFamily
  <1>1. EditorInv => ToldFamily
    <2> SUFFICES ASSUME EditorInv, NEW s \in InState({"told"}), NEW i \in DOMAIN saves[s].rows
                 PROVE  LET row == saves[s].rows[i] IN
                        \E p \in products :
                            /\ p.label = row.label /\ p.sku = row.sku
                            /\ p.group = saves[s].group
                            /\ p.photo = "own" <=> row.photo
                            /\ p.status = "SUBMITTED" <=> saves[s].submit
                            /\ p.status = "SUBMITTED" => p.photo # "none"
      BY DEF ToldFamily
    <2>1. s \in Save /\ saves[s].pc = "told"
      BY DEF InState
    <2>2. saves[s] \in Loop /\ Sound(saves[s], products, wanted)
      BY <2>1, ActiveIsLoop DEF EditorInv, LossInv, LoopsOK, Active
    <2>3. i \in 1..Len(saves[s].rows)
      BY <2>2 DEF Loop
    <2>4. Created(saves[s], i, products)
      BY <2>1, <2>2, <2>3 DEF Sound
    <2> QED BY <2>4 DEF Created
  <1> QED BY <1>1, Invariant, PTL

\* An option entered while no save ran, and not removed, is a row of the table or
\* a product, through refusals, lost answers, retries and overlapping saves.
THEOREM NoOptionLostCorrect == Spec => []NoOptionLost
  <1>1. EditorInv => NoOptionLost
    BY DEF EditorInv, LossInv
  <1> QED BY <1>1, Invariant, PTL

\* Unless two saves ran at once the table has one variant group, and no option is
\* in a group twice.
THEOREM OneFamilyCorrect == Spec => []OneFamily
  <1>1. EditorInv => OneFamily
    BY DEF EditorInv, GroupsOK, Single, OneFamily
  <1> QED BY <1>1, Invariant, PTL

---------------------------------------------------------------------------
\* Types: what the catalogue holds belongs to groups that exist

\* BOOLEAN, which the SMT solver does not see into.
Truth == BOOLEAN

Flags == shared \in Truth /\ loading \in Truth /\ open \in Truth /\ crossed \in Truth

Budgeted ==
    budget \in [uploads : 0..MaxUploads, faults : 0..MaxFaults, edits : 0..MaxEdits]

SmallTypes == uploads \subseteq Nat /\ wanted \subseteq Label

\* A loop has two rows or more, and sends no row before it has a group.
Housed(l, G) == Len(l.rows) >= 2 /\ (l.pc \in {"post", "told"} => l.group \in G)

LoopsHoused == \A s \in Save : saves[s] \in Loop => Housed(saves[s], groups)

Catalogue == products \subseteq Product /\ \A p \in products : p.group \in groups

TypeInv == Flags /\ Budgeted /\ SmallTypes /\ LoopsHoused /\ Catalogue

LEMMA SpentOnce ==
    ASSUME ProductEditorAssumption, Budgeted,
           NEW what \in {"uploads", "faults", "edits"}, Spend(what)
    PROVE  Budgeted'
  <1>1. budget[what] > 0 /\ budget' = [budget EXCEPT ![what] = @ - 1]
    BY DEF Spend
  <1>2. /\ budget = [uploads |-> budget.uploads, faults |-> budget.faults, edits |-> budget.edits]
        /\ budget.uploads \in 0..MaxUploads /\ budget.faults \in 0..MaxFaults
        /\ budget.edits \in 0..MaxEdits
        /\ MaxUploads \in Nat /\ MaxFaults \in Nat /\ MaxEdits \in Nat
    BY DEF Budgeted, ProductEditorAssumption
  <1>3. CASE what = "uploads"
    BY <1>1, <1>2, <1>3 DEF Budgeted
  <1>4. CASE what = "faults"
    BY <1>1, <1>2, <1>4 DEF Budgeted
  <1>5. CASE what = "edits"
    BY <1>1, <1>2, <1>5 DEF Budgeted
  <1> QED BY <1>3, <1>4, <1>5

LEMMA BudgetKeeps ==
    ASSUME ProductEditorAssumption, Budgeted, [Next]_vars
    PROVE  Budgeted'
  <1>1. \/ UNCHANGED budget
        \/ \E what \in {"uploads", "faults", "edits"} : Spend(what)
    BY DEF Next, SellerActs, AddVariantTag, RemoveVariantTag, UpdateVariantRow, ClearPhotos,
           StartUpload, UploadDone, UploadFailed, SaveProduct, FindGroup, InsertGroup,
           CreateProduct, LostRequest, Navigate, vars
  <1> QED BY <1>1, SpentOnce DEF Budgeted

LEMMA TruthOf == TRUE \in Truth /\ FALSE \in Truth /\ \A a, b : (a \/ b) \in Truth
  BY DEF Truth

LEMMA LoadingKept ==
    ASSUME Flags, NEW s \in Save, FindGroup(s) \/ CreateProduct(s) \/ LostRequest(s)
    PROVE  Flags'
  <1>1. ASSUME Throw(s) PROVE loading' \in Truth
    BY <1>1, TruthOf, Zenon DEF Throw
  <1>2. UNCHANGED <<shared, open, crossed>>
    BY Zenon DEF FindGroup, CreateProduct, LostRequest
  <1>3. ASSUME NEW ok, Answered(s, ok) PROVE loading' \in Truth
    BY <1>3, TruthOf, Zenon DEF Answered, EndLoop, Flags
  <1>4. CASE FindGroup(s)
    <2>1. CASE groups = {}
      <3>1. Cardinality(groups) # 1
        BY <2>1, FS_EmptySet
      <3>2. UNCHANGED loading
        BY <1>4, <2>1, <3>1 DEF FindGroup
      <3> QED BY <1>2, <3>2, Zenon DEF Flags
    <2>2. CASE groups # {} /\ Cardinality(groups) = 1
      <3>1. UNCHANGED loading
        BY <1>4, <2>2 DEF FindGroup
      <3> QED BY <1>2, <3>1, Zenon DEF Flags
    <2>3. CASE groups # {} /\ Cardinality(groups) # 1
      <3>1. Throw(s)
        BY <1>4, <2>3 DEF FindGroup
      <3> QED BY <1>1, <1>2, <3>1, Zenon DEF Flags
    <2> QED BY <2>1, <2>2, <2>3
  <1>5. CASE CreateProduct(s)
    BY <1>2, <1>3, <1>5, Zenon DEF CreateProduct, Flags
  <1>6. CASE LostRequest(s)
    BY <1>1, <1>2, <1>6, Zenon DEF LostRequest, Flags
  <1> QED BY <1>4, <1>5, <1>6

LEMMA FlagsKeep ==
    ASSUME Flags, [Next]_vars
    PROVE  Flags'
  <1>1. CASE UNCHANGED vars
    BY <1>1, Zenon DEF vars, Flags
  <1>2. ASSUME NEW i, UploadDone(i) \/ UploadFailed(i) PROVE Flags'
    BY <1>2, TruthOf, Zenon DEF UploadDone, UploadFailed, Flags
  <1>3. ASSUME NEW s \in Save, InsertGroup(s) PROVE Flags'
    BY <1>3, Zenon DEF InsertGroup, Flags
  <1>4. CASE Navigate
    BY <1>4, TruthOf, Zenon DEF Navigate, Flags
  <1>5. ASSUME NEW s \in Save, NEW submit, SaveProduct(s, submit) PROVE Flags'
    BY <1>5, TruthOf, Zenon DEF SaveProduct, Flags
  <1>6. ASSUME NEW i, StartUpload(i) PROVE Flags'
    BY <1>6, TruthOf, Zenon DEF StartUpload, Flags
  <1>7. CASE SellerActs
    BY <1>5, <1>6, <1>7, Zenon DEF SellerActs, AddVariantTag, RemoveVariantTag, UpdateVariantRow,
                                   ClearPhotos, Flags
  <1> QED BY <1>1, <1>2, <1>3, <1>4, <1>7, LoadingKept, Zenon DEF Next

LEMMA SmallKeep ==
    ASSUME SmallTypes, RowsOK, [Next]_vars
    PROVE  SmallTypes'
  <1>1. CASE UNCHANGED <<uploads, wanted>>
    BY <1>1 DEF SmallTypes
  <1>2. ASSUME NEW l \in Label, AddVariantTag(l) PROVE SmallTypes'
    BY <1>2 DEF AddVariantTag, SmallTypes
  <1>3. ASSUME NEW i, RemoveVariantTag(i) PROVE SmallTypes'
    BY <1>3 DEF RemoveVariantTag, SmallTypes
  <1>4. ASSUME NEW i \in DOMAIN rows, StartUpload(i) PROVE SmallTypes'
    <2>1. i \in Nat
      BY DEF RowsOK
    <2>2. uploads' = uploads \cup {i} /\ wanted' = wanted
      BY <1>4, Zenon DEF StartUpload
    <2> QED BY <2>1, <2>2 DEF SmallTypes
  <1>5. ASSUME NEW i, UploadDone(i) \/ UploadFailed(i) PROVE SmallTypes'
    BY <1>5 DEF UploadDone, UploadFailed, SmallTypes
  <1>6. ASSUME NEW s \in Save, FindGroup(s) \/ InsertGroup(s) \/ CreateProduct(s) \/ LostRequest(s)
        PROVE  SmallTypes'
    <2>1. wanted' = wanted
      BY <1>6 DEF FindGroup, InsertGroup, CreateProduct, LostRequest
    <2>2. ASSUME Throw(s) PROVE uploads' = uploads
      BY <2>2 DEF Throw, table
    <2>3. ASSUME NEW ok, Answered(s, ok) PROVE uploads' = uploads
      BY <2>3 DEF Answered, EndLoop, table
    <2>4. ASSUME FindGroup(s) PROVE uploads' = uploads
      <3>1. CASE groups = {}
        <4>1. Cardinality(groups) # 1
          BY <3>1, FS_EmptySet
        <4> QED BY <2>4, <3>1, <4>1 DEF FindGroup, table
      <3>2. CASE groups # {} /\ Cardinality(groups) = 1
        BY <2>4, <3>2 DEF FindGroup, table
      <3>3. CASE groups # {} /\ Cardinality(groups) # 1
        BY <2>2, <2>4, <3>3 DEF FindGroup
      <3> QED BY <3>1, <3>2, <3>3
    <2>5. uploads' = uploads
      BY <1>6, <2>2, <2>3, <2>4 DEF InsertGroup, CreateProduct, LostRequest, table
    <2> QED BY <1>1, <2>1, <2>5
  <1>7. CASE SellerActs
    BY <1>1, <1>2, <1>3, <1>4, <1>7
       DEF SellerActs, UpdateVariantRow, ClearPhotos, SaveProduct, table
  <1> QED BY <1>1, <1>5, <1>6, <1>7 DEF Next, Navigate, vars, table

\* A loop takes a step, and the groups stay or grow.
LEMMA HousedStep ==
    ASSUME LoopsOK, LoopsHoused, NEW s \in Save, NEW l,
           saves' = [saves EXCEPT ![s] = l], groups \subseteq groups',
           l \in Loop => Housed(l, groups')
    PROVE  LoopsHoused'
  <1>1. DOMAIN saves = Save
    BY DEF LoopsOK
  <1>2. ASSUME NEW o \in Save, saves'[o] \in Loop PROVE Housed(saves'[o], groups')
    <2>1. CASE o = s
      BY <1>1, <1>2, <2>1
    <2>2. CASE o # s
      <3>1. saves'[o] = saves[o] /\ Housed(saves[o], groups)
        BY <1>1, <1>2, <2>2 DEF LoopsHoused
      <3> QED BY <3>1 DEF Housed
    <2> QED BY <2>1, <2>2
  <1> QED BY <1>2 DEF LoopsHoused

LEMMA HousedThrow ==
    ASSUME LoopsOK, LoopsHoused, NEW s \in Save, Throw(s), groups \subseteq groups'
    PROVE  LoopsHoused'
  <1>1. saves' = [saves EXCEPT ![s] = Over]
    BY DEF Throw
  <1> QED BY <1>1, OverIsNoLoop, HousedStep

LEMMA HousedFind ==
    ASSUME LossInv, LoopsHoused, NEW s \in Save, FindGroup(s)
    PROVE  LoopsHoused'
  <1>1. saves[s] \in Loop /\ LoopsOK /\ saves[s].pc = "look" /\ groups' = groups
    BY RunningIsLoop DEF FindGroup, Running, server
  <1>2. Len(saves[s].rows) >= 2
    BY <1>1 DEF LoopsHoused, Housed
  <1>3. CASE groups = {}
    <2> DEFINE l == [saves[s] EXCEPT !.pc = "insert"]
    <2>1. Cardinality(groups) # 1
      BY <1>3, FS_EmptySet
    <2>2. saves' = [saves EXCEPT ![s] = l]
      BY <1>3, <2>1 DEF FindGroup
    <2>3. l.pc = "insert" /\ l.rows = saves[s].rows
      BY <1>1 DEF Loop
    <2> HIDE DEF l
    <2> QED BY <1>1, <1>2, <2>2, <2>3, HousedStep DEF Housed
  <1>4. CASE groups # {} /\ Cardinality(groups) = 1
    <2> DEFINE g == CHOOSE g \in groups : TRUE
               l == [saves[s] EXCEPT !.pc = "post", !.group = g]
    <2>1. g \in groups
      BY <1>4
    <2> HIDE DEF g
    <2>2. saves' = [saves EXCEPT ![s] = l]
      BY <1>4 DEF FindGroup, g
    <2>3. l.group = g /\ l.rows = saves[s].rows
      BY <1>1 DEF Loop
    <2> HIDE DEF l
    <2> QED BY <1>1, <1>2, <2>1, <2>2, <2>3, HousedStep DEF Housed
  <1>5. CASE groups # {} /\ Cardinality(groups) # 1
    <2>1. Throw(s)
      BY <1>5 DEF FindGroup
    <2> QED BY <1>1, <2>1, HousedThrow
  <1> QED BY <1>3, <1>4, <1>5

LEMMA HousedInsert ==
    ASSUME LossInv, LoopsHoused, NEW s \in Save, InsertGroup(s)
    PROVE  LoopsHoused'
  <1> DEFINE l == [saves[s] EXCEPT !.pc = "post", !.group = s]
  <1>1. saves[s] \in Loop /\ LoopsOK /\ saves[s].pc = "insert" /\ groups' = groups \cup {s}
    BY RunningIsLoop DEF InsertGroup, Running
  <1>2. saves' = [saves EXCEPT ![s] = l]
    BY DEF InsertGroup
  <1>3. l.group = s /\ l.rows = saves[s].rows /\ Len(saves[s].rows) >= 2
    BY <1>1 DEF Loop, LoopsHoused, Housed
  <1> HIDE DEF l
  <1> QED BY <1>1, <1>2, <1>3, HousedStep DEF Housed

LEMMA HousedCreate ==
    ASSUME LossInv, LoopsHoused, NEW s \in Save, CreateProduct(s)
    PROVE  LoopsHoused'
  <1>1. saves[s] \in Loop /\ LoopsOK /\ saves[s].pc = "post" /\ groups' = groups
    BY RunningIsLoop DEF CreateProduct, Running
  <1>2. Len(saves[s].rows) >= 2 /\ saves[s].group \in groups
    BY <1>1 DEF LoopsHoused, Housed
  <1>3. PICK ok : Answered(s, ok)
    BY DEF CreateProduct
  <1> DEFINE failed == saves[s].failed \cup IF ok THEN {} ELSE {saves[s].at}
  <1>4. CASE saves[s].at < Len(saves[s].rows)
    <2> DEFINE l == [saves[s] EXCEPT !.at = saves[s].at + 1, !.failed = failed]
    <2>1. saves' = [saves EXCEPT ![s] = l]
      BY <1>1, <1>3, <1>4 DEF Answered, LoopsOK
    <2>2. l.group = saves[s].group /\ l.rows = saves[s].rows
      BY <1>1 DEF Loop
    <2> HIDE DEF l
    <2> QED BY <1>1, <1>2, <2>1, <2>2, HousedStep DEF Housed
  <1>5. CASE ~(saves[s].at < Len(saves[s].rows)) /\ failed = {}
    <2> DEFINE l == [saves[s] EXCEPT !.pc = "told"]
    <2>1. saves' = [saves EXCEPT ![s] = l]
      BY <1>1, <1>3, <1>5 DEF Answered, EndLoop, LoopsOK
    <2>2. l.group = saves[s].group /\ l.rows = saves[s].rows
      BY <1>1 DEF Loop
    <2> HIDE DEF l
    <2> QED BY <1>1, <1>2, <2>1, <2>2, HousedStep DEF Housed
  <1>6. CASE ~(saves[s].at < Len(saves[s].rows)) /\ failed # {}
    <2>1. saves' = [saves EXCEPT ![s] = Over]
      BY <1>1, <1>3, <1>6 DEF Answered, EndLoop, LoopsOK
    <2> QED BY <1>1, <2>1, OverIsNoLoop, HousedStep
  <1> QED BY <1>4, <1>5, <1>6

LEMMA HousedSave ==
    ASSUME LossInv, LoopsHoused, NEW s \in Save, NEW submit, SaveProduct(s, submit)
    PROVE  LoopsHoused'
  <1> DEFINE l == [pc |-> "look", submit |-> submit, rows |-> rows,
                   group |-> 0, at |-> 1, failed |-> {}]
  <1>1. LoopsOK /\ groups' = groups /\ Len(rows) >= 2
    BY DEF LossInv, SaveProduct, Valid, server
  <1>2. saves' = [saves EXCEPT ![s] = l]
    BY DEF SaveProduct
  <1>3. l.pc = "look" /\ l.rows = rows
    OBVIOUS
  <1> HIDE DEF l
  <1> QED BY <1>1, <1>2, <1>3, HousedStep DEF Housed

\* What a loop sends is a product, of a group that exists.
LEMMA PayloadIsProduct ==
    ASSUME GroupsOK, NEW s \in Save, saves[s] \in Loop, Housed(saves[s], groups),
           saves[s].pc = "post", saves[s].at \in 1..Len(saves[s].rows)
    PROVE  Payload(s) \in Product /\ Payload(s).group \in groups
  <1> DEFINE row == saves[s].rows[saves[s].at]
             ph == IF row.photo THEN "own" ELSE IF shared THEN "shared" ELSE "none"
             st == IF saves[s].submit THEN "SUBMITTED" ELSE "DRAFT"
  <1>1. row \in Row
    BY DEF Loop
  <1>2. row.sku \in Sku /\ row.label \in Label
    BY <1>1 DEF Row
  <1>3. saves[s].group \in groups /\ saves[s].group \in Save
    BY DEF Housed, GroupsOK
  <1>4. ph \in {"own", "shared", "none"} /\ st \in {"DRAFT", "SUBMITTED"}
    OBVIOUS
  <1>5. Payload(s) = [sku |-> row.sku, label |-> row.label, group |-> saves[s].group,
                      photo |-> ph, status |-> st]
    BY DEF Payload
  <1> HIDE DEF row, ph, st
  <1> QED BY <1>2, <1>3, <1>4, <1>5 DEF Product

LEMMA CatalogueKeeps ==
    ASSUME EditorInv, LoopsHoused, Catalogue, NEW s \in Save,
           CreateProduct(s) \/ LostRequest(s)
    PROVE  Catalogue'
  <1>1. saves[s].pc \in Running
    BY DEF CreateProduct, LostRequest, Running
  <1>2. saves[s] \in Loop /\ saves[s].at \in 1..Len(saves[s].rows) /\ Housed(saves[s], groups)
    BY <1>1, RunningIsLoop DEF EditorInv, Sound, LoopsHoused
  <1>3. saves[s].pc = "post" => Payload(s) \in Product /\ Payload(s).group \in groups
    BY <1>2, PayloadIsProduct DEF EditorInv
  <1>4. /\ groups \subseteq groups'
        /\ products' = products \/ (saves[s].pc = "post" /\ products' = products \cup {Payload(s)})
    BY DEF CreateProduct, LostRequest, server
  <1> QED BY <1>3, <1>4 DEF Catalogue

LEMMA HousedRest ==
    ASSUME LoopsHoused, Catalogue, UNCHANGED <<saves, groups, products>>
    PROVE  LoopsHoused' /\ Catalogue'
  BY DEF LoopsHoused, Catalogue

LEMMA HouseKeeps ==
    ASSUME EditorInv, LoopsHoused, Catalogue, [Next]_vars
    PROVE  LoopsHoused' /\ Catalogue'
  <1> USE DEF EditorInv
  <1>1. ASSUME NEW s \in Save, FindGroup(s) PROVE LoopsHoused' /\ Catalogue'
    BY <1>1, HousedFind DEF Catalogue, FindGroup, server
  <1>2. ASSUME NEW s \in Save, InsertGroup(s) PROVE LoopsHoused' /\ Catalogue'
    BY <1>2, HousedInsert DEF Catalogue, InsertGroup
  <1>3. ASSUME NEW s \in Save, CreateProduct(s) PROVE LoopsHoused' /\ Catalogue'
    BY <1>3, HousedCreate, CatalogueKeeps
  <1>4. ASSUME NEW s \in Save, LostRequest(s) PROVE LoopsHoused' /\ Catalogue'
    <2>1. Throw(s) /\ groups \subseteq groups'
      BY <1>4 DEF LostRequest, server
    <2> QED BY <1>4, <2>1, HousedThrow, CatalogueKeeps DEF LossInv
  <1>5. ASSUME NEW s \in Save, NEW submit, SaveProduct(s, submit) PROVE LoopsHoused' /\ Catalogue'
    BY <1>5, HousedSave DEF Catalogue, SaveProduct, server
  <1>6. CASE SellerActs
    BY <1>5, <1>6, HousedRest
       DEF SellerActs, AddVariantTag, RemoveVariantTag, UpdateVariantRow, ClearPhotos, StartUpload,
           server
  <1>7. CASE Navigate \/ UNCHANGED vars
    BY <1>7, HousedRest DEF Navigate, vars, server
  <1>8. ASSUME NEW i, UploadDone(i) \/ UploadFailed(i) PROVE LoopsHoused' /\ Catalogue'
    BY <1>8, HousedRest DEF UploadDone, UploadFailed, server
  <1> QED BY <1>1, <1>2, <1>3, <1>4, <1>6, <1>7, <1>8 DEF Next

LEMMA TypeInit ==
    ASSUME ProductEditorAssumption, Init
    PROVE  TypeInv
  <1>1. Flags
    BY TruthOf, Zenon DEF Init, Flags, Truth
  <1>2. Budgeted
    <2>1. MaxUploads \in Nat /\ MaxFaults \in Nat /\ MaxEdits \in Nat
      BY DEF ProductEditorAssumption
    <2> QED BY <2>1 DEF Init, Budgeted
  <1>3. SmallTypes /\ Catalogue
    BY DEF Init, SmallTypes, Catalogue
  <1>4. LoopsHoused
    BY OverIsNoLoop DEF Init, LoopsHoused
  <1> QED BY <1>1, <1>2, <1>3, <1>4 DEF TypeInv

LEMMA TypeStep ==
    ASSUME ProductEditorAssumption, EditorInv, TypeInv, [Next]_vars
    PROVE  TypeInv'
  <1>1. RowsOK
    BY DEF EditorInv, LossInv
  <1> QED BY <1>1, BudgetKeeps, FlagsKeep, SmallKeep, HouseKeeps, Zenon DEF TypeInv

\* Every variable of ProductEditor keeps its type, and each product is in a group that
\* exists, for any options, saves, uploads and faults.
THEOREM TypeCorrect == Spec => []TypeOK
  <1>1. Init => TypeInv
    BY TypeInit, ProductEditorAssumption
  <1>2. EditorInv /\ TypeInv /\ [Next]_vars => TypeInv'
    BY TypeStep, ProductEditorAssumption
  <1>3. EditorInv /\ TypeInv => TypeOK
    <2> SUFFICES ASSUME EditorInv, TypeInv PROVE TypeOK
      OBVIOUS
    <2>1. tags \in Seq(Label) /\ rows \in Seq(Row) /\ DOMAIN saves = Save
      BY DEF EditorInv, LossInv, RowsOK, LoopsOK
    <2>2. shared \in BOOLEAN /\ loading \in BOOLEAN /\ open \in BOOLEAN /\ crossed \in BOOLEAN
      BY Zenon DEF TypeInv, Flags, Truth
    <2>3. uploads \subseteq Nat /\ wanted \subseteq Label /\ groups \subseteq Save
          /\ products \subseteq Product /\ \A p \in products : p.group \in groups
      BY DEF TypeInv, SmallTypes, Catalogue, EditorInv, GroupsOK
    <2>4. budget \in [uploads : 0..MaxUploads, faults : 0..MaxFaults, edits : 0..MaxEdits]
      BY DEF TypeInv, Budgeted
    <2>5. ASSUME NEW s \in Save, saves[s] \notin {Unsaved, Over}
          PROVE  /\ DOMAIN saves[s] = {"pc", "submit", "rows", "group", "failed", "at"}
                 /\ saves[s].pc \in Running \cup {"told"}
                 /\ saves[s].rows \in Seq(Row) /\ Len(saves[s].rows) >= 2
                 /\ saves[s].at \in 1..Len(saves[s].rows)
                 /\ saves[s].failed \subseteq 1..saves[s].at
                 /\ saves[s].pc \in {"post", "told"} => saves[s].group \in groups
      <3>1. saves[s] \in Loop /\ Sound(saves[s], products, wanted)
        BY <2>5 DEF EditorInv, LossInv, LoopsOK
      <3>2. Housed(saves[s], groups)
        BY <3>1 DEF TypeInv, LoopsHoused
      <3>3. /\ DOMAIN saves[s] = {"pc", "submit", "rows", "group", "failed", "at"}
            /\ saves[s].pc \in Running \cup {"told"} /\ saves[s].rows \in Seq(Row)
        BY <3>1 DEF Loop, Active
      <3> QED BY <3>1, <3>2, <3>3 DEF Sound, Housed
    <2> QED BY <2>1, <2>2, <2>3, <2>4, <2>5, Zenon DEF TypeOK
  <1> QED BY <1>1, <1>2, <1>3, Invariant, PTL DEF Spec
=============================================================================
