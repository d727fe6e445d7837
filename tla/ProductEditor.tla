--------------------------- MODULE ProductEditor ---------------------------
(***************************************************************************)
(* The seller's product editor in batch mode (SellerProductEditorPage.jsx): *)
(* a new family of products that differ in one option (50g, 100g, ...).    *)
(* The seller keeps a list of option tags and a table with a row per tag;  *)
(* saving creates the family's variant group and then one product per row, *)
(* one request after the other, and leaves the refused rows in the table.  *)
(*                                                                         *)
(* The loop works on the rows as they were at the click, while the table   *)
(* and the photo uploads stay usable.  One flag, actionLoading, disables   *)
(* the save buttons, and every save and every upload sets and clears it:   *)
(* an upload that ends while a save runs gives the buttons back.           *)
(***************************************************************************)
EXTENDS FiniteSets, SequencesExt

CONSTANTS
    Label,       \* the options the seller may enter
    Spare,       \* an SKU that no option's name generates
    Taken,       \* SKUs of other products of the store
    MaxSaves,    \* bound: saves started
    MaxUploads,  \* bound: photo uploads started
    MaxFaults,   \* bound: requests that fail without a readable answer
    MaxEdits     \* bound: SKUs typed over and options removed

Sku == Label \cup {Spare}
Save == 1..MaxSaves

ASSUME ProductEditorAssumption ==
    /\ IsFiniteSet(Label) /\ Spare \notin Label /\ Taken \subseteq Sku
    /\ {MaxSaves, MaxUploads, MaxFaults, MaxEdits} \subseteq Nat

VARIABLES
    tags,      \* variantTags
    rows,      \* variantRows
    shared,    \* productForm.images is not empty (set before the table)
    loading,   \* actionLoading
    uploads,   \* positions of the rows whose photos are being uploaded
    open,      \* the page is shown
    saves,     \* [Save -> the state of its loop]
    groups,    \* the variant groups that carry the family's title
    products,  \* the products created here
    wanted,    \* history: options entered while no save ran, and not removed
    crossed,   \* history: two saves ran at once
    budget

table == <<tags, rows, uploads>>
server == <<groups, products>>
vars == <<table, shared, loading, open, saves, server, wanted, crossed, budget>>

Row == [label : Label, sku : Sku, photo : BOOLEAN]
Unsaved == [pc |-> "new"]
Running == {"look", "insert", "post"}
Over == [pc |-> "over"]
Product == [sku : Sku, label : Label, group : Save,
            photo : {"own", "shared", "none"}, status : {"DRAFT", "SUBMITTED"}]

TypeOK ==
    /\ tags \in Seq(Label) /\ rows \in Seq(Row)
    /\ shared \in BOOLEAN /\ loading \in BOOLEAN /\ open \in BOOLEAN
    /\ uploads \subseteq Nat
    /\ DOMAIN saves = Save
    /\ \A s \in Save :
        \/ saves[s] \in {Unsaved, Over}
        \/ /\ DOMAIN saves[s] = {"pc", "submit", "rows", "group", "failed", "at"}
           /\ saves[s].pc \in Running \cup {"told"}
           /\ saves[s].rows \in Seq(Row) /\ Len(saves[s].rows) >= 2
           /\ saves[s].at \in 1..Len(saves[s].rows)
           /\ saves[s].failed \subseteq 1..saves[s].at
           /\ saves[s].pc \in {"post", "told"} => saves[s].group \in groups
    /\ groups \subseteq Save /\ products \subseteq Product
    /\ \A p \in products : p.group \in groups
    /\ wanted \subseteq Label /\ crossed \in BOOLEAN
    /\ budget \in [uploads : 0..MaxUploads, faults : 0..MaxFaults, edits : 0..MaxEdits]

Init ==
    /\ tags = <<>> /\ rows = <<>> /\ shared \in BOOLEAN
    /\ loading = FALSE /\ uploads = {} /\ open = TRUE
    /\ saves = [s \in Save |-> Unsaved]
    /\ groups = {} /\ products = {}
    /\ wanted = {} /\ crossed = FALSE
    /\ budget = [uploads |-> MaxUploads, faults |-> MaxFaults, edits |-> MaxEdits]

InState(pcs) == {s \in Save : saves[s].pc \in pcs}
LabelsOf(rs) == {rs[i].label : i \in DOMAIN rs}

Spend(what) ==
    /\ budget[what] > 0
    /\ budget' = [budget EXCEPT ![what] = @ - 1]

---------------------------------------------------------------------------
(* The table *)

(* A tag that is not in the list yet adds a row, with the SKU its name     *)
(* generates.                                                              *)
AddVariantTag(l) ==
    /\ open /\ ~Contains(tags, l)
    /\ tags' = Append(tags, l)
    /\ rows' = Append(rows, [label |-> l, sku |-> l, photo |-> FALSE])
    /\ wanted' = IF InState(Running \cup {"told"}) = {} THEN wanted \cup {l} ELSE wanted
    /\ UNCHANGED <<uploads, shared, loading, open, saves, server, crossed, budget>>

CutAt(seq, i) == IF i \in DOMAIN seq THEN RemoveAt(seq, i) ELSE seq

(* The cross of a chip and the cross of a row remove the same position of  *)
(* the tags and of the rows, whatever options stand there.                 *)
RemoveVariantTag(i) ==
    /\ open /\ Spend("edits")
    /\ tags' = CutAt(tags, i) /\ rows' = CutAt(rows, i)
    /\ wanted' = wanted \ ((IF i \in DOMAIN tags THEN {tags[i]} ELSE {})
                           \cup (IF i \in DOMAIN rows THEN {rows[i].label} ELSE {}))
    /\ UNCHANGED <<uploads, shared, loading, open, saves, server, crossed>>

UpdateVariantRow(i, sku) ==
    /\ open /\ i \in DOMAIN rows /\ rows[i].sku # sku /\ Spend("edits")
    /\ rows' = [rows EXCEPT ![i].sku = sku]
    /\ UNCHANGED <<tags, uploads, shared, loading, open, saves, server, wanted, crossed>>

ClearPhotos(i) ==
    /\ open /\ i \in DOMAIN rows /\ rows[i].photo /\ Spend("edits")
    /\ rows' = [rows EXCEPT ![i].photo = FALSE]
    /\ UNCHANGED <<tags, uploads, shared, loading, open, saves, server, wanted, crossed>>

StartUpload(i) ==
    /\ open /\ i \in DOMAIN rows /\ i \notin uploads /\ Spend("uploads")
    /\ uploads' = uploads \cup {i} /\ loading' = TRUE
    /\ UNCHANGED <<tags, rows, shared, open, saves, server, wanted, crossed>>

(* The answer goes to the row that stands at the position by now.          *)
UploadDone(i) ==
    /\ i \in uploads /\ open
    /\ uploads' = uploads \ {i} /\ loading' = FALSE
    /\ rows' = IF i \in DOMAIN rows THEN [rows EXCEPT ![i].photo = TRUE] ELSE rows
    /\ UNCHANGED <<tags, shared, open, saves, server, wanted, crossed, budget>>

UploadFailed(i) ==
    /\ i \in uploads /\ open
    /\ uploads' = uploads \ {i} /\ loading' = FALSE
    /\ UNCHANGED <<tags, rows, shared, open, saves, server, wanted, crossed, budget>>

---------------------------------------------------------------------------
(* Saving *)

Valid(submit) ==
    /\ Len(rows) >= 2
    /\ submit => shared \/ \A i \in DOMAIN rows : rows[i].photo
    /\ \A i, j \in DOMAIN rows : rows[i].sku = rows[j].sku => i = j

(* A click on Save all drafts or Submit: the rows are the ones on screen.  *)
SaveProduct(s, submit) ==
    /\ open /\ ~loading /\ saves[s] = Unsaved
    /\ \A o \in Save : o < s => saves[o] # Unsaved
    /\ Valid(submit)
    /\ loading' = TRUE
    /\ saves' = [saves EXCEPT ![s] = [pc |-> "look", submit |-> submit, rows |-> rows,
                                      group |-> 0, at |-> 1, failed |-> {}]]
    /\ crossed' = (crossed \/ InState(Running) # {})
    /\ UNCHANGED <<table, shared, open, server, wanted, budget>>

(* The exception path: the message is shown, the table is left alone.      *)
Throw(s) ==
    /\ saves' = [saves EXCEPT ![s] = Over]
    /\ loading' = FALSE
    /\ UNCHANGED table

Mutant_CreateGroup(s) ==
    /\ saves[s].pc = "look"
    /\ saves' = [saves EXCEPT ![s].pc = "insert"]
    /\ UNCHANGED <<table, shared, loading, open, server, wanted, crossed, budget>>

(* get_or_create of the group by its title: two statements, and no unique  *)
(* title; a title with two groups is an error.                             *)
FindGroup(s) ==
    /\ saves[s].pc = "look"
    /\ CASE groups = {} ->
              /\ saves' = [saves EXCEPT ![s].pc = "insert"]
              /\ UNCHANGED <<table, loading>>
         [] Cardinality(groups) = 1 ->
              /\ saves' = [saves EXCEPT ![s].pc = "post",
                                        ![s].group = CHOOSE g \in groups : TRUE]
              /\ UNCHANGED <<table, loading>>
         [] OTHER -> Throw(s)
    /\ UNCHANGED <<shared, open, server, wanted, crossed, budget>>

InsertGroup(s) ==
    /\ saves[s].pc = "insert"
    /\ groups' = groups \cup {s}
    /\ saves' = [saves EXCEPT ![s].pc = "post", ![s].group = s]
    /\ UNCHANGED <<table, shared, loading, open, products, wanted, crossed, budget>>

(* What the loop sends for its next row.                                   *)
Payload(s) ==
    LET row == saves[s].rows[saves[s].at]
    IN  [sku |-> row.sku, label |-> row.label, group |-> saves[s].group,
         photo |-> IF row.photo THEN "own" ELSE IF shared THEN "shared" ELSE "none",
         status |-> IF saves[s].submit THEN "SUBMITTED" ELSE "DRAFT"]

Accepted(p) ==
    /\ p.sku \notin Taken \cup {q.sku : q \in products}
    /\ ~\E q \in products : q.group = p.group /\ q.label = p.label
    /\ p.status = "SUBMITTED" => p.photo # "none"

Kept(s, failed) ==
    [k \in 1..Cardinality(failed) |->
        saves[s].rows[CHOOSE i \in failed : Cardinality({j \in failed : j <= i}) = k]]

Mutant_KeepsLastRefusal(s, failed) ==
    /\ saves' = [saves EXCEPT ![s] = IF failed = {} THEN [@ EXCEPT !.pc = "told"] ELSE Over]
    /\ rows' = IF failed = {} THEN rows ELSE <<saves[s].rows[Max(failed)]>>
    /\ loading' = FALSE
    /\ UNCHANGED <<tags, uploads>>

(* After the last row: either all were created, or the refused ones become *)
(* the table.  The tags stay.                                              *)
EndLoop(s, failed) ==
    /\ saves' = [saves EXCEPT ![s] = IF failed = {} THEN [@ EXCEPT !.pc = "told"] ELSE Over]
    /\ rows' = IF failed = {} THEN rows ELSE Kept(s, failed)
    /\ loading' = FALSE
    /\ UNCHANGED <<tags, uploads>>

Mutant_AnswerNotRead(s, ok) ==
    IF saves[s].at < Len(saves[s].rows)
    THEN /\ saves' = [saves EXCEPT ![s].at = @ + 1]
         /\ UNCHANGED <<table, loading>>
    ELSE EndLoop(s, saves[s].failed \cup IF ok THEN {} ELSE {saves[s].at})

(* One answer: the loop goes on, or ends in the same step.                 *)
Answered(s, ok) ==
    LET failed == saves[s].failed \cup IF ok THEN {} ELSE {saves[s].at}
    IN  IF saves[s].at < Len(saves[s].rows)
        THEN /\ saves' = [saves EXCEPT ![s].at = @ + 1, ![s].failed = failed]
             /\ UNCHANGED <<table, loading>>
        ELSE EndLoop(s, failed)

CreateProduct(s) ==
    /\ saves[s].pc = "post"
    /\ LET p == Payload(s) IN
        /\ products' = IF Accepted(p) THEN products \cup {p} ELSE products
        /\ Answered(s, Accepted(p))
    /\ UNCHANGED <<shared, open, groups, wanted, crossed, budget>>

(* A request or its answer is lost, or the answer is no JSON (the database *)
(* refuses what two checks that met let pass): fetch or res.json() throws. *)
LostRequest(s) ==
    /\ saves[s].pc \in Running /\ Spend("faults")
    /\ \/ UNCHANGED server
       \/ /\ saves[s].pc = "insert" /\ groups' = groups \cup {s}
          /\ UNCHANGED products
       \/ /\ saves[s].pc = "post" /\ Accepted(Payload(s))
          /\ products' = products \cup {Payload(s)}
          /\ UNCHANGED groups
    /\ Throw(s)
    /\ UNCHANGED <<shared, open, wanted, crossed>>

(* 1.4 s after the success message.                                        *)
Navigate ==
    /\ open /\ InState({"told"}) # {}
    /\ open' = FALSE
    /\ UNCHANGED <<table, shared, loading, saves, server, wanted, crossed, budget>>

---------------------------------------------------------------------------
SellerActs ==
    \/ \E l \in Label : AddVariantTag(l)
    \/ \E i \in DOMAIN tags \cup DOMAIN rows : RemoveVariantTag(i)
    \/ \E i \in DOMAIN rows :
        \/ \E sku \in Sku : UpdateVariantRow(i, sku)
        \/ ClearPhotos(i)
        \/ StartUpload(i)
    \/ \E s \in Save, submit \in BOOLEAN : SaveProduct(s, submit)

Next ==
    \/ SellerActs
    \/ \E i \in uploads : UploadDone(i) \/ UploadFailed(i)
    \/ \E s \in Save : FindGroup(s) \/ InsertGroup(s) \/ CreateProduct(s) \/ LostRequest(s)
    \/ Navigate

Spec == Init /\ [][Next]_vars

---------------------------------------------------------------------------
(* Properties *)

(* "Successfully created variant family": when the page says so, every row *)
(* of the click is a product of the family's group, with its own SKU, the  *)
(* photos it has or the shared ones, and the status asked for, whatever    *)
(* the seller, an upload or another save did to the table meanwhile.       *)
ToldFamily ==
    \A s \in InState({"told"}) : \A i \in DOMAIN saves[s].rows :
        LET row == saves[s].rows[i] IN
        \E p \in products :
            /\ p.label = row.label /\ p.sku = row.sku /\ p.group = saves[s].group
            /\ p.photo = "own" <=> row.photo
            /\ p.status = "SUBMITTED" <=> saves[s].submit
            /\ p.status = "SUBMITTED" => p.photo # "none"

(* No option is lost between the table and the catalogue: one the seller   *)
(* entered while no save ran and did not remove is a row of the table or a *)
(* product, through refusals, lost requests, retries and overlapping       *)
(* saves, and still when the page closes by itself.                        *)
NoOptionLost ==
    wanted \subseteq {p.label : p \in products} \cup (IF open THEN LabelsOf(rows) ELSE {})

(* A retry adds to the family it began: unless two saves ran at once,      *)
(* all products of the table are in one group, and no option is in it      *)
(* twice.                                                                  *)
OneFamily ==
    /\ ~crossed => Cardinality(groups) <= 1
    /\ \A p, q \in products : (p.group = q.group /\ p.label = q.label) => p = q
=============================================================================
