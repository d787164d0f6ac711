--------------------------- MODULE ProductPayload ---------------------------
(***************************************************************************)
(* What the CRM is told of a product page, and what the payload's hash is  *)
(* taken of: the category, the names, the devices an accessory is for, the *)
(* rows as they stand and the typed fields read from them.  The rows come  *)
(* in the order in which the shop shows them.                              *)
(*                                                                         *)
(* A text is the sequence of its words.  Prices, pictures, descriptions    *)
(* and barcodes are left out.                                              *)
(***************************************************************************)
EXTENDS TypedSpecs

CONSTANTS
    Vocabulary,    \* the word lists: phrases, the phrases that name a
                   \* category; brands, a known word's brand; noise, words
                   \* that no model name has; generic, targets too general
                   \* to keep; and the labels model, brand, compatible
    SpecPages,     \* the pages that are checked, but for their rows
    SpecRows,      \* the rows of their tables
    MaxTableRows   \* bound: rows of a table

VARIABLE
    reading        \* the page a spider reads: its store and the rows so far

ASSUME PayloadAssumption ==
    /\ DOMAIN Vocabulary.phrases = {"accessory", "tablet", "laptop", "tv", "monitor", "gaming",
                                    "appliance", "phone"}
    /\ \A c \in DOMAIN Vocabulary.phrases :
          \A phrase \in Vocabulary.phrases[c] : Len(phrase) \in 1..2
    /\ \A row \in SpecRows : row.text.words \in Seq(STRING)

NoWords == <<>>

-----------------------------------------------------------------------------
(* The category.                                                           *)

(* Of several categories a text names, the first one counts. *)
TextCategories ==
    <<"accessory", "tablet", "laptop", "tv", "monitor", "gaming", "appliance", "phone">>

Mentions(words, phrase) ==
    \E i \in 0..(Len(words) - Len(phrase)) : SubSeq(words, i + 1, i + Len(phrase)) = phrase

(* _classify_text *)
Classified(words) ==
    LET named(c) == \E phrase \in Vocabulary.phrases[c] : Mentions(words, phrase)
        found == SelectSeq(TextCategories, named)
    IN IF found = <<>> THEN "none" ELSE Head(found)

(* _join_raw_specs: the texts of all rows, as one text. *)
Joined(table) == FlattenSeq([i \in DOMAIN table |-> table[i].text.words])

(* _classify_url: an address that says phone is believed last. *)
HardSignal(url) == IF Classified(url) = "phone" THEN "none" ELSE Classified(url)

(* normalize_category_signal *)
HintSignal(hint) ==
    IF Len(hint) = 1 /\ hint[1] \in ToSet(TextCategories) \cup {"unknown"}
    THEN hint[1] ELSE Classified(hint)

Signal(category) == category # "none"

(* infer_category_hint *)
CategoryHint(page, table) ==
    LET title == Classified(page.title)
        others == <<Classified(Joined(table)), HardSignal(page.url), HintSignal(page.hint),
                    Classified(page.url), "unknown">>
    IN IF title # "none" THEN title ELSE Head(SelectSeq(others, Signal))

-----------------------------------------------------------------------------
(* Names.                                                                  *)

Marked(words) == "for" \in ToSet(words)
Until(words) == SubSeq(words, 1, (CHOOSE i \in DOMAIN words : words[i] = "for" /\
                                     "for" \notin ToSet(SubSeq(words, 1, i - 1))) - 1)
After(words) == SubSeq(words, Len(Until(words)) + 2, Len(words))

(* The texts of the rows with one of the labels that say something. *)
Labelled(table, labels) ==
    LET here(row) == row.label \in labels /\ row.text.words # NoWords
        rows == SelectSeq(table, here)
    IN [i \in DOMAIN rows |-> rows[i].text.words]

(* normalize_brand: other spellings of a brand. *)
BrandName(words) ==
    IF Len(words) = 1 /\ words[1] \in DOMAIN Vocabulary.brands
    THEN <<Vocabulary.brands[words[1]]>> ELSE words

(* infer_known_brand: the first known word; what an accessory is for is    *)
(* not looked at.                                                          *)
InferredBrand(title) ==
    LET known(word) == word \in DOMAIN Vocabulary.brands
        seen == IF Marked(title) /\ Classified(title) = "accessory" THEN Until(title) ELSE title
        found == SelectSeq(seen, known)
    IN IF found = <<>> THEN NoWords ELSE BrandName(<<Head(found)>>)

(* The page's brand, or that of the first row with one, or the title's. *)
Brand(page, table) ==
    LET rows == Labelled(table, Vocabulary.brand)
    IN IF page.brand # NoWords THEN BrandName(page.brand)
       ELSE IF rows # <<>> THEN BrandName(Head(rows))
       ELSE InferredBrand(page.title)

(* extract_model_name *)
ModelName(words, brand, category) ==
    LET telling(word) == word \notin Vocabulary.noise
        rest == IF brand # NoWords /\ IsPrefix(brand, words)
                THEN SubSeq(words, Len(brand) + 1, Len(words)) ELSE words
    IN IF category = "accessory" /\ Marked(words) THEN NoWords ELSE SelectSeq(rest, telling)

(* _append_compatibility_targets: the parts of a text between its "and"s. *)
Parts(words) ==
    LET kept(part) == part # NoWords /\ part \notin Vocabulary.generic
        split == FoldLeft(LAMBDA parts, word :
                            IF word = "and" THEN Append(parts, NoWords)
                            ELSE [parts EXCEPT ![Len(parts)] = Append(@, word)],
                          <<NoWords>>, words)
    IN SelectSeq(split, kept)

(* extract_compatibility_targets: the title's, then row by row. *)
CompatibilityTargets(page, table) ==
    LET rows == Labelled(table, Vocabulary.compatible)
        tail(words) == IF words[1] = "for" THEN Tail(words) ELSE words
        named == (IF Marked(page.title) THEN Parts(After(page.title)) ELSE <<>>)
                    \o FlattenSeq([i \in DOMAIN rows |-> Parts(tail(rows[i]))])
    IN FoldLeft(LAMBDA out, target :
                  IF target \in ToSet(out) THEN out ELSE Append(out, target), <<>>, named)

(* extract_model_name_from_raw_specs, then the title's; the model row of   *)
(* an accessory may name a device it is for.                               *)
Model(page, table, category, brand, targets) ==
    LET own(words) == category # "accessory" \/ words \notin ToSet(targets)
        rows == SelectSeq(Labelled(table, Vocabulary.model), own)
        name(words) == ModelName(words, brand, category)
    IN IF rows = <<>> THEN name(page.title)
       ELSE IF name(Head(rows)) # NoWords THEN name(Head(rows)) ELSE Head(rows)

-----------------------------------------------------------------------------
(* The payload.                                                            *)

(* build_crm_sync_item *)
Described(page, table, category, normalized) ==
    LET brand == Brand(page, table)
        targets == CompatibilityTargets(page, table)
    IN [page |-> page, category |-> category, brand |-> brand, targets |-> targets,
        model |-> Model(page, table, category, brand, targets), rows |-> table,
        typed |-> normalized.values, warnings |-> normalized.warnings,
        confidence |-> normalized.confidence]
Payload(page, table, store) ==
    LET category == CategoryHint(page, table)
    IN Described(page, table, category, Normalized(table, category, store))

(* build_payload_hash: keys are sorted, warnings too; how sure the typed   *)
(* fields are is no part of it.                                            *)
PayloadHash(payload) ==
    [f \in DOMAIN payload \ {"confidence"} |->
        IF f = "rows" THEN ToSet(payload.rows) ELSE payload[f]]

-----------------------------------------------------------------------------
(* The reading of a page.                                                  *)

NoPage == [store |-> "none"]

(* full_parse_item of a spider *)
OpenPage(store) ==
    /\ reading = NoPage
    /\ \E page \in SpecPages : reading' = [store |-> store, page |-> page, table |-> <<>>]

(* _extract_raw_specs: the rows in the order of the page.  A label counts  *)
(* once as it is spelled, but two spellings may have one normalised form.  *)
ReadRow ==
    /\ reading # NoPage /\ Len(reading.table) < MaxTableRows
    /\ \E row \in SpecRows : reading' = [reading EXCEPT !.table = Append(@, row)]

-----------------------------------------------------------------------------
(* Properties.                                                             *)

Swapped(table, i) == [table EXCEPT ![i] = table[i + 1], ![i + 1] = table[i]]

(* Two rows give a field values that differ by at most a twentieth. *)
NearTie(given) ==
    \E c, d \in Read(given) :
        c.field = d.field /\ c.value # d.value /\ Compatible(c.value, d.value)

(* Two rows name the brand, the model or the devices an accessory is for. *)
NamedTwice(table) ==
    \E labels \in {Vocabulary.brand, Vocabulary.model, Vocabulary.compatible} :
        Len(Labelled(table, labels)) > 1

(* A phrase begins in one row and ends in another. *)
Straddles(table) ==
    \E i, j \in DOMAIN table :
        LET first == table[i].text.words
            last == table[j].text.words
        IN /\ i # j /\ first # NoWords /\ last # NoWords
           /\ \E c \in DOMAIN Vocabulary.phrases :
                 <<first[Len(first)], last[1]>> \in Vocabulary.phrases[c]

(* The payload, and with it the fingerprint and the event id, is the same  *)
(* when a shop shows the rows of a product in another order, or the CRM    *)
(* would be sent an update whenever rows change places.  The exceptions    *)
(* are two rows that give a field near values, or that both name the       *)
(* brand, the model or the devices an accessory is for, where the first    *)
(* row decides, and a phrase of two words that two rows make up together   *)
(* (resolve_typed_field_candidates, build_payload_hash).                   *)
ReorderedPageIsTheSame ==
    reading # NoPage =>
      LET table == reading.table
          hash(rows) == PayloadHash(Payload(reading.page, rows, reading.store))
      IN \/ NamedTwice(table) \/ Straddles(table)
         \/ NearTie(Collected(table, CategoryHint(reading.page, table), reading.store))
         \/ \A i \in 1..(Len(table) - 1) : hash(Swapped(table, i)) = hash(table)

(* What the rows gave a field is typed or suppressed, never both; a typed  *)
(* value is one that a row gave, as sure as the category asks for.         *)
AddsUp(given, result, category) ==
    LET read == Read(given)
        lost == {d[1] : d \in result.suppressed}
    IN /\ DOMAIN result.values = DOMAIN result.confidence
       /\ DOMAIN result.values \cap lost = {}
       /\ FieldsOf(read) = DOMAIN result.values \cup lost
       /\ \A f \in DOMAIN result.values :
             /\ result.confidence[f] >= MinConfidence(category)
             /\ \E c \in read : c.field = f /\ c.value = result.values[f]
             /\ f \in EnabledFields[CategoryKey(category)] \ Disabled(reading.store)

(* No characteristic is lost on its way into the payload without a word:   *)
(* what a row said of a field is typed, sure enough for its category and   *)
(* with a value some row gave, or named with the reason it was left out,   *)
(* and never both (_collect_candidate_from_target,                         *)
(* resolve_typed_field_candidates, apply_cross_field_sanity_checks).       *)
FieldsAreAccountedFor ==
    reading # NoPage =>
      LET category == CategoryHint(reading.page, reading.table)
      IN AddsUp(Collected(reading.table, category, reading.store),
                Normalized(reading.table, category, reading.store), category)

(* No field that one more row confirms, alone of its values, lost its      *)
(* value or confidence by it.                                              *)
Confirmed(before, more, after) ==
    \A f \in FieldsOf(more) \cap DOMAIN before.values :
        {c.value : c \in About(f, more)} = {before.values[f]} =>
            /\ f \in DOMAIN after.values
            /\ after.values[f] = before.values[f]
            /\ after.confidence[f] >= before.confidence[f]

(* One more row that confirms a typed field never costs the field its      *)
(* value or its confidence, whatever else the rows are labelled with,      *)
(* unless the page is then taken for one of another category               *)
(* (merge_field_confidences, resolve_typed_field_candidates).              *)
AgreementNeverHurts ==
    reading # NoPage /\ Len(reading.table) > 1 =>
      LET table == reading.table
          category == CategoryHint(reading.page, table)
      IN CategoryHint(reading.page, Front(table)) = category =>
            Confirmed(MapSpecs(Front(table), category, reading.store),
                      Collected(<<Last(table)>>, category, reading.store),
                      MapSpecs(table, category, reading.store))
=============================================================================
