----------------------------- MODULE TypedSpecs -----------------------------
(***************************************************************************)
(* From the table of characteristics of a product page to typed fields:    *)
(* the alias rules say which field a row's label stands for, a normaliser  *)
(* reads the row's text, the rows of one field are resolved to one value   *)
(* with a confidence, and checks across fields drop what cannot be true    *)
(* together.  The CRM payload and its fingerprint contain the result.      *)
(*                                                                         *)
(* A row is its normalised label and its text.  A text is its numbers with *)
(* their units, whether a dash, a slash or a plus joins two of them, its   *)
(* word (yes, no, platform, dual, single, at most, none) and all its       *)
(* words.  Values are whole numbers: a display in tenths of an inch,       *)
(* weight_kg in grams, volume_l in millilitres, a Boolean as 0 or 1, which *)
(* is what Python compares, too.                                           *)
(* Fields of text (processor, color, ...) are left out.                    *)
(***************************************************************************)
EXTENDS Integers, Sequences, FiniteSets, SequencesExt

CONSTANTS
    SpecRules,       \* the alias rules of the registry
    EnabledFields,   \* per category with a policy: the fields it enables
    FieldDisables,   \* per store: the fields its overrides disable
    ShortLabels,     \* the labels of fewer than four letters
    SpecStores       \* the stores

(* Memory may be read as storage, so a page that has the one has the other. *)
ASSUME TypedSpecsAssumption ==
    /\ IsFiniteSet(SpecRules)
    /\ "unknown" \in DOMAIN EnabledFields
    /\ \A c \in DOMAIN EnabledFields :
          "ram_gb" \in EnabledFields[c] => "storage_gb" \in EnabledFields[c]
    /\ \A s \in DOMAIN FieldDisables :
          "storage_gb" \in FieldDisables[s] => "ram_gb" \in FieldDisables[s]

Unread == -1
AnyScope == "any"

Booleans == {"hdmi", "smart_tv"}
TypedFields ==
    {"ram_gb", "storage_gb", "display_size_inch", "battery_mah", "battery_wh", "weight_g",
     "weight_kg", "main_camera_mp", "front_camera_mp", "volume_l", "power_w", "hdmi_count",
     "sim_count", "refresh_rate_hz", "warranty_months"} \cup Booleans

-----------------------------------------------------------------------------
(* The normalisers.                                                        *)

UnitsOf(f) ==
    CASE f \in {"ram_gb", "storage_gb"} -> {"gb", "tb"}
      [] f = "display_size_inch" -> {"inch", "cm"}
      [] f = "battery_mah" -> {"mah"}
      [] f = "battery_wh" -> {"wh"}
      [] f \in {"weight_g", "weight_kg"} -> {"g", "kg"}
      [] f \in {"main_camera_mp", "front_camera_mp"} -> {"mp"}
      [] f = "volume_l" -> {"l", "ml"}
      [] f = "power_w" -> {"w"}
      [] f = "hdmi_count" -> {"ports"}
      [] f = "refresh_rate_hz" -> {"hz"}
      [] f = "warranty_months" -> {"year", "month"}

(* A number of the text in the measure of the field. *)
Scaled(f, token) ==
    LET n == token.number
    IN CASE f = "display_size_inch" ->
                IF token.unit = "cm" THEN (1000 * n + 127) \div 254 ELSE 10 * n
         [] f = "weight_kg" -> IF token.unit = "g" THEN 10 * ((n + 5) \div 10) ELSE 1000 * n
         [] f = "volume_l" -> IF token.unit = "ml" THEN n ELSE 1000 * n
         [] f = "warranty_months" -> IF token.unit = "year" THEN 12 * n ELSE n
         [] OTHER -> IF token.unit \in {"tb"} \cap UnitsOf(f) THEN 1024 * n
                     ELSE IF token.unit \in {"kg"} \cap UnitsOf(f) THEN 1000 * n ELSE n

Readable(f) ==
    CASE f = "ram_gb" -> 0..64
      [] f = "display_size_inch" -> 10..1000
      [] f = "battery_mah" -> 500..20000
      [] f = "battery_wh" -> 10..200
      [] f = "weight_g" -> 50..50000
      [] f = "weight_kg" -> 100..50000
      [] f \in {"main_camera_mp", "front_camera_mp"} -> 1..200
      [] f \in {"power_w", "hdmi_count"} -> Nat \ {0}
      [] OTHER -> Nat

HasUnit(token, units) == token.unit \in units
Alone(text) == Len(text.tokens) = 1 /\ text.tokens[1].unit = "none"

(* The numbers with a unit of the field; centimetres without inches only. *)
Hits(f, text) ==
    LET of(units) == SelectSeq(text.tokens, LAMBDA token : HasUnit(token, units))
    IN IF f = "display_size_inch" /\ of({"inch"}) # <<>> THEN of({"inch"}) ELSE of(UnitsOf(f))

(* Without a unit of its own the text's only number counts, whatever else  *)
(* stands there; watts and litres must stand alone, a weight needs a unit. *)
Plain(f, text) ==
    CASE f \in {"weight_g", "weight_kg"} -> <<>>
      [] f \in {"volume_l", "power_w", "hdmi_count", "warranty_months"} -> IF Alone(text) THEN text.tokens ELSE <<>>
      [] OTHER -> text.tokens

ReadNumber(f, text) ==
    LET tokens == IF Hits(f, text) # <<>> THEN Hits(f, text) ELSE Plain(f, text)
        one == Len(tokens) = 1 \/ (f = "hdmi_count" /\ tokens # <<>>)
    IN IF one /\ ~text.joined /\ Scaled(f, tokens[1]) \in Readable(f)
       THEN Scaled(f, tokens[1]) ELSE Unread

(* Ports of HDMI, or their number, say that there is HDMI. *)
NamesPorts(text) ==
    \/ Alone(text) /\ text.tokens[1].number > 0
    \/ \E i \in DOMAIN text.tokens : text.tokens[i].unit = "ports"

ReadBoolean(f, text) ==
    CASE text.word = "platform" /\ f = "smart_tv" -> 1
      [] text.word = "yes" -> 1
      [] text.word = "no" -> 0
      [] OTHER -> IF f = "hdmi" /\ NamesPorts(text) THEN 1 ELSE Unread

(* How many cards fit: said, counted, or as often as a kind of card is named. *)
ReadSimCount(text) ==
    LET counts == {text.tokens[i].number : i \in {j \in DOMAIN text.tokens :
                      text.tokens[j].unit = "sim" /\ text.tokens[j].number \in 1..4}}
        kinds == Cardinality({i \in DOMAIN text.words :
                                 text.words[i] \in {"esim", "nano-sim", "micro-sim"}})
    IN IF text.word = "dual" \/ 2 \in counts THEN 2
       ELSE IF text.word = "single" \/ 1 \in counts THEN 1
       ELSE IF counts # {} THEN CHOOSE n \in counts : TRUE
       ELSE IF kinds > 4 THEN 4
       ELSE IF kinds > 0 THEN kinds ELSE Unread

(* A limit says nothing; without its unit only a usual rate is believed. *)
KnownRates == {24, 30, 50, 60, 75, 90, 120, 144, 165, 240}
ReadRefreshRate(text) ==
    LET rate == ReadNumber("refresh_rate_hz", text)
    IN IF text.word # "at most" /\ (Hits("refresh_rate_hz", text) # <<>> \/ rate \in KnownRates)
       THEN rate ELSE Unread

(* The same for months: without a unit, the number alone and ten years. *)
ReadWarranty(text) ==
    LET months == ReadNumber("warranty_months", text)
    IN IF text.word # "at most" /\ (Hits("warranty_months", text) # <<>> \/ months \in 1..120)
       THEN months ELSE Unread

ReadField(f, text) ==
    CASE f \in Booleans -> ReadBoolean(f, text)
      [] f = "sim_count" -> ReadSimCount(text)
      [] f = "refresh_rate_hz" -> ReadRefreshRate(text)
      [] f = "warranty_months" -> ReadWarranty(text)
      [] OTHER -> ReadNumber(f, text)

Plausible(f, v) ==
    CASE f = "ram_gb" -> v \in 1..128
      [] f = "storage_gb" -> v \in 1..8192
      [] f = "display_size_inch" -> v \in 10..1000
      [] f = "battery_mah" -> v \in 500..20000
      [] f = "weight_g" -> v \in 50..100000
      [] f = "weight_kg" -> v \in 50..80000
      [] OTHER -> TRUE

(* A text that names milliampere-hours or inches, but too few or too many. *)
LooksImplausible(f, text) ==
    LET at(unit) == SelectSeq(text.tokens, LAMBDA token : token.unit = unit)
    IN \/ f = "battery_mah" /\ at("mah") # <<>> /\ ~Plausible(f, text.tokens[1].number)
       \/ f = "display_size_inch" /\ at("inch") # <<>> /\ ~Plausible(f, Scaled(f, at("inch")[1]))

-----------------------------------------------------------------------------
(* The registry.                                                           *)

CategoryKey(category) == IF category \in DOMAIN EnabledFields THEN category ELSE "unknown"
Disabled(store) == IF store \in DOMAIN FieldDisables THEN FieldDisables[store] ELSE {}

Applicable(label, category, store) ==
    {r \in SpecRules : /\ r.label = label
                       /\ r.category \in {AnyScope, CategoryKey(category)}
                       /\ r.store \in {AnyScope, store}}

(* Priority first, then a rule of the store, then one of the category. *)
RuleRank(r) ==
    4 * r.priority + (IF r.store # AnyScope THEN 2 ELSE 0) + (IF r.category # AnyScope THEN 1 ELSE 0)

(* The fields a label stands for, each by its best rule; the name of a     *)
(* field stands for itself.                                                *)
Targets(label, category, store) ==
    LET rules == Applicable(label, category, store)
    IN IF label \in TypedFields
       THEN {[label |-> label, field |-> label, priority |-> 0, deprecated |-> FALSE]}
       ELSE {[label |-> label, field |-> r.field, priority |-> r.priority,
              deprecated |-> r.deprecated] :
                r \in {b \in rules : \A o \in rules : o.field = b.field => RuleRank(o) <= RuleRank(b)}}

-----------------------------------------------------------------------------
(* Confidence, in hundredths.                                              *)

BareNumber(f, text) == f \notin Booleans /\ Alone(text) /\ text.word = "none"

Clamped(n) == IF n < 35 THEN 35 ELSE IF n > 98 THEN 98 ELSE n

(* How sure one row is of field f; swapped: it was labelled as memory. *)
Score(target, f, text, swapped) ==
    LET direct == target.label = f
    IN Clamped(58 + (IF direct THEN 26 ELSE 17)
                  + (IF target.priority >= 70 THEN 12 + 6 ELSE IF target.priority >= 10 THEN 6 ELSE 0)
                  - (IF target.deprecated THEN 6 ELSE 0)
                  - (IF ~direct /\ target.label \in ShortLabels THEN 10 ELSE 0)
                  + (IF f \in Booleans THEN 0 ELSE IF BareNumber(f, text) THEN -8 ELSE 4)
                  - (IF swapped THEN 5 ELSE 0))

(* The mutant takes the mean. *)
MeanConfidence(support) == MapThenSumSet(LAMBDA c : c.score, support) \div Cardinality(support)
(* Rows that agree support each other. *)
MergedConfidence(support) ==
    LET many == Cardinality(support)
        sure == Max({c.score : c \in support}) + (IF many > 3 THEN 12 ELSE 4 * (many - 1))
    IN IF sure > 98 THEN 98 ELSE sure

MinConfidence(category) ==
    CASE category \in {"phone", "laptop", "tablet"} -> 70
      [] category \in {"tv", "appliance"} -> 60
      [] OTHER -> 65

-----------------------------------------------------------------------------
(* Candidates.                                                             *)

(* What one row gives to one of its label's fields.  A memory too large to *)
(* be read as RAM is taken for storage.  The mutant reads disabled fields. *)
CollectDisabled(at, row, target, category, store) ==
    LET value == ReadField(target.field, row.text)
    IN [at |-> at, by |-> target.field, field |-> target.field, warnings |-> {},
        value |-> IF Plausible(target.field, value) THEN value ELSE Unread,
        score |-> Score(target, target.field, row.text, FALSE)]
Collect(at, row, target, category, store) ==
    LET f == target.field
        value == ReadField(f, row.text)
        room == ReadField("storage_gb", row.text)
        swapped == f = "ram_gb" /\ value = Unread /\ room # Unread /\ Plausible("storage_gb", room)
        old == IF target.deprecated THEN {"deprecated alias"} ELSE {}
        none == [at |-> at, by |-> f, field |-> f, value |-> Unread, score |-> 0, warnings |-> old]
        given(field, v) ==
            [none EXCEPT !.field = field, !.value = v,
                         !.score = Score(target, field, row.text, swapped)]
        refused(warning) == [none EXCEPT !.warnings = @ \cup {warning}]
    IN IF f \in Disabled(store) THEN refused("disabled by store")
       ELSE IF f \notin EnabledFields[CategoryKey(category)] THEN refused("category mismatch")
       ELSE IF swapped
       THEN [given("storage_gb", room) EXCEPT !.warnings = @ \cup {"memory swapped"}]
       ELSE IF value # Unread /\ Plausible(f, value) THEN given(f, value)
       ELSE IF value # Unread \/ LooksImplausible(f, row.text) THEN refused("implausible value")
       ELSE none

(* All that the rows of a table give. *)
Collected(table, category, store) ==
    UNION {{Collect(i, table[i], target, category, store) :
                target \in Targets(table[i].label, category, store)} : i \in DOMAIN table}

-----------------------------------------------------------------------------
(* Resolution.                                                             *)

Distance(v, w) == IF v < w THEN w - v ELSE v - w
Compatible(v, w) == 20 * Distance(v, w) <= (IF v < w THEN w ELSE v)

First(given) == CHOOSE c \in given : \A d \in given : c.at <= d.at

(* The surest candidate, the first of several. *)
Surest(given) ==
    CHOOSE c \in given :
        \A d \in given : d.score < c.score \/ (d.score = c.score /\ c.at <= d.at)

(* One value for the candidates of a field, or the reason for none.  The   *)
(* mutant takes the first plausible value when the rows contradict.        *)
ResolveFirst(f, given, category) ==
    LET plausible == {c \in given : Plausible(f, c.value)}
    IN IF plausible = {}
       THEN [value |-> Unread, confidence |-> 0, reason |-> "plausibility", warnings |-> {}]
       ELSE [value |-> First(plausible).value, reason |-> "none", warnings |-> {},
             confidence |-> First(plausible).score]
Resolve(f, given, category) ==
    LET first == First(given).value
        agreed == \A c \in given : c.value = first
        close == \A c \in given : Compatible(c.value, first)
        value == IF agreed THEN first ELSE Surest(given).value
        support == {c \in given : Compatible(c.value, value) /\ (agreed \/ Plausible(f, c.value))}
        sure == MergedConfidence(support)
        conflict == IF agreed THEN {} ELSE {"conflicting values"}
        none(reason, warning) ==
            [value |-> Unread, confidence |-> 0, reason |-> reason, warnings |-> warning]
    IN IF \A c \in given : ~Plausible(f, c.value)
       THEN none("plausibility", {"implausible value"})
       ELSE IF ~close THEN none("conflict", {"conflicting values"})
       ELSE IF ~Plausible(f, value) THEN none("plausibility", conflict \cup {"implausible value"})
       ELSE IF sure < MinConfidence(category) THEN none("confidence", conflict \cup {"low confidence"})
       ELSE [value |-> value, confidence |-> sure, reason |-> "none", warnings |-> conflict]

Read(given) == {c \in given : c.value # Unread}
About(f, given) == {c \in given : c.field = f}
FieldsOf(given) == {c.field : c \in given}

Resolved(read, category) ==
    [f \in FieldsOf(read) |-> Resolve(f, About(f, read), category)]

(* What is typed of the resolved fields, and what is told of the rest.     *)
Mapped(given, result) ==
    LET typed == {f \in DOMAIN result : result[f].reason = "none"}
    IN [values |-> [f \in typed |-> result[f].value],
        confidence |-> [f \in typed |-> result[f].confidence],
        suppressed |-> {<<f, result[f].reason>> : f \in DOMAIN result \ typed},
        warnings |-> UNION ({c.warnings : c \in given}
                            \cup {result[f].warnings : f \in DOMAIN result})]

(* map_raw_specs_to_typed_partial, with the feature typed_specs_mapping on *)
(* for the store; without it nothing is typed.                             *)
MapGiven(given, category) == Mapped(given, Resolved(Read(given), category))
MapSpecs(table, category, store) == MapGiven(Collected(table, category, store), category)

-----------------------------------------------------------------------------
(* Checks across fields.                                                   *)

DisplayFits(size, category) ==
    CASE category = "phone" -> size \in 30..85
      [] category = "tablet" -> size \in 50..220
      [] category = "laptop" -> size \in 90..210
      [] category = "tv" -> size \in 120..1200
      [] OTHER -> size \in 10..1000

WeightsDiffer(grams, kilos) ==
    LET fifth == grams \div 5
    IN Distance(grams, kilos) > (IF fifth > 100 THEN fifth ELSE 100)

(* Field f of the values v cannot be true, for a reason. *)
Wrong(v, category, f, reason) ==
    LET has(g) == g \in DOMAIN v
    IN CASE f = "ram_gb" ->
               /\ reason = "memory swapped" /\ category \in {"phone", "tablet", "laptop"}
               /\ has("storage_gb") /\ v[f] > v["storage_gb"]
         [] f = "display_size_inch" ->
               reason = "cross-field conflict" /\ ~DisplayFits(v[f], category)
         [] f = "battery_mah" ->
               \/ /\ reason = "category mismatch" /\ v[f] \notin 500..50000
                  /\ category \in {"laptop", "tv", "appliance"}
               \/ /\ reason = "cross-field conflict" /\ v[f] \in 25001..50000
                  /\ category = "laptop" /\ ~has("battery_wh")
         [] f = "battery_wh" ->
               reason = "category mismatch" /\ category \in {"phone", "tablet"}
         [] f \in {"weight_g", "weight_kg"} ->
               /\ reason = "inconsistent weights"
               /\ has("weight_g") /\ has("weight_kg")
               /\ WeightsDiffer(v["weight_g"], v["weight_kg"])
         [] f = "main_camera_mp" -> reason = "implausible value" /\ v[f] \notin 1..200
         [] f = "front_camera_mp" -> reason = "implausible value" /\ v[f] \notin 1..64
         [] f = "volume_l" -> /\ reason = "implausible value"
                              /\ category = "appliance" /\ v[f] \notin 10..800000
         [] f = "power_w" -> /\ reason = "implausible value"
                             /\ category = "appliance" /\ v[f] \notin 1..30000
         [] f = "smart_tv" -> /\ reason = "cross-field conflict"
                              /\ v[f] = 1 /\ category \in {"appliance", "phone"}
         [] f = "hdmi_count" -> /\ reason = "inconsistent hdmi"
                                /\ has("hdmi") /\ v["hdmi"] = 0 /\ v[f] > 0
         [] OTHER -> FALSE

Reasons == {"memory swapped", "cross-field conflict", "category mismatch",
            "inconsistent weights", "implausible value", "inconsistent hdmi"}
Insane(v, category) ==
    {d \in (DOMAIN v) \X Reasons : Wrong(v, category, d[1], d[2])}

(* process_item of the normalisation: the mapping, then the checks; what   *)
(* they drop loses its confidence and is told.                             *)
Checked(mapped, dropped) ==
    LET kept == DOMAIN mapped.values \ {d[1] : d \in dropped}
    IN [values |-> [f \in kept |-> mapped.values[f]],
        confidence |-> [f \in kept |-> mapped.confidence[f]],
        suppressed |-> mapped.suppressed \cup dropped,
        warnings |-> mapped.warnings \cup
            {IF d[1] \in {"display_size_inch", "battery_mah"} THEN "category mismatch" ELSE d[2] :
                d \in dropped}]
Sane(mapped, category) == Checked(mapped, Insane(mapped.values, category))
Normalized(table, category, store) == Sane(MapSpecs(table, category, store), category)

=============================================================================
