------------------------------- MODULE MCSync -------------------------------
(* Small instances of SyncDelivery and ProductPayload. *)
EXTENDS SyncDelivery

CONSTANT e1

MCEntities == {e1}

(* Three snapshots of one product, the second one sold out. *)
Snapshot(payload, stock) ==
    [entity |-> e1, payload |-> payload, stock |-> stock, priced |-> TRUE, spec |-> FALSE]
TwoStates == {Snapshot("a", "in"), Snapshot("b", "out")}
MCSnapshots == TwoStates \cup {Snapshot("c", "in")}

MCRows ==
    {[verdict |-> "ok", action |-> "created", ids |-> {"listing", "product"}],
     [verdict |-> "ok", action |-> "needs_review", ids |-> {}],
     [verdict |-> "retry", action |-> "none", ids |-> {}],
     [verdict |-> "absent", action |-> "none", ids |-> {}]}

MCSpecStores == {"uzum", "mediapark"}

(* The defaults of settings.py. *)
Defaults ==
    [deltas |-> {}, runtimeDeltas |-> FALSE, allowed |-> {"price_changed", "out_of_stock"},
     rollout |-> TRUE, safeDeltas |-> FALSE, mode |-> "snapshot_upsert",
     scope |-> "entity_payload", markIgnored |-> TRUE, onMissing |-> TRUE,
     onAmbiguous |-> TRUE, runtimeIds |-> TRUE, reconcile |-> TRUE, resend |-> TRUE,
     maxResends |-> 1, requeue |-> "once", maxAttempts |-> 2, itemRetry |-> TRUE,
     partial |-> TRUE, requireRows |-> TRUE, stopMalformed |-> TRUE, failFast |-> TRUE,
     catalog |-> TwoStates, flights |-> 2, again |-> 2, mapped |-> {"mediapark"}]

(* Deltas on, no failure stops the run; one flush at a time, with one      *)
(* event of the retry queue in it; the typed fields are rolled out to one  *)
(* store only.                                                             *)
Lenient ==
    [Defaults EXCEPT !.deltas = {"price_changed", "out_of_stock"}, !.runtimeDeltas = TRUE,
        !.requeue = "always", !.requireRows = FALSE, !.stopMalformed = FALSE,
        !.failFast = FALSE, !.onMissing = FALSE, !.safeDeltas = TRUE,
        !.catalog = MCSnapshots, !.flights = 1, !.again = 1, !.mapped = {"uzum"}]

(* A batch counts only as a whole; nothing is put back; ids come late. *)
Strict ==
    [Defaults EXCEPT !.deltas = {"out_of_stock"}, !.runtimeDeltas = TRUE,
        !.requeue = "never", !.partial = FALSE, !.itemRetry = FALSE,
        !.reconcile = FALSE, !.stopMalformed = FALSE, !.mapped = {}]

MCSettings == {Defaults, Lenient, Strict}

-----------------------------------------------------------------------------
(* Labels of the phone, laptop, television and appliance rules, and the    *)
(* texts shops write beside them.                                          *)

Rule(label, field, category, store, priority) ==
    [label |-> label, field |-> field, category |-> category, store |-> store,
     priority |-> priority, deprecated |-> priority < 0]
MCSpecRules ==
    {Rule("ozu", "ram_gb", "any", "any", 0), Rule("operativka", "ram_gb", "any", "any", -5),
     Rule("ram", "ram_gb", "any", "any", 0), Rule("ram", "ram_gb", "any", "uzum", 75),
     Rule("memory", "storage_gb", "any", "uzum", 70), Rule("pamyat", "storage_gb", "any", "any", 0),
     Rule("massa", "weight_kg", "any", "any", 0), Rule("massa", "weight_g", "phone", "any", 0),
     Rule("ves", "weight_g", "any", "any", 0), Rule("ves", "weight_kg", "laptop", "any", 20),
     Rule("emkost batarei", "battery_wh", "any", "any", 0),
     Rule("emkost batarei", "battery_mah", "phone", "any", 0),
     Rule("diagonal", "display_size_inch", "any", "any", 0),
     Rule("sim", "sim_count", "any", "any", 0),
     Rule("refresh rate", "refresh_rate_hz", "any", "any", 0),
     Rule("garantiya", "warranty_months", "any", "any", 0),
     Rule("hdmi porty", "hdmi_count", "tv", "any", 10), Rule("razemy", "hdmi", "tv", "any", 10)}

MCEnabledFields ==
    [phone |-> {"ram_gb", "storage_gb", "display_size_inch", "battery_mah", "weight_g",
                "sim_count", "refresh_rate_hz"},
     laptop |-> {"ram_gb", "storage_gb", "display_size_inch", "battery_wh", "weight_kg", "weight_g"},
     tv |-> {"display_size_inch", "smart_tv", "hdmi", "hdmi_count", "power_w", "refresh_rate_hz"},
     unknown |-> {"ram_gb", "storage_gb", "display_size_inch", "battery_mah", "refresh_rate_hz",
                  "warranty_months"}]
MCFieldDisables == [uzum |-> {"hdmi"}]
MCShortLabels == {"ozu", "ram", "ves", "sim"}

MCVocabulary ==
    [phrases |->
        [accessory |-> {<<"chehol">>, <<"power", "bank">>}, tablet |-> {<<"galaxy", "tab">>, <<"ipad">>},
         laptop |-> {<<"noutbuk">>, <<"macbook">>}, tv |-> {<<"televizor">>, <<"oled">>},
         monitor |-> {<<"display">>}, gaming |-> {<<"gaming">>}, appliance |-> {<<"oven">>},
         phone |-> {<<"smartfon">>, <<"iphone">>}],
     brands |-> [samsung |-> "samsung", iphone |-> "apple", xiaomi |-> "xiaomi", redmi |-> "xiaomi"],
     noise |-> {"smartfon", "galaxy"}, generic |-> {<<"samsung">>, <<"iphone">>},
     model |-> {"model"}, brand |-> {"brend"},
     compatible |-> {"compatibility", "compatible devices"}]

Number(n, unit) == [number |-> n, unit |-> unit]
SpecRow(label, tokens, joined, word) ==
    [label |-> label, text |-> [tokens |-> tokens, joined |-> joined, word |-> word, words |-> <<>>]]
WordRow(label, words) ==
    [label |-> label, text |-> [tokens |-> <<>>, joined |-> FALSE, word |-> "none", words |-> words]]
MCSpecRows ==
    {SpecRow("ozu", <<Number(8, "gb")>>, FALSE, "none"),
     SpecRow("operativka", <<Number(8, "none")>>, FALSE, "none"),
     SpecRow("ram", <<Number(256, "gb")>>, FALSE, "none"),
     SpecRow("memory", <<Number(250, "gb")>>, FALSE, "none"),
     SpecRow("pamyat", <<Number(4, "none")>>, FALSE, "none"),
     SpecRow("ves", <<Number(2050, "g")>>, FALSE, "none"),
     SpecRow("ves", <<Number(2, "kg")>>, FALSE, "none"),
     SpecRow("emkost batarei", <<Number(5000, "mah")>>, FALSE, "none"),
     SpecRow("diagonal", <<Number(55, "inch"), Number(140, "cm")>>, FALSE, "none"),
     SpecRow("hdmi porty", <<Number(2, "ports")>>, FALSE, "none"),
     SpecRow("razemy", <<>>, FALSE, "no"), SpecRow("sim", <<>>, FALSE, "dual"),
     SpecRow("refresh rate", <<Number(144, "none")>>, FALSE, "none"),
     SpecRow("garantiya", <<Number(2, "year")>>, FALSE, "none"),
     WordRow("compatible devices", <<"noutbuk", "and", "iphone">>), WordRow("model", <<"samsung", "galaxy">>),
     WordRow("compatibility", <<"tab", "s9">>)}

(* A phone, an accessory, and a page that its rows or else its category    *)
(* decide.                                                                 *)
MCSpecPages ==
    {[title |-> <<"smartfon", "xiaomi", "x6">>, brand |-> <<>>, url |-> <<"tv">>, hint |-> <<>>],
     [title |-> <<"chehol", "for", "xiaomi", "x6">>, brand |-> <<>>, url |-> <<>>, hint |-> <<>>],
     [title |-> <<"samsung", "qe55">>, brand |-> <<"samsung">>, url |-> <<"smartfon">>,
      hint |-> <<"tv">>]}
=============================================================================
