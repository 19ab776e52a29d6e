--------------------------- MODULE AdapterRuleProofs ---------------------------
(***************************************************************************)
(* Proof that the rules of a parsed field accept what its attributes ask   *)
(* for: for any element with attributes as they are rendered, any texts,   *)
(* and both pages, with and without the method for file extensions.        *)
(***************************************************************************)
EXTENDS UnobtrusiveAdaptersProofs

-----------------------------------------------------------------------------
(* The rules are those that the adapters run so far have set.              *)

RulesAreSet ==
  /\ \A r \in DOMAIN rules \ {"__dummy__"} :
       \E i \in Setters(r) : rules[r] = Settings(Adapters[i], element)[r]
  /\ \A i \in Applied(element) :
       i < index => DOMAIN Settings(Adapters[i], element) \subseteq DOMAIN rules

LEMMA InitRules == Init => RulesAreSet
<1> SUFFICES ASSUME Init PROVE RulesAreSet
  OBVIOUS
<1>1. DOMAIN rules = {} /\ index = 1
  BY DEF Init, NoSettings
<1>2. \A i \in Applied(element) : ~(i < 1)
  BY AdaptersAreRegistered DEF Applied
<1> QED BY <1>1, <1>2 DEF RulesAreSet

LEMMA RunAdapterRules == ASSUME TypeOK, RulesAreSet, RunAdapter PROVE RulesAreSet'
<1> DEFINE s == Settings(Adapters[index], element)
<1>1. UNCHANGED <<element, extensionMethod>> /\ index' = index + 1
  BY DEF RunAdapter
<1>2. index \in Applied(element) /\ rules' = Replacing(rules, s)
  BY RunAdapterEffect
<1>3. /\ Adapters' = Adapters
      /\ \A r : Setters(r)' = IF r \in DOMAIN s THEN Setters(r) \cup {index} ELSE Setters(r)
  BY <1>1, <1>2, SettersGrow
<1>4. Applied(element)' = Applied(element)
  BY <1>1, <1>3 DEF Applied, Applies, Attr
<1>5. \A i : Settings(Adapters[i], element)' = Settings(Adapters[i], element)
  BY <1>1, <1>3
<1>6. s = Settings(Adapters[index], element)
  OBVIOUS
<1> HIDE DEF s
<1>7. /\ DOMAIN rules' = DOMAIN rules \cup DOMAIN s
      /\ \A r \in DOMAIN s : rules'[r] = s[r]
      /\ \A r \in DOMAIN rules \ DOMAIN s : rules'[r] = rules[r]
  <2>1. /\ DOMAIN Replacing(rules, s) = DOMAIN rules \cup DOMAIN s
        /\ \A r \in DOMAIN s : Replacing(rules, s)[r] = s[r]
        /\ \A r \in DOMAIN rules \ DOMAIN s : Replacing(rules, s)[r] = rules[r]
    BY ReplacingEffect
  <2> QED BY <1>2, <2>1
<1>8. ASSUME NEW r \in DOMAIN rules' \ {"__dummy__"}
      PROVE  \E i \in Setters(r)' : rules'[r] = Settings(Adapters[i], element)[r]
  <2>1. CASE r \in DOMAIN s
    BY <1>3, <1>6, <1>7, <2>1
  <2>2. CASE r \notin DOMAIN s
    BY <1>3, <1>7, <2>2 DEF RulesAreSet
  <2> QED BY <2>1, <2>2
<1>9. ASSUME NEW i \in Applied(element), i < index + 1
      PROVE  DOMAIN Settings(Adapters[i], element) \subseteq DOMAIN rules'
  <2>1. i < index \/ i = index
    BY <1>9, AdaptersAreRegistered DEF Applied, TypeOK
  <2> QED BY <1>6, <1>7, <2>1 DEF RulesAreSet
<1> QED BY <1>1, <1>3, <1>4, <1>5, <1>8, <1>9 DEF RulesAreSet

LEMMA EndParseRules == ASSUME TypeOK, RulesAreSet, EndParse PROVE RulesAreSet'
<1>1. /\ UNCHANGED <<element, extensionMethod>>
      /\ index = Len(Adapters) + 1 /\ index' = index + 1
      /\ rules' = Replacing(rules, Setting("__dummy__", TRUE))
  BY DEF EndParse
<1>2. index \notin Applied(element) /\ \A i \in Applied(element) : i < index
  BY <1>1, AdaptersAreRegistered DEF Applied
<1>3. Adapters' = Adapters /\ \A r : Setters(r)' = Setters(r)
  BY <1>1, <1>2, SettersGrow
<1>4. Applied(element)' = Applied(element)
  BY <1>1, <1>3 DEF Applied, Applies, Attr
<1>5. /\ DOMAIN rules' = DOMAIN rules \cup {"__dummy__"}
      /\ \A r \in DOMAIN rules : r # "__dummy__" => rules'[r] = rules[r]
  <2> DEFINE dummy == Setting("__dummy__", TRUE)
  <2>1. DOMAIN dummy = {"__dummy__"}
    BY SettingEffect
  <2>2. rules' = Replacing(rules, dummy)
    BY <1>1
  <2> HIDE DEF dummy
  <2>3. /\ DOMAIN rules' = DOMAIN rules \cup DOMAIN dummy
        /\ \A r \in DOMAIN rules \ DOMAIN dummy : rules'[r] = rules[r]
    BY <2>2, ReplacingEffect
  <2> QED BY <2>1, <2>3
<1>6. \A i : Settings(Adapters[i], element)' = Settings(Adapters[i], element)
  BY <1>1, <1>3
<1> QED BY <1>1, <1>2, <1>3, <1>4, <1>5, <1>6 DEF RulesAreSet

LEMMA NextRules == ASSUME TypeOK, RulesAreSet, [Next]_vars PROVE RulesAreSet'
<1>1. CASE RunAdapter
  BY <1>1, RunAdapterRules
<1>2. CASE EndParse
  BY <1>2, EndParseRules
<1>3. CASE SkipAdapter \/ AdapterThrows \/ UNCHANGED vars
  <2>1. UNCHANGED <<element, extensionMethod, rules>>
    BY <1>3 DEF SkipAdapter, AdapterThrows, vars
  <2>2. Adapters' = Adapters
    BY <2>1, SameAdapters
  <2>3. Applied(element)' = Applied(element)
    BY <2>1, <2>2 DEF Applied, Applies, Attr
  <2>4. \A i : Settings(Adapters[i], element)' = Settings(Adapters[i], element)
    BY <2>1, <2>2
  <2>5. \A i \in Applied(element) : i < index' <=> i < index
    <3>1. CASE index' = index
      BY <3>1
    <3>2. CASE SkipAdapter
      <4>1. index \notin Applied(element) /\ index' = index + 1
        BY <3>2 DEF SkipAdapter, Applied
      <4> QED BY <4>1, AdaptersAreRegistered DEF Applied, TypeOK
    <3> QED BY <1>3, <3>1, <3>2 DEF AdapterThrows, vars
  <2>6. \A r : Setters(r)' = Setters(r)
    BY <2>1, <2>2, <2>3, <2>4, <2>5 DEF Setters
  <2> QED BY <2>1, <2>2, <2>3, <2>4, <2>5, <2>6 DEF RulesAreSet
<1> QED BY <1>1, <1>2, <1>3 DEF Next

-----------------------------------------------------------------------------
(* Which adapters there are on a page.                                     *)

CommonAdapters ==
  {AddSingleVal("regex", "pattern", Undefined),
   AddBool("creditcard"), AddBool("date"), AddBool("digits"),
   AddBool("email"), AddBool("number"), AddBool("url"),
   AddMinMax("length", "minlength", "maxlength", "rangelength"),
   AddMinMax("range", "min", "max", "range"),
   AddMinMax("minlength", "minlength", Undefined, Undefined),
   AddMinMax("maxlength", "minlength", "maxlength", Undefined),
   Add("equalto", {"other"}),
   Add("required", {}),
   Add("remote", {"url", "type", "additionalfields"}),
   Add("password", {"min", "nonalphamin", "regex"}),
   Add("fileextensions", {"extensions"})}

PageAdapters ==
  CommonAdapters \cup
  IF extensionMethod
  THEN {AddSingleVal("accept", "mimtype", Undefined),
        AddSingleVal("extension", "extension", Undefined)}
  ELSE {AddSingleVal("extension", "extension", "accept")}

LEMMA AdaptersOfPage == {Adapters[i] : i \in DOMAIN Adapters} = PageAdapters
<1> DEFINE others ==
  <<AddSingleVal("regex", "pattern", Undefined),
    AddBool("creditcard"), AddBool("date"), AddBool("digits"),
    AddBool("email"), AddBool("number"), AddBool("url"),
    AddMinMax("length", "minlength", "maxlength", "rangelength"),
    AddMinMax("range", "min", "max", "range"),
    AddMinMax("minlength", "minlength", Undefined, Undefined),
    AddMinMax("maxlength", "minlength", "maxlength", Undefined),
    Add("equalto", {"other"}),
    Add("required", {}),
    Add("remote", {"url", "type", "additionalfields"}),
    Add("password", {"min", "nonalphamin", "regex"}),
    Add("fileextensions", {"extensions"})>>
<1>1. FileAdapters \in Seq(Registered)
  BY DEF FileAdapters, Registered
<1>2. others \in Seq(Registered)
  BY DEF Registered
<1>3. {FileAdapters[i] : i \in DOMAIN FileAdapters} =
        IF extensionMethod
        THEN {AddSingleVal("accept", "mimtype", Undefined),
              AddSingleVal("extension", "extension", Undefined)}
        ELSE {AddSingleVal("extension", "extension", "accept")}
  <2>1. CASE extensionMethod
    <3>1. FileAdapters = <<AddSingleVal("accept", "mimtype", Undefined),
                           AddSingleVal("extension", "extension", Undefined)>>
      BY <2>1 DEF FileAdapters
    <3>2. DOMAIN FileAdapters = {1, 2}
      BY <3>1
    <3> QED BY <2>1, <3>1, <3>2
  <2>2. CASE ~extensionMethod
    <3>1. FileAdapters = <<AddSingleVal("extension", "extension", "accept")>>
      BY <2>2 DEF FileAdapters
    <3>2. DOMAIN FileAdapters = {1}
      BY <3>1
    <3> QED BY <2>2, <3>1, <3>2
  <2> QED BY <2>1, <2>2
<1>4. {others[i] : i \in DOMAIN others} = CommonAdapters
  <2>1. DOMAIN others = {1, 2, 3, 4, 5, 6, 7, 8, 9, 10, 11, 12, 13, 14, 15, 16}
    OBVIOUS
  <2> QED BY <2>1 DEF CommonAdapters
<1>5. Adapters = FileAdapters \o others
  BY DEF Adapters
<1> HIDE DEF others
<1> DEFINE m == Len(FileAdapters)
           n == Len(others)
<1>6. m \in Nat /\ n \in Nat /\ DOMAIN FileAdapters = 1 .. m /\ DOMAIN others = 1 .. n
  BY <1>1, <1>2, LenProperties
<1>7. /\ Adapters \in Seq(Registered) /\ Len(Adapters) = m + n
      /\ \A i \in 1 .. m + n :
           Adapters[i] = IF i <= m THEN FileAdapters[i] ELSE others[i - m]
  BY <1>1, <1>2, <1>5, ConcatProperties
<1>8. DOMAIN Adapters = 1 .. m + n
  BY <1>7, LenProperties
<1> HIDE DEF m, n
<1>9. ASSUME NEW i \in 1 .. m PROVE i \in 1 .. m + n /\ Adapters[i] = FileAdapters[i]
  BY <1>6, <1>7
<1>10. ASSUME NEW i \in 1 .. n PROVE i + m \in 1 .. m + n /\ Adapters[i + m] = others[i]
  <2>1. i + m \in 1 .. m + n /\ ~(i + m <= m) /\ (i + m) - m = i
    BY <1>6
  <2> QED BY <1>7, <2>1
<1>11. ASSUME NEW i \in 1 .. m + n
       PROVE  \/ i \in 1 .. m /\ Adapters[i] = FileAdapters[i]
              \/ i - m \in 1 .. n /\ Adapters[i] = others[i - m]
  BY <1>6, <1>7
<1>12. \A a : a \in CommonAdapters <=> \E i \in 1 .. n : a = others[i]
  BY <1>4, <1>6
<1>13. \A a : a \in PageAdapters <=>
         a \in CommonAdapters \/ \E i \in 1 .. m : a = FileAdapters[i]
  BY <1>3, <1>6 DEF PageAdapters
<1>14. ASSUME NEW i \in 1 .. m + n PROVE Adapters[i] \in PageAdapters
  BY <1>11, <1>12, <1>13
<1>15. ASSUME NEW a \in PageAdapters PROVE \E i \in 1 .. m + n : Adapters[i] = a
  <2>1. CASE a \in CommonAdapters
    <3>1. PICK i \in 1 .. n : a = others[i]
      BY <1>12, <2>1
    <3> QED BY <1>10, <3>1
  <2>2. CASE a \notin CommonAdapters
    BY <1>9, <1>13, <2>2
  <2> QED BY <2>1, <2>2
<1> QED BY <1>8, <1>14, <1>15

LEMMA PageIsRegistered == PageAdapters \subseteq Registered
  BY DEF PageAdapters, CommonAdapters, Registered

-----------------------------------------------------------------------------
(* What the rules of one adapter accept.                                   *)

Allows(a, e, text) ==
  \A r \in DOMAIN Settings(a, e) :
    Settings(a, e)[r] # Undefined => Passes(r, Settings(a, e)[r], text)

\* Without collisions the rules of a parsed field are those of its adapters.
LEMMA AcceptsByAdapters ==
  ASSUME TypeOK, RulesAreSet, Parsed, ~Colliding(element), NEW text
  PROVE  Accepts(text) <=>
           \A a \in PageAdapters : Applies(a, element) => Allows(a, element, text)
<1> DEFINE S(i) == Settings(Adapters[i], element)
<1>1. \A i \in Applied(element) : i < index
  BY AdaptersAreRegistered DEF Parsed, Applied
<1>2. \A i, j \in Applied(element) : DOMAIN S(i) \cap DOMAIN S(j) # {} => i = j
  BY DEF Colliding
<1>3. \A i \in Applied(element) : "__dummy__" \notin DOMAIN S(i)
  BY AdaptersAreRegistered, SettingsEffect DEF Applied
<1>4. \A i \in Applied(element) : \A r \in DOMAIN S(i) :
        r \in DOMAIN rules /\ rules[r] = S(i)[r]
  <2> TAKE i \in Applied(element)
  <2> TAKE r \in DOMAIN S(i)
  <2>1. r \in DOMAIN rules \ {"__dummy__"}
    BY <1>1, <1>3 DEF RulesAreSet
  <2>2. PICK j \in Setters(r) : rules[r] = S(j)[r]
    BY <2>1 DEF RulesAreSet
  <2>3. j = i
    BY <1>2, <2>2 DEF Setters
  <2> QED BY <2>1, <2>2, <2>3
<1>5. \A r \in DOMAIN rules \ {"__dummy__"} :
        \E i \in Applied(element) : r \in DOMAIN S(i) /\ rules[r] = S(i)[r]
  BY DEF RulesAreSet, Setters
<1>6. Passes("__dummy__", rules["__dummy__"], text)
  BY DEF Passes, FormatRules
<1>7. Accepts(text) <=>
        \A r \in DOMAIN rules : rules[r] # Undefined => Passes(r, rules[r], text)
  BY DEF Accepts, GivenRules
<1>8. (\A i \in Applied(element) : Allows(Adapters[i], element, text)) <=>
        \A a \in PageAdapters : Applies(a, element) => Allows(a, element, text)
  BY AdaptersOfPage DEF Applied
<1>9. \A i : Allows(Adapters[i], element, text) <=>
        \A r \in DOMAIN S(i) : S(i)[r] # Undefined => Passes(r, S(i)[r], text)
  BY DEF Allows
<1> HIDE DEF S
<1>10. Accepts(text) <=> \A i \in Applied(element) : Allows(Adapters[i], element, text)
  BY <1>3, <1>4, <1>5, <1>6, <1>7, <1>9
<1> QED BY <1>8, <1>10

\* What the rules demand of a text, each for any parameter.
LEMMA PassesEffect ==
  ASSUME NEW text \in Text, NEW param
  PROVE  /\ Passes("required", param, text) <=> text.length > 0
         /\ Passes("minlength", param, text) <=>
              (text.length > 0 => text.length >= param)
         /\ Passes("maxlength", param, text) <=>
              (text.length > 0 => text.length <= param)
         /\ Passes("rangelength", param, text) <=>
              (text.length > 0 => text.length \in param[1] .. param[2])
         /\ Passes("min", param, text) <=>
              (text.length > 0 => NumeralOrder[text.number] >= NumeralOrder[param])
         /\ Passes("max", param, text) <=>
              (text.length > 0 => NumeralOrder[text.number] <= NumeralOrder[param])
         /\ Passes("range", param, text) <=>
              (text.length > 0 => text.number \in param[1] .. param[2])
         /\ Passes("regex", param, text) <=> (text.length > 0 => FullMatch(text))
         /\ Passes("nonalphamin", param, text) <=>
              text.nonAlpha > 0 /\ text.nonAlpha >= param
         /\ \A r \in FormatRules \cup {"extension", "accept"} :
              Passes(r, param, text) <=> (text.length > 0 => text.formatted)
         /\ Passes("equalTo", param, text) /\ Passes("remote", param, text)
<1>1. text.length > 0 <=> text.length # 0
  BY DEF Text
<1> QED BY <1>1 DEF Passes, FormatRules

LEMMA SettingAllows ==
  ASSUME NEW a, NEW e, NEW text, NEW r, NEW v, Settings(a, e) = Setting(r, v)
  PROVE  Allows(a, e, text) <=> (v # Undefined => Passes(r, v, text))
<1>1. DOMAIN Settings(a, e) = {r} /\ Settings(a, e)[r] = v
  BY SettingEffect
<1> QED BY <1>1 DEF Allows

LEMMA NothingAllowsAll ==
  ASSUME NEW a, NEW e, NEW text, Settings(a, e) = NoSettings
  PROVE  Allows(a, e, text)
<1>1. DOMAIN Settings(a, e) = {}
  BY DEF NoSettings
<1> QED BY <1>1 DEF Allows

LEMMA BoolAllows ==
  ASSUME NEW e, NEW text \in Text, NEW n \in FormatRules
  PROVE  Allows(AddBool(n), e, text) <=> (text.length > 0 => text.formatted)
<1>1. Settings(AddBool(n), e) = Setting(n, TRUE)
  BY DEF Settings, AddBool
<1>2. Allows(AddBool(n), e, text) <=> (TRUE # Undefined => Passes(n, TRUE, text))
  BY <1>1, SettingAllows
<1>3. Passes(n, TRUE, text) <=> (text.length > 0 => text.formatted)
  BY PassesEffect
<1> QED BY <1>2, <1>3, AdaptersAssumption

LEMMA RequiredAllows ==
  ASSUME NEW e, NEW text \in Text
  PROVE  Allows(Add("required", {}), e, text) <=> (e.type # "checkbox" => text.length > 0)
<1> DEFINE a == Add("required", {})
<1>1. Settings(a, e) = RequiredSettings(e)
  BY DEF Settings, Add
<1>2. CASE e.type = "checkbox"
  <2>1. Settings(a, e) = NoSettings
    BY <1>1, <1>2 DEF RequiredSettings
  <2> QED BY <1>2, <2>1, NothingAllowsAll
<1>3. CASE e.type # "checkbox"
  <2>1. Settings(a, e) = Setting("required", TRUE)
    BY <1>1, <1>3 DEF RequiredSettings
  <2>2. Allows(a, e, text) <=> (TRUE # Undefined => Passes("required", TRUE, text))
    BY <2>1, SettingAllows
  <2>3. Passes("required", TRUE, text) <=> text.length > 0
    BY PassesEffect
  <2> QED BY <1>3, <2>2, <2>3, AdaptersAssumption
<1> QED BY <1>2, <1>3

\* An adapter with a single value, of which an absent one is not enforced.
LEMMA SingleValAllows ==
  ASSUME NEW e \in Elements, NEW text \in Text, NEW n, NEW p, NEW r, NEW rule,
         Truthy(p), rule = Or(r, n)
  PROVE  Allows(AddSingleVal(n, p, r), e, text) <=>
           (Attr(e, <<n, p>>) # Undefined => Passes(rule, Attr(e, <<n, p>>), text))
<1> DEFINE a == AddSingleVal(n, p, r)
<1>1. /\ a.name = n /\ a.params = {p} /\ a.kind = "singleVal"
      /\ a.attribute = p /\ a.rule = rule
  BY DEF AddSingleVal, Or
<1>2. ParamValues(a, e) = [q \in {p} |-> Attr(e, <<n, q>>)]
  BY <1>1 DEF ParamValues
<1> HIDE DEF a
<1>3. Settings(a, e) = Setting(rule, Attr(e, <<n, p>>))
  BY <1>1, <1>2 DEF Settings
<1>4. Allows(a, e, text) <=>
        (Attr(e, <<n, p>>) # Undefined => Passes(rule, Attr(e, <<n, p>>), text))
  BY <1>3, SettingAllows
<1> QED BY <1>4 DEF a

\* Bounds that are enforced by one rule each, or by one for both.
LEMMA MinMaxAllows ==
  ASSUME NEW e \in Elements, NEW text, NEW n, NEW minRule, NEW maxRule, NEW minMaxRule,
         Attr(e, <<n, "min">>) \in Int \cup {Undefined, Empty},
         Attr(e, <<n, "max">>) \in Int \cup {Undefined, Empty}
  PROVE  LET min == Attr(e, <<n, "min">>)
             max == Attr(e, <<n, "max">>)
             a   == AddMinMax(n, minRule, maxRule, minMaxRule)
         IN  /\ Truthy(min) /\ Truthy(max) =>
                  (Allows(a, e, text) <=> Passes(minMaxRule, <<min, max>>, text))
             /\ Truthy(min) /\ ~Truthy(max) =>
                  (Allows(a, e, text) <=> Passes(minRule, min, text))
             /\ ~Truthy(min) /\ Truthy(max) =>
                  (Allows(a, e, text) <=> Passes(maxRule, max, text))
             /\ ~Truthy(min) /\ ~Truthy(max) => Allows(a, e, text)
<1> DEFINE min == Attr(e, <<n, "min">>)
           max == Attr(e, <<n, "max">>)
           a   == AddMinMax(n, minRule, maxRule, minMaxRule)
<1>1. /\ a.name = n /\ a.params = {"min", "max"} /\ a.kind = "minMax"
      /\ a.minRule = minRule /\ a.maxRule = maxRule /\ a.minMaxRule = minMaxRule
  BY DEF AddMinMax
<1> HIDE DEF a
<1>2. ParamValues(a, e) = [p \in {"min", "max"} |-> Attr(e, <<n, p>>)]
  BY <1>1 DEF ParamValues
<1>3. Settings(a, e) = MinMaxSettings(a, min, max)
  BY <1>1, <1>2 DEF Settings
<1>4. min \in Int \cup {Undefined, Empty} /\ max \in Int \cup {Undefined, Empty}
  OBVIOUS
<1> HIDE DEF min, max
<1>5. ASSUME Truthy(min), Truthy(max)
      PROVE  Allows(a, e, text) <=> Passes(minMaxRule, <<min, max>>, text)
  <2>1. <<min, max>> # Undefined
    BY <1>4, <1>5, AdaptersAssumption DEF Truthy
  <2>2. Settings(a, e) = Setting(minMaxRule, <<min, max>>)
    BY <1>1, <1>3, <1>5 DEF MinMaxSettings
  <2> QED BY <2>1, <2>2, SettingAllows
<1>6. ASSUME Truthy(min), ~Truthy(max)
      PROVE  Allows(a, e, text) <=> Passes(minRule, min, text)
  <2>1. Settings(a, e) = Setting(minRule, min)
    BY <1>1, <1>3, <1>6 DEF MinMaxSettings
  <2> QED BY <1>6, <2>1, SettingAllows DEF Truthy
<1>7. ASSUME ~Truthy(min), Truthy(max)
      PROVE  Allows(a, e, text) <=> Passes(maxRule, max, text)
  <2>1. Settings(a, e) = Setting(maxRule, max)
    BY <1>1, <1>3, <1>7 DEF MinMaxSettings
  <2> QED BY <1>7, <2>1, SettingAllows DEF Truthy
<1>8. ASSUME ~Truthy(min), ~Truthy(max) PROVE Allows(a, e, text)
  <2>1. Settings(a, e) = NoSettings
    BY <1>1, <1>3, <1>8 DEF MinMaxSettings
  <2> QED BY <2>1, NothingAllowsAll
<1> QED BY <1>5, <1>6, <1>7, <1>8 DEF min, max, a

\* What the bounds of the attribute demand of a number.
Within(n, min, max) ==
  /\ Truthy(min) => n >= min
  /\ Truthy(max) => n <= max

LEMMA LengthAllows ==
  ASSUME NEW e \in Elements, NEW text \in Text
  PROVE  Allows(AddMinMax("length", "minlength", "maxlength", "rangelength"), e, text) <=>
           (text.length > 0 =>
              Within(text.length, Attr(e, <<"length", "min">>), Attr(e, <<"length", "max">>)))
<1> DEFINE min == Attr(e, <<"length", "min">>)
           max == Attr(e, <<"length", "max">>)
           a   == AddMinMax("length", "minlength", "maxlength", "rangelength")
<1>1. min \in Int \cup {Undefined, Empty} /\ max \in Int \cup {Undefined, Empty}
  BY AdaptersAssumption DEF Rendered
<1>2. /\ Truthy(min) /\ Truthy(max) =>
           (Allows(a, e, text) <=> Passes("rangelength", <<min, max>>, text))
      /\ Truthy(min) /\ ~Truthy(max) =>
           (Allows(a, e, text) <=> Passes("minlength", min, text))
      /\ ~Truthy(min) /\ Truthy(max) =>
           (Allows(a, e, text) <=> Passes("maxlength", max, text))
      /\ ~Truthy(min) /\ ~Truthy(max) => Allows(a, e, text)
  BY <1>1, MinMaxAllows
<1> HIDE DEF min, max, a
<1>3. /\ Passes("minlength", min, text) <=> (text.length > 0 => text.length >= min)
      /\ Passes("maxlength", max, text) <=> (text.length > 0 => text.length <= max)
      /\ Passes("rangelength", <<min, max>>, text) <=>
           (text.length > 0 => text.length \in <<min, max>>[1] .. <<min, max>>[2])
  BY PassesEffect
<1>4. Truthy(min) /\ Truthy(max) =>
        (text.length \in <<min, max>>[1] .. <<min, max>>[2] <=>
           text.length >= min /\ text.length <= max)
  BY <1>1 DEF Truthy, Text
<1>5. Allows(a, e, text) <=> (text.length > 0 => Within(text.length, min, max))
  BY <1>2, <1>3, <1>4 DEF Within
<1> QED BY <1>5 DEF min, max, a

LEMMA RangeAllows ==
  ASSUME NEW e \in Elements, NEW text \in Text, Has(e, "range"),
         OneBound(e, "range") => OrderedAsNumbers(e, text)
  PROVE  Allows(AddMinMax("range", "min", "max", "range"), e, text) <=>
           (text.length > 0 =>
              Within(text.number, Attr(e, <<"range", "min">>), Attr(e, <<"range", "max">>)))
<1> DEFINE min == Attr(e, <<"range", "min">>)
           max == Attr(e, <<"range", "max">>)
           a   == AddMinMax("range", "min", "max", "range")
<1>1. min \in Int \cup {Undefined, Empty} /\ max \in Int \cup {Undefined, Empty}
  BY AdaptersAssumption DEF Rendered
<1>2. /\ Truthy(min) /\ Truthy(max) =>
           (Allows(a, e, text) <=> Passes("range", <<min, max>>, text))
      /\ Truthy(min) /\ ~Truthy(max) => (Allows(a, e, text) <=> Passes("min", min, text))
      /\ ~Truthy(min) /\ Truthy(max) => (Allows(a, e, text) <=> Passes("max", max, text))
      /\ ~Truthy(min) /\ ~Truthy(max) => Allows(a, e, text)
  BY <1>1, MinMaxAllows
<1>3. ASSUME Truthy(min), ~Truthy(max)
      PROVE  NumeralOrder[text.number] >= NumeralOrder[min] <=> text.number >= min
  <2>1. OrderedAsNumbers(e, text)
    BY <1>3 DEF OneBound
  <2>2. min \in Given(e, {<<"range", "min">>, <<"range", "max">>})
    BY <1>3 DEF Given
  <2> QED BY <2>1, <2>2 DEF OrderedAsNumbers
<1>4. ASSUME ~Truthy(min), Truthy(max)
      PROVE  NumeralOrder[text.number] <= NumeralOrder[max] <=> text.number <= max
  <2>1. OrderedAsNumbers(e, text)
    BY <1>4 DEF OneBound
  <2>2. max \in Given(e, {<<"range", "min">>, <<"range", "max">>})
    BY <1>4 DEF Given
  <2> QED BY <2>1, <2>2 DEF OrderedAsNumbers
<1> HIDE DEF min, max, a
<1>5. /\ Passes("min", min, text) <=>
           (text.length > 0 => NumeralOrder[text.number] >= NumeralOrder[min])
      /\ Passes("max", max, text) <=>
           (text.length > 0 => NumeralOrder[text.number] <= NumeralOrder[max])
      /\ Passes("range", <<min, max>>, text) <=>
           (text.length > 0 => text.number \in <<min, max>>[1] .. <<min, max>>[2])
  BY PassesEffect
<1>6. Truthy(min) /\ Truthy(max) =>
        (text.number \in <<min, max>>[1] .. <<min, max>>[2] <=>
           text.number >= min /\ text.number <= max)
  BY <1>1 DEF Truthy, Text
<1>7. Allows(a, e, text) <=> (text.length > 0 => Within(text.number, min, max))
  BY <1>2, <1>3, <1>4, <1>5, <1>6 DEF Within
<1> QED BY <1>7 DEF min, max, a

LEMMA MinLengthAllows ==
  ASSUME NEW e \in Elements, NEW text \in Text
  PROVE  Allows(AddMinMax("minlength", "minlength", Undefined, Undefined), e, text) <=>
           (text.length > 0 =>
              (Truthy(Attr(e, <<"minlength", "min">>)) =>
                 text.length >= Attr(e, <<"minlength", "min">>)))
<1> DEFINE min == Attr(e, <<"minlength", "min">>)
           max == Attr(e, <<"minlength", "max">>)
           a   == AddMinMax("minlength", "minlength", Undefined, Undefined)
<1>1. /\ min \in Int \cup {Undefined, Empty} /\ max \in Int \cup {Undefined, Empty}
      /\ ~Truthy(max)
  BY AdaptersAssumption DEF Rendered
<1>2. /\ Truthy(min) /\ ~Truthy(max) =>
           (Allows(a, e, text) <=> Passes("minlength", min, text))
      /\ ~Truthy(min) /\ ~Truthy(max) => Allows(a, e, text)
  BY <1>1, MinMaxAllows
<1> HIDE DEF min, max, a
<1>3. Passes("minlength", min, text) <=> (text.length > 0 => text.length >= min)
  BY PassesEffect
<1>4. Allows(a, e, text) <=> (text.length > 0 => (Truthy(min) => text.length >= min))
  BY <1>1, <1>2, <1>3
<1> QED BY <1>4 DEF min, a

LEMMA MaxLengthAllows ==
  ASSUME NEW e \in Elements, NEW text \in Text
  PROVE  Allows(AddMinMax("maxlength", "minlength", "maxlength", Undefined), e, text) <=>
           (text.length > 0 =>
              (Truthy(Attr(e, <<"maxlength", "max">>)) =>
                 text.length <= Attr(e, <<"maxlength", "max">>)))
<1> DEFINE min == Attr(e, <<"maxlength", "min">>)
           max == Attr(e, <<"maxlength", "max">>)
           a   == AddMinMax("maxlength", "minlength", "maxlength", Undefined)
<1>1. /\ min \in Int \cup {Undefined, Empty} /\ max \in Int \cup {Undefined, Empty}
      /\ ~Truthy(min)
  BY AdaptersAssumption DEF Rendered
<1>2. /\ ~Truthy(min) /\ Truthy(max) =>
           (Allows(a, e, text) <=> Passes("maxlength", max, text))
      /\ ~Truthy(min) /\ ~Truthy(max) => Allows(a, e, text)
  BY <1>1, MinMaxAllows
<1> HIDE DEF min, max, a
<1>3. Passes("maxlength", max, text) <=> (text.length > 0 => text.length <= max)
  BY PassesEffect
<1>4. Allows(a, e, text) <=> (text.length > 0 => (Truthy(max) => text.length <= max))
  BY <1>1, <1>2, <1>3
<1> QED BY <1>4 DEF max, a

LEMMA LookupsAllow ==
  ASSUME NEW e, NEW text \in Text
  PROVE  /\ Allows(Add("equalto", {"other"}), e, text)
         /\ Allows(Add("remote", {"url", "type", "additionalfields"}), e, text)
<1>1. Allows(Add("equalto", {"other"}), e, text)
  <2> DEFINE a == Add("equalto", {"other"})
  <2>1. \E other : Settings(a, e) = EqualToSettings(e, other)
    BY DEF Settings, Add
  <2>2. \E v : Settings(a, e) = Setting("equalTo", v)
    BY <2>1 DEF EqualToSettings
  <2>3. \A v : Passes("equalTo", v, text)
    BY PassesEffect
  <2> HIDE DEF a
  <2>4. Allows(a, e, text)
    BY <2>2, <2>3, SettingAllows
  <2> QED BY <2>4 DEF a
<1>2. Allows(Add("remote", {"url", "type", "additionalfields"}), e, text)
  <2> DEFINE a == Add("remote", {"url", "type", "additionalfields"})
  <2>1. Settings(a, e) = RemoteSettings(e, ParamValues(a, e))
    BY DEF Settings, Add
  <2>2. \E v : Settings(a, e) = Setting("remote", v)
    BY <2>1 DEF RemoteSettings
  <2>3. \A v : Passes("remote", v, text)
    BY PassesEffect
  <2> HIDE DEF a
  <2>4. Allows(a, e, text)
    BY <2>2, <2>3, SettingAllows
  <2> QED BY <2>4 DEF a
<1> QED BY <1>1, <1>2

LEMMA FileExtensionsAllow ==
  ASSUME NEW e, NEW text \in Text
  PROVE  Allows(Add("fileextensions", {"extensions"}), e, text) <=>
           (Attr(e, <<"fileextensions", "extensions">>) # Undefined =>
              (text.length > 0 => text.formatted))
<1> DEFINE a == Add("fileextensions", {"extensions"})
           v == Attr(e, <<"fileextensions", "extensions">>)
<1>1. a.name = "fileextensions" /\ a.params = {"extensions"} /\ a.kind = "fileextensions"
  BY DEF Add
<1> HIDE DEF a
<1>2. ParamValues(a, e) = [p \in {"extensions"} |-> Attr(e, <<"fileextensions", p>>)]
  BY <1>1 DEF ParamValues
<1>3. Settings(a, e) = Setting("extension", v)
  BY <1>1, <1>2 DEF Settings
<1> HIDE DEF v
<1>4. Allows(a, e, text) <=> (v # Undefined => Passes("extension", v, text))
  BY <1>3, SettingAllows
<1>5. Passes("extension", v, text) <=> (text.length > 0 => text.formatted)
  BY PassesEffect
<1> QED BY <1>4, <1>5 DEF a, v

\* A password has up to three rules, each with a parameter of its own.
LEMMA PasswordAllows ==
  ASSUME NEW e, NEW text \in Text
  PROVE  LET min      == Attr(e, <<"password", "min">>)
             nonAlpha == Attr(e, <<"password", "nonalphamin">>)
             regex    == Attr(e, <<"password", "regex">>)
         IN  Allows(Add("password", {"min", "nonalphamin", "regex"}), e, text) <=>
               /\ Truthy(min) => (text.length > 0 => text.length >= min)
               /\ Truthy(nonAlpha) => text.nonAlpha > 0 /\ text.nonAlpha >= nonAlpha
               /\ Truthy(regex) => (text.length > 0 => FullMatch(text))
<1> DEFINE a == Add("password", {"min", "nonalphamin", "regex"})
           param == ParamValues(a, e)
           min == Attr(e, <<"password", "min">>)
           nonAlpha == Attr(e, <<"password", "nonalphamin">>)
           regex == Attr(e, <<"password", "regex">>)
           ruleOf == [min |-> "minlength", nonalphamin |-> "nonalphamin",
                      regex |-> "regex"]
           given == {p \in DOMAIN ruleOf : Truthy(param[p])}
<1>1. /\ a.name = "password" /\ a.params = {"min", "nonalphamin", "regex"}
      /\ a.kind = "password"
  BY DEF Add
<1> HIDE DEF a
<1>2. param = [p \in {"min", "nonalphamin", "regex"} |-> Attr(e, <<"password", p>>)]
  BY <1>1 DEF ParamValues
<1>3. param["min"] = min /\ param["nonalphamin"] = nonAlpha /\ param["regex"] = regex
  BY <1>2
<1>4. Settings(a, e) = [r \in {ruleOf[p] : p \in given} |->
                          param[CHOOSE p \in given : ruleOf[p] = r]]
  BY <1>1 DEF Settings, PasswordSettings
<1>5. /\ DOMAIN ruleOf = {"min", "nonalphamin", "regex"}
      /\ ruleOf["min"] = "minlength" /\ ruleOf["nonalphamin"] = "nonalphamin"
      /\ ruleOf["regex"] = "regex"
  OBVIOUS
<1> HIDE DEF param, min, nonAlpha, regex, ruleOf
<1>6. \A p, q \in given : ruleOf[p] = ruleOf[q] => p = q
  BY <1>5
<1>7. /\ DOMAIN Settings(a, e) = {ruleOf[p] : p \in given}
      /\ \A p \in given : Settings(a, e)[ruleOf[p]] = param[p]
  <2> HIDE DEF given
  <2> DEFINE set == {ruleOf[p] : p \in given}
             holder(r) == CHOOSE p \in given : ruleOf[p] = r
             f == [r \in set |-> param[holder(r)]]
  <2>1. Settings(a, e) = f
    BY <1>4
  <2>2. ASSUME NEW p \in given PROVE holder(ruleOf[p]) = p
    BY <1>6
  <2>3. \A p \in given : ruleOf[p] \in set
    OBVIOUS
  <2>4. DOMAIN f = set /\ \A r \in set : f[r] = param[holder(r)]
    <3> HIDE DEF set, holder
    <3> QED OBVIOUS
  <2> HIDE DEF f, holder
  <2> QED BY <2>1, <2>2, <2>3, <2>4
<1>8. \A p \in given : param[p] # Undefined
  BY DEF Truthy
<1>9. Allows(a, e, text) <=> \A p \in given : Passes(ruleOf[p], param[p], text)
  <2> HIDE DEF given
  <2> QED BY <1>7, <1>8 DEF Allows
<1>10. (\A p \in given : Passes(ruleOf[p], param[p], text)) <=>
         /\ Truthy(min) => Passes("minlength", min, text)
         /\ Truthy(nonAlpha) => Passes("nonalphamin", nonAlpha, text)
         /\ Truthy(regex) => Passes("regex", regex, text)
  BY <1>3, <1>5
<1>11. /\ Passes("minlength", min, text) <=> (text.length > 0 => text.length >= min)
       /\ Passes("nonalphamin", nonAlpha, text) <=>
            text.nonAlpha > 0 /\ text.nonAlpha >= nonAlpha
       /\ Passes("regex", regex, text) <=> (text.length > 0 => FullMatch(text))
  BY PassesEffect
<1> HIDE DEF given
<1>12. Allows(a, e, text) <=>
         /\ Truthy(min) => (text.length > 0 => text.length >= min)
         /\ Truthy(nonAlpha) => text.nonAlpha > 0 /\ text.nonAlpha >= nonAlpha
         /\ Truthy(regex) => (text.length > 0 => FullMatch(text))
  BY <1>9, <1>10, <1>11
<1> QED BY <1>12 DEF a, min, nonAlpha, regex


-----------------------------------------------------------------------------
(* What the attributes ask for, attribute by attribute.                    *)

\* The demands on a text that is not empty, but for the lists of types.
AsksForContent(e, text) ==
  LET Value(name, param) == Attr(e, <<name, param>>) IN
  /\ Has(e, "length") => Within(text.length, Value("length", "min"), Value("length", "max"))
  /\ Has(e, "minlength") =>
       (Truthy(Value("minlength", "min")) => text.length >= Value("minlength", "min"))
  /\ Has(e, "maxlength") =>
       (Truthy(Value("maxlength", "max")) => text.length <= Value("maxlength", "max"))
  /\ Has(e, "range") => Within(text.number, Value("range", "min"), Value("range", "max"))
  /\ Has(e, "password") =>
       /\ Truthy(Value("password", "min")) => text.length >= Value("password", "min")
       /\ Truthy(Value("password", "nonalphamin")) =>
            text.nonAlpha >= Value("password", "nonalphamin")
       /\ Truthy(Value("password", "regex")) => FullMatch(text)
  /\ Has(e, "regex") => (Truthy(Value("regex", "pattern")) => FullMatch(text))
  /\ \A f \in FormatRules : Has(e, f) => text.formatted

AsksFor(e, text) ==
  /\ AsksForContent(e, text)
  /\ \A key \in FileTypes : Has(e, key[1]) => (Truthy(Attr(e, key)) => text.formatted)

LEMMA GivenEffect ==
  ASSUME NEW e, NEW keys, NEW m
  PROVE  m \in Given(e, keys) <=>
           \E key \in keys : Has(e, key[1]) /\ Truthy(Attr(e, key)) /\ m = Attr(e, key)
  BY DEF Given

LEMMA MeetsByAttributes ==
  ASSUME NEW e, NEW text
  PROVE  MeetsAttributes(e, text) <=>
           /\ Has(e, "required") /\ e.type # "checkbox" => text.length > 0
           /\ text.length > 0 => AsksFor(e, text)
<1> DEFINE Asked(key) == Has(e, key[1]) /\ Truthy(Attr(e, key))
           lmin == <<"length", "min">>     lmax == <<"length", "max">>
           nmin == <<"minlength", "min">>  xmax == <<"maxlength", "max">>
           rmin == <<"range", "min">>      rmax == <<"range", "max">>
           pmin == <<"password", "min">>   palpha == <<"password", "nonalphamin">>
           pregex == <<"password", "regex">>
           regex == <<"regex", "pattern">>
<1>1. \A keys, m : m \in Given(e, keys) <=> \E key \in keys : Asked(key) /\ m = Attr(e, key)
  BY GivenEffect
<1>2. /\ Asked(lmin) <=> Has(e, "length") /\ Truthy(Attr(e, lmin))
      /\ Asked(lmax) <=> Has(e, "length") /\ Truthy(Attr(e, lmax))
      /\ Asked(nmin) <=> Has(e, "minlength") /\ Truthy(Attr(e, nmin))
      /\ Asked(xmax) <=> Has(e, "maxlength") /\ Truthy(Attr(e, xmax))
      /\ Asked(rmin) <=> Has(e, "range") /\ Truthy(Attr(e, rmin))
      /\ Asked(rmax) <=> Has(e, "range") /\ Truthy(Attr(e, rmax))
      /\ Asked(pmin) <=> Has(e, "password") /\ Truthy(Attr(e, pmin))
      /\ Asked(palpha) <=> Has(e, "password") /\ Truthy(Attr(e, palpha))
      /\ Asked(pregex) <=> Has(e, "password") /\ Truthy(Attr(e, pregex))
      /\ Asked(regex) <=> Has(e, "regex") /\ Truthy(Attr(e, regex))
  OBVIOUS
<1>3. AsksFor(e, text) <=>
        /\ Asked(lmin) => text.length >= Attr(e, lmin)
        /\ Asked(lmax) => text.length <= Attr(e, lmax)
        /\ Asked(nmin) => text.length >= Attr(e, nmin)
        /\ Asked(xmax) => text.length <= Attr(e, xmax)
        /\ Asked(rmin) => text.number >= Attr(e, rmin)
        /\ Asked(rmax) => text.number <= Attr(e, rmax)
        /\ Asked(pmin) => text.length >= Attr(e, pmin)
        /\ Asked(palpha) => text.nonAlpha >= Attr(e, palpha)
        /\ Asked(pregex) => FullMatch(text)
        /\ Asked(regex) => FullMatch(text)
        /\ \A f \in FormatRules : Has(e, f) => text.formatted
        /\ \A key \in FileTypes : Asked(key) => text.formatted
  BY DEF AsksFor, AsksForContent, Within
<1> HIDE DEF Asked, lmin, lmax, nmin, xmax, rmin, rmax, pmin, palpha, pregex, regex
<1>4. (\A m \in Given(e, {lmin, nmin, pmin}) : text.length >= m) <=>
        /\ Asked(lmin) => text.length >= Attr(e, lmin)
        /\ Asked(nmin) => text.length >= Attr(e, nmin)
        /\ Asked(pmin) => text.length >= Attr(e, pmin)
  BY <1>1
<1>5. (\A m \in Given(e, {lmax, xmax}) : text.length <= m) <=>
        /\ Asked(lmax) => text.length <= Attr(e, lmax)
        /\ Asked(xmax) => text.length <= Attr(e, xmax)
  BY <1>1
<1>6. /\ (\A m \in Given(e, {rmin}) : text.number >= m) <=>
           (Asked(rmin) => text.number >= Attr(e, rmin))
      /\ (\A m \in Given(e, {rmax}) : text.number <= m) <=>
           (Asked(rmax) => text.number <= Attr(e, rmax))
      /\ (\A m \in Given(e, {palpha}) : text.nonAlpha >= m) <=>
           (Asked(palpha) => text.nonAlpha >= Attr(e, palpha))
  <2>1. \A key, m : m \in Given(e, {key}) <=> Asked(key) /\ m = Attr(e, key)
    BY <1>1
  <2> QED BY <2>1
<1>7. Given(e, {regex, pregex}) # {} <=> Asked(regex) \/ Asked(pregex)
  BY <1>1
<1>8. Given(e, FileTypes) # {} <=> \E key \in FileTypes : Asked(key)
  BY <1>1
<1>9. MeetsAttributes(e, text) <=>
        /\ Has(e, "required") /\ e.type # "checkbox" => text.length > 0
        /\ text.length > 0 =>
             /\ \A m \in Given(e, {lmin, nmin, pmin}) : text.length >= m
             /\ \A m \in Given(e, {lmax, xmax}) : text.length <= m
             /\ \A m \in Given(e, {rmin}) : text.number >= m
             /\ \A m \in Given(e, {rmax}) : text.number <= m
             /\ \A m \in Given(e, {palpha}) : text.nonAlpha >= m
             /\ Given(e, {regex, pregex}) # {} => FullMatch(text)
             /\ \/ \E f \in FormatRules : Has(e, f)
                \/ Given(e, FileTypes) # {}
                => text.formatted
  BY DEF MeetsAttributes, lmin, lmax, nmin, xmax, rmin, rmax, pmin, palpha, pregex, regex
<1> QED BY <1>3, <1>4, <1>5, <1>6, <1>7, <1>8, <1>9

-----------------------------------------------------------------------------
(* The adapters enforce what the attributes ask for.                       *)

\* If the adapter applies, its rules allow the text.
Enforced(a, e, text) == Applies(a, e) => Allows(a, e, text)

LEMMA EnforcedIf ==
  ASSUME NEW e, NEW text
  PROVE  /\ \A n, p, r : Enforced(AddSingleVal(n, p, r), e, text) <=>
              (Has(e, n) => Allows(AddSingleVal(n, p, r), e, text))
         /\ \A n : Enforced(AddBool(n), e, text) <=> (Has(e, n) => Allows(AddBool(n), e, text))
         /\ \A n, p, q, r : Enforced(AddMinMax(n, p, q, r), e, text) <=>
              (Has(e, n) => Allows(AddMinMax(n, p, q, r), e, text))
         /\ \A n, p : Enforced(Add(n, p), e, text) <=>
              (Has(e, n) => Allows(Add(n, p), e, text))
<1>1. /\ \A n, p, r : AddSingleVal(n, p, r).name = n
      /\ \A n : AddBool(n).name = n
      /\ \A n, p, q, r : AddMinMax(n, p, q, r).name = n
      /\ \A n, p : Add(n, p).name = n
  BY DEF AddSingleVal, AddBool, AddMinMax, Add
<1>2. \A a : Enforced(a, e, text) <=> (Has(e, a.name) => Allows(a, e, text))
  BY DEF Enforced, Applies, Has
<1> QED BY <1>1, <1>2

\* A list of types is checked by the rule of its adapter, whatever that is called.
LEMMA FileTypesEnforced ==
  ASSUME NEW e \in Elements, NEW text \in Text
  PROVE  LET Asks(n, p) == Has(e, n) =>
                 (text.length > 0 => (Truthy(Attr(e, <<n, p>>)) => text.formatted))
         IN  /\ Enforced(AddSingleVal("accept", "mimtype", Undefined), e, text) <=>
                  Asks("accept", "mimtype")
             /\ Enforced(AddSingleVal("extension", "extension", Undefined), e, text) <=>
                  Asks("extension", "extension")
             /\ Enforced(AddSingleVal("extension", "extension", "accept"), e, text) <=>
                  Asks("extension", "extension")
             /\ Enforced(Add("fileextensions", {"extensions"}), e, text) <=>
                  Asks("fileextensions", "extensions")
<1> DEFINE mime == Attr(e, <<"accept", "mimtype">>)
           ext  == Attr(e, <<"extension", "extension">>)
           exts == Attr(e, <<"fileextensions", "extensions">>)
<1>1. /\ mime # Undefined <=> Truthy(mime)
      /\ ext # Undefined <=> Truthy(ext)
      /\ exts # Undefined <=> Truthy(exts)
  BY AdaptersAssumption DEF Rendered, Truthy
<1>2. /\ Truthy("mimtype") /\ Truthy("extension")
      /\ Or(Undefined, "accept") = "accept" /\ Or(Undefined, "extension") = "extension"
      /\ Or("accept", "extension") = "accept"
  BY AdaptersAssumption DEF Truthy, Or
<1>3. \A v, r : r \in {"accept", "extension"} =>
        (Passes(r, v, text) <=> (text.length > 0 => text.formatted))
  BY PassesEffect
<1>4. Allows(AddSingleVal("accept", "mimtype", Undefined), e, text) <=>
        (Truthy(mime) => (text.length > 0 => text.formatted))
  <2>1. Allows(AddSingleVal("accept", "mimtype", Undefined), e, text) <=>
          (mime # Undefined => Passes("accept", mime, text))
    BY <1>2, SingleValAllows
  <2> QED BY <1>1, <1>3, <2>1
<1>5. Allows(AddSingleVal("extension", "extension", Undefined), e, text) <=>
        (Truthy(ext) => (text.length > 0 => text.formatted))
  <2>1. Allows(AddSingleVal("extension", "extension", Undefined), e, text) <=>
          (ext # Undefined => Passes("extension", ext, text))
    BY <1>2, SingleValAllows
  <2> QED BY <1>1, <1>3, <2>1
<1>6. Allows(AddSingleVal("extension", "extension", "accept"), e, text) <=>
        (Truthy(ext) => (text.length > 0 => text.formatted))
  <2>1. Allows(AddSingleVal("extension", "extension", "accept"), e, text) <=>
          (ext # Undefined => Passes("accept", ext, text))
    BY <1>2, SingleValAllows
  <2> QED BY <1>1, <1>3, <2>1
<1>7. Allows(Add("fileextensions", {"extensions"}), e, text) <=>
        (Truthy(exts) => (text.length > 0 => text.formatted))
  BY <1>1, FileExtensionsAllow
<1> HIDE DEF mime, ext, exts
<1>8. /\ Enforced(AddSingleVal("accept", "mimtype", Undefined), e, text) <=>
           (Has(e, "accept") => (text.length > 0 => (Truthy(mime) => text.formatted)))
      /\ Enforced(AddSingleVal("extension", "extension", Undefined), e, text) <=>
           (Has(e, "extension") => (text.length > 0 => (Truthy(ext) => text.formatted)))
      /\ Enforced(AddSingleVal("extension", "extension", "accept"), e, text) <=>
           (Has(e, "extension") => (text.length > 0 => (Truthy(ext) => text.formatted)))
      /\ Enforced(Add("fileextensions", {"extensions"}), e, text) <=>
           (Has(e, "fileextensions") => (text.length > 0 => (Truthy(exts) => text.formatted)))
  BY <1>4, <1>5, <1>6, <1>7, EnforcedIf
<1> QED BY <1>8 DEF mime, ext, exts

\* The remaining adapters, one demand each.
LEMMA CommonEnforced ==
  ASSUME NEW e \in Elements, NEW text \in Text,
         ~(text.length = 0 /\ Given(e, {<<"password", "nonalphamin">>}) # {}),
         ~(OneBound(e, "range") /\ ~OrderedAsNumbers(e, text))
  PROVE  (\A a \in CommonAdapters : Enforced(a, e, text)) <=>
           /\ Has(e, "required") => (e.type # "checkbox" => text.length > 0)
           /\ text.length > 0 =>
                /\ AsksForContent(e, text)
                /\ Has(e, "fileextensions") =>
                     (Truthy(Attr(e, <<"fileextensions", "extensions">>)) => text.formatted)
<1> DEFINE Ok(a) == Enforced(a, e, text)
           regex     == AddSingleVal("regex", "pattern", Undefined)
           length    == AddMinMax("length", "minlength", "maxlength", "rangelength")
           range     == AddMinMax("range", "min", "max", "range")
           minlength == AddMinMax("minlength", "minlength", Undefined, Undefined)
           maxlength == AddMinMax("maxlength", "minlength", "maxlength", Undefined)
           equalto   == Add("equalto", {"other"})
           required  == Add("required", {})
           remote    == Add("remote", {"url", "type", "additionalfields"})
           password  == Add("password", {"min", "nonalphamin", "regex"})
           files     == Add("fileextensions", {"extensions"})
           filled    == text.length > 0
           min       == Attr(e, <<"password", "min">>)
           nonAlpha  == Attr(e, <<"password", "nonalphamin">>)
           pattern   == Attr(e, <<"password", "regex">>)
<1>1. (\A a \in CommonAdapters : Ok(a)) <=>
        /\ Ok(regex) /\ Ok(length) /\ Ok(range) /\ Ok(minlength) /\ Ok(maxlength)
        /\ Ok(equalto) /\ Ok(required) /\ Ok(remote) /\ Ok(password) /\ Ok(files)
        /\ \A n \in FormatRules : Ok(AddBool(n))
  <2> HIDE DEF Ok
  <2> QED BY DEF CommonAdapters, FormatRules
<1>2. Ok(required) <=> (Has(e, "required") => (e.type # "checkbox" => filled))
  BY EnforcedIf, RequiredAllows
<1>3. Ok(equalto) /\ Ok(remote)
  BY LookupsAllow DEF Enforced
<1>4. Ok(length) <=> (Has(e, "length") => (filled =>
        Within(text.length, Attr(e, <<"length", "min">>), Attr(e, <<"length", "max">>))))
  BY EnforcedIf, LengthAllows
<1>5. Ok(minlength) <=> (Has(e, "minlength") => (filled =>
        (Truthy(Attr(e, <<"minlength", "min">>)) =>
           text.length >= Attr(e, <<"minlength", "min">>))))
  BY EnforcedIf, MinLengthAllows
<1>6. Ok(maxlength) <=> (Has(e, "maxlength") => (filled =>
        (Truthy(Attr(e, <<"maxlength", "max">>)) =>
           text.length <= Attr(e, <<"maxlength", "max">>))))
  BY EnforcedIf, MaxLengthAllows
<1>7. Ok(range) <=> (Has(e, "range") => (filled =>
        Within(text.number, Attr(e, <<"range", "min">>), Attr(e, <<"range", "max">>))))
  BY EnforcedIf, RangeAllows
<1>8. Ok(files) <=> (Has(e, "fileextensions") => (filled =>
        (Truthy(Attr(e, <<"fileextensions", "extensions">>)) => text.formatted)))
  BY FileTypesEnforced
<1>9. \A n \in FormatRules : Ok(AddBool(n)) <=> (Has(e, n) => (filled => text.formatted))
  BY EnforcedIf, BoolAllows
<1>10. Ok(regex) <=> (Has(e, "regex") => (filled =>
         (Truthy(Attr(e, <<"regex", "pattern">>)) => FullMatch(text))))
  <2>1. Attr(e, <<"regex", "pattern">>) # Undefined <=> Truthy(Attr(e, <<"regex", "pattern">>))
    BY AdaptersAssumption DEF Rendered, Truthy
  <2>2. Truthy("pattern") /\ "regex" = Or(Undefined, "regex")
    BY AdaptersAssumption DEF Truthy, Or
  <2>3. Allows(regex, e, text) <=>
          (Attr(e, <<"regex", "pattern">>) # Undefined =>
             Passes("regex", Attr(e, <<"regex", "pattern">>), text))
    BY <2>2, SingleValAllows
  <2>4. Passes("regex", Attr(e, <<"regex", "pattern">>), text) <=> (filled => FullMatch(text))
    BY PassesEffect
  <2>5. Ok(regex) <=> (Has(e, "regex") => Allows(regex, e, text))
    BY EnforcedIf
  <2> QED BY <2>1, <2>3, <2>4, <2>5
<1>11. Ok(password) <=> (Has(e, "password") =>
         /\ Truthy(min) => (filled => text.length >= min)
         /\ Truthy(nonAlpha) => text.nonAlpha > 0 /\ text.nonAlpha >= nonAlpha
         /\ Truthy(pattern) => (filled => FullMatch(text)))
  BY EnforcedIf, PasswordAllows
<1>12. ASSUME Has(e, "password"), Truthy(nonAlpha)
       PROVE  /\ filled
              /\ text.nonAlpha > 0 /\ text.nonAlpha >= nonAlpha <=> text.nonAlpha >= nonAlpha
  <2>1. nonAlpha \in Nat \ {0}
    BY <1>12, AdaptersAssumption DEF Rendered
  <2>2. Given(e, {<<"password", "nonalphamin">>}) # {}
    BY <1>12 DEF Given
  <2>3. text.length # 0 /\ text.length \in Nat /\ text.nonAlpha \in Nat
    BY <2>2 DEF Text
  <2> HIDE DEF nonAlpha
  <2> QED BY <2>1, <2>3
<1>13. Ok(password) <=> (Has(e, "password") => (filled =>
         /\ Truthy(min) => text.length >= min
         /\ Truthy(nonAlpha) => text.nonAlpha >= nonAlpha
         /\ Truthy(pattern) => FullMatch(text)))
  <2> HIDE DEF Ok, password, filled, min, nonAlpha, pattern
  <2> QED BY <1>11, <1>12
<1> HIDE DEF Ok, regex, length, range, minlength, maxlength, equalto, required, remote,
             password, files
<1> QED BY <1>1, <1>2, <1>3, <1>4, <1>5, <1>6, <1>7, <1>8, <1>9, <1>10, <1>13
     DEF Ok, AsksForContent

LEMMA PageEnforces ==
  ASSUME NEW e \in Elements, NEW text \in Text,
         ~(text.length = 0 /\ Given(e, {<<"password", "nonalphamin">>}) # {}),
         ~(OneBound(e, "range") /\ ~OrderedAsNumbers(e, text))
  PROVE  (\A a \in PageAdapters : Enforced(a, e, text)) <=> MeetsAttributes(e, text)
<1> DEFINE Ok(a) == Enforced(a, e, text)
           accept == AddSingleVal("accept", "mimtype", Undefined)
           extension == AddSingleVal("extension", "extension", Undefined)
           oldExtension == AddSingleVal("extension", "extension", "accept")
           files == Add("fileextensions", {"extensions"})
           Asks(key) == Has(e, key[1]) => (Truthy(Attr(e, key)) => text.formatted)
<1>1. (\A a \in PageAdapters : Ok(a)) <=>
        /\ \A a \in CommonAdapters : Ok(a)
        /\ IF extensionMethod THEN Ok(accept) /\ Ok(extension) ELSE Ok(oldExtension)
  <2> HIDE DEF Ok
  <2> QED BY DEF PageAdapters
<1>2. /\ Ok(accept) <=> (text.length > 0 => Asks(<<"accept", "mimtype">>))
      /\ Ok(extension) <=> (text.length > 0 => Asks(<<"extension", "extension">>))
      /\ Ok(oldExtension) <=> (text.length > 0 => Asks(<<"extension", "extension">>))
  BY FileTypesEnforced
<1>3. (\A key \in FileTypes : Asks(key)) <=>
        /\ Asks(<<"extension", "extension">>) /\ Asks(<<"fileextensions", "extensions">>)
        /\ extensionMethod => Asks(<<"accept", "mimtype">>)
  <2> HIDE DEF Asks
  <2> QED BY DEF FileTypes
<1>4. Asks(<<"fileextensions", "extensions">>) <=>
        (Has(e, "fileextensions") =>
           (Truthy(Attr(e, <<"fileextensions", "extensions">>)) => text.formatted))
  OBVIOUS
<1>5. AsksFor(e, text) <=> AsksForContent(e, text) /\ \A key \in FileTypes : Asks(key)
  BY DEF AsksFor
<1> HIDE DEF Asks, accept, extension, oldExtension
<1>6. (\A a \in PageAdapters : Ok(a)) <=>
        /\ Has(e, "required") /\ e.type # "checkbox" => text.length > 0
        /\ text.length > 0 => AsksFor(e, text)
  BY <1>1, <1>2, <1>3, <1>4, <1>5, CommonEnforced
<1> QED BY <1>6, MeetsByAttributes

\* The rules of a field accept exactly the texts that its attributes ask for.
LEMMA RulesEnforce == TypeOK /\ RulesAreSet => EnforcesAttributes
<1> SUFFICES ASSUME TypeOK, RulesAreSet, Parsed, ~Colliding(element), NEW text \in Texts,
                    ~(text.length = 0 /\ Given(element, {<<"password", "nonalphamin">>}) # {}),
                    ~(OneBound(element, "range") /\ ~OrderedAsNumbers(element, text))
             PROVE  Accepts(text) <=> MeetsAttributes(element, text)
  BY DEF EnforcesAttributes
<1>1. text \in Text /\ element \in Elements
  BY AdaptersAssumption DEF TypeOK
<1>2. Accepts(text) <=> \A a \in PageAdapters : Enforced(a, element, text)
  BY AcceptsByAdapters DEF Enforced
<1> QED BY <1>1, <1>2, PageEnforces

-----------------------------------------------------------------------------
\* What a field's rules say at any time of parsing comes from its adapters: each
\* rule from one that has run (setValidationValues), and of each that has run, all
\* its rules are there.
THEOREM RulesAreFromAdapters == Spec => []RulesAreSet
<1>1. TypeOK /\ RulesAreSet /\ [Next]_vars => RulesAreSet'
  BY NextRules
<1> QED BY <1>1, InitRules, TypeCorrect, PTL DEF Spec

\* A parsed field accepts exactly what its data-val-* attributes ask for (parse),
\* except for the texts and the elements that EnforcesAttributes leaves out.
THEOREM AttributesAreEnforced == Spec => []EnforcesAttributes
<1>1. TypeOK /\ RulesAreSet => EnforcesAttributes
  BY RulesEnforce
<1> QED BY <1>1, TypeCorrect, RulesAreFromAdapters, PTL

=============================================================================
