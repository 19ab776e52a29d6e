----------------------- MODULE UnobtrusiveAdaptersProofs ------------------------
(***************************************************************************)
(* Proofs about UnobtrusiveAdapters for any elements, whatever adapters    *)
(* apply to them and whatever values their attributes have.                *)
(***************************************************************************)
EXTENDS UnobtrusiveAdapters, SequenceTheorems, TLAPS

-----------------------------------------------------------------------------
(* The registered adapters.                                                *)

\* Every adapter that is registered in some page.
Registered ==
  {AddSingleVal("accept", "mimtype", Undefined),
   AddSingleVal("extension", "extension", Undefined),
   AddSingleVal("extension", "extension", "accept"),
   AddSingleVal("regex", "pattern", Undefined),
   AddBool("creditcard"), AddBool("date"), AddBool("digits"),
   AddBool("email"), AddBool("number"), AddBool("url"),
   AddMinMax("length", "minlength", "maxlength", "rangelength"),
   AddMinMax("range", "min", "max", "range"),
   AddMinMax("minlength", "minlength", Undefined, Undefined),
   AddMinMax("maxlength", "minlength", "maxlength", Undefined),
   Add("equalto", {"other"}),
   Add("required", {}),
   Add("remote", {"url", "type", "additionalfields"}),
   Add("password", {"min", "nonalphamin", "regex"}),
   Add("fileextensions", {"extensions"})}

LEMMA AdaptersAreRegistered ==
  /\ Adapters \in Seq(Registered)
  /\ Len(Adapters) \in Nat
  /\ DOMAIN Adapters = 1 .. Len(Adapters)
  /\ \A i \in 1 .. Len(Adapters) : Adapters[i] \in Registered
<1>1. FileAdapters \in Seq(Registered)
  BY DEF FileAdapters, Registered
<1> DEFINE others ==
  <<AddSingleVal("regex", "pattern", Undefined),
    AddBool("creditcard"), AddBool("date"), AddBool("digits"),
    AddBool("email"), AddBool("number"), AddBool("url"),
    AddMinMax("length", "minlength", "maxlength", "rangelength"),
    AddMinMax("range", "min", "max", "range"),
    AddMinMax("minlength", "minlength", Undefined, Undefined),
    AddMinMax("maxlength", "minlength", "maxlength", Undefined),
    Add("equalto", {"other"}),
    Add("required", {}),
    Add("remote", {"url", "type", "additionalfields"}),
    Add("password", {"min", "nonalphamin", "regex"}),
    Add("fileextensions", {"extensions"})>>
<1>2. others \in Seq(Registered)
  BY DEF Registered
<1>3. Adapters = FileAdapters \o others
  BY DEF Adapters
<1> HIDE DEF others
<1>4. Adapters \in Seq(Registered)
  BY <1>1, <1>2, <1>3, ConcatProperties
<1> QED BY <1>4, LenProperties, ElementOfSeq

\* The rules that one adapter alone sets, or none.
Special == {"equalTo", "remote", "__dummy__"}

LEMMA RegisteredKinds ==
  ASSUME NEW a \in Registered
  PROVE  \/ a.kind = "bool" /\ a.rule \notin Special
         \/ a.kind = "singleVal" /\ a.rule \notin Special
         \/ /\ a.kind = "minMax"
            /\ a.minRule \notin Special /\ a.maxRule \notin Special
            /\ a.minMaxRule \notin Special
         \/ a.kind = "equalto" /\ a.name = "equalto" /\ a.params = {"other"}
         \/ a.kind = "required"
         \/ /\ a.kind = "remote" /\ a.name = "remote"
            /\ a.params = {"url", "type", "additionalfields"}
         \/ a.kind = "password"
         \/ a.kind = "fileextensions"
<1>1. ASSUME NEW n \in {"creditcard", "date", "digits", "email", "number", "url"},
             a = AddBool(n)
      PROVE  a.kind = "bool" /\ a.rule \notin Special
  BY <1>1 DEF AddBool, Special
<1>2. ASSUME NEW n \in {"accept", "extension", "regex"}, NEW p,
             NEW r \in {Undefined, "accept"}, a = AddSingleVal(n, p, r)
      PROVE  a.kind = "singleVal" /\ a.rule \notin Special
  BY <1>2 DEF AddSingleVal, Or, Truthy, Special
<1>3. ASSUME NEW n, NEW r \in {"minlength", "min"},
             NEW s \in {"maxlength", "max", Undefined},
             NEW t \in {"rangelength", "range", Undefined}, a = AddMinMax(n, r, s, t)
      PROVE  /\ a.kind = "minMax"
             /\ a.minRule \notin Special /\ a.maxRule \notin Special
             /\ a.minMaxRule \notin Special
  BY <1>3, AdaptersAssumption DEF Truthy, AddMinMax, Special
<1>4. ASSUME NEW n, NEW p, a = Add(n, p)
      PROVE  a.kind = n /\ a.name = n /\ a.params = p
  BY <1>4 DEF Add
<1> QED BY <1>1, <1>2, <1>3, <1>4 DEF Registered

-----------------------------------------------------------------------------
(* What the adapters set.                                                  *)

LEMMA SettingEffect ==
  ASSUME NEW r, NEW v
  PROVE  DOMAIN Setting(r, v) = {r} /\ Setting(r, v)[r] = v
  BY DEF Setting

LEMMA ReplacingEffect ==
  ASSUME NEW old, NEW new
  PROVE  /\ DOMAIN Replacing(old, new) = DOMAIN old \cup DOMAIN new
         /\ \A r \in DOMAIN new : Replacing(old, new)[r] = new[r]
         /\ \A r \in DOMAIN old \ DOMAIN new : Replacing(old, new)[r] = old[r]
  BY DEF Replacing

\* The parameters of the two adapters that look up other fields.
EqualToOther(e) == Attr(e, <<"equalto", "other">>)

RemoteParams(e) ==
  [p \in {"url", "type", "additionalfields"} |-> Attr(e, <<"remote", p>>)]

\* No adapter sets the rule __dummy__, and one each sets equalTo and remote.
LEMMA SettingsEffect ==
  ASSUME NEW a \in Registered, NEW e
  PROVE  /\ "__dummy__" \notin DOMAIN Settings(a, e)
         /\ "equalTo" \in DOMAIN Settings(a, e) =>
              /\ a.kind = "equalto"
              /\ Settings(a, e) = EqualToSettings(e, EqualToOther(e))
         /\ "remote" \in DOMAIN Settings(a, e) =>
              Settings(a, e) = RemoteSettings(e, RemoteParams(e))
<1> USE DEF Special
<1>1. ASSUME NEW r, NEW v, Settings(a, e) = Setting(r, v), r \notin Special
      PROVE  DOMAIN Settings(a, e) \cap Special = {}
  <2>1. DOMAIN Settings(a, e) = {r}
    BY <1>1, SettingEffect
  <2> QED BY <1>1, <2>1
<1>2. CASE a.kind = "bool" /\ a.rule \notin Special
  BY <1>1, <1>2 DEF Settings
<1>3. CASE a.kind = "singleVal" /\ a.rule \notin Special
  <2>1. \E v : Settings(a, e) = Setting(a.rule, v)
    BY <1>3 DEF Settings
  <2> QED BY <1>1, <1>3, <2>1
<1>4. CASE /\ a.kind = "minMax"
           /\ a.minRule \notin Special /\ a.maxRule \notin Special
           /\ a.minMaxRule \notin Special
  <2>1. \E min, max : Settings(a, e) = MinMaxSettings(a, min, max)
    BY <1>4 DEF Settings
  <2>2. \/ Settings(a, e) = NoSettings
        \/ \E r \in {a.minRule, a.maxRule, a.minMaxRule} :
             \E v : Settings(a, e) = Setting(r, v)
    BY <2>1 DEF MinMaxSettings
  <2>3. DOMAIN NoSettings = {}
    BY DEF NoSettings
  <2> QED BY <1>1, <1>4, <2>2, <2>3
<1>5. CASE a.kind = "equalto" /\ a.name = "equalto" /\ a.params = {"other"}
  <2>1. ParamValues(a, e) = [p \in {"other"} |-> Attr(e, <<"equalto", p>>)]
    BY <1>5 DEF ParamValues
  <2>2. Settings(a, e) = EqualToSettings(e, EqualToOther(e))
    BY <1>5, <2>1 DEF Settings, EqualToOther
  <2>3. DOMAIN EqualToSettings(e, EqualToOther(e)) = {"equalTo"}
    BY SettingEffect DEF EqualToSettings
  <2> QED BY <1>5, <2>2, <2>3
<1>6. CASE a.kind = "required"
  <2>1. \/ Settings(a, e) = NoSettings
        \/ Settings(a, e) = Setting("required", TRUE)
    BY <1>6 DEF Settings, RequiredSettings
  <2> QED BY <1>1, <2>1 DEF NoSettings
<1>7. CASE /\ a.kind = "remote" /\ a.name = "remote"
           /\ a.params = {"url", "type", "additionalfields"}
  <2>1. ParamValues(a, e) = RemoteParams(e)
    BY <1>7 DEF ParamValues, RemoteParams
  <2>2. Settings(a, e) = RemoteSettings(e, RemoteParams(e))
    BY <1>7, <2>1 DEF Settings
  <2>3. DOMAIN RemoteSettings(e, RemoteParams(e)) = {"remote"}
    BY SettingEffect DEF RemoteSettings
  <2> QED BY <2>2, <2>3
<1>8. CASE a.kind = "password"
  <2>1. Settings(a, e) = PasswordSettings(ParamValues(a, e))
    BY <1>8 DEF Settings
  <2>2. DOMAIN Settings(a, e) \subseteq {"minlength", "nonalphamin", "regex"}
    BY <2>1 DEF PasswordSettings
  <2> QED BY <2>2
<1>9. CASE a.kind = "fileextensions"
  <2>1. \E v : Settings(a, e) = Setting("extension", v)
    BY <1>9 DEF Settings
  <2> QED BY <1>1, <2>1
<1> QED BY <1>2, <1>3, <1>4, <1>5, <1>6, <1>7, <1>8, <1>9, RegisteredKinds

-----------------------------------------------------------------------------
(* The inductive invariant.                                                *)

\* The adapters that have set a rule.
Setters(r) ==
  {i \in Applied(element) : i < index /\ r \in DOMAIN Settings(Adapters[i], element)}

\* A message is some adapter's, and never that of the rule for every field.
MessagesAreGiven == \A r \in DOMAIN messages : Setters(r) # {}

\* The rules about other fields are as their one adapter set them.
LookupsAsSet ==
  /\ "equalTo" \in DOMAIN rules =>
       /\ EqualToOther(element) # Undefined
       /\ rules["equalTo"] = EqualToSettings(element, EqualToOther(element))["equalTo"]
  /\ "remote" \in DOMAIN rules =>
       rules["remote"] = RemoteSettings(element, RemoteParams(element))["remote"]

IInv == TypeOK /\ MessagesAreGiven /\ MessageFitsRule /\ LookupsAsSet

LEMMA InitInvariant == Init => IInv
<1> SUFFICES ASSUME Init PROVE IInv
  OBVIOUS
<1>1. DOMAIN rules = {} /\ DOMAIN messages = {}
  BY DEF Init, NoSettings
<1>2. TypeOK
  <2>1. index \in 1 .. Len(Adapters) + 2
    BY AdaptersAreRegistered DEF Init
  <2> QED BY <1>1, <2>1 DEF Init, TypeOK
<1> QED BY <1>1, <1>2 DEF IInv, MessagesAreGiven, MessageFitsRule, LookupsAsSet

\* The adapter that runs, and what it leaves behind.
LEMMA RunAdapterEffect ==
  ASSUME TypeOK, RunAdapter
  PROVE  /\ index \in 1 .. Len(Adapters) /\ index \in Applied(element)
         /\ Adapters[index] \in Registered
         /\ ~Throws(Adapters[index], element)
         /\ rules' = Replacing(rules, Settings(Adapters[index], element))
         /\ LET message == Attr(element, <<Adapters[index].name>>) IN
              messages' = IF Truthy(message)
                          THEN Replacing(messages,
                                 [r \in DOMAIN Settings(Adapters[index], element) |-> message])
                          ELSE messages
<1>1. index \in 1 .. Len(Adapters)
  BY AdaptersAreRegistered DEF TypeOK, RunAdapter, Parsing
<1> QED BY <1>1, AdaptersAreRegistered DEF RunAdapter, setValidationValues, Applied

LEMMA SameAdapters ==
  ASSUME UNCHANGED extensionMethod PROVE Adapters' = Adapters
  BY DEF Adapters, FileAdapters

LEMMA IndexStep ==
  ASSUME TypeOK, [Next]_vars PROVE index' \in 1 .. Len(Adapters) + 2
<1>1. Len(Adapters) \in Nat /\ index \in 1 .. Len(Adapters) + 2
  BY AdaptersAreRegistered DEF TypeOK
<1>2. CASE UNCHANGED index
  BY <1>1, <1>2
<1>3. CASE index' = index + 1 /\ (index <= Len(Adapters) \/ index = Len(Adapters) + 1)
  BY <1>1, <1>3
<1> QED BY <1>2, <1>3 DEF Next, RunAdapter, SkipAdapter, AdapterThrows, EndParse,
                          Parsing, vars

LEMMA TypeStep ==
  ASSUME TypeOK, [Next]_vars PROVE TypeOK'
<1>1. /\ UNCHANGED <<extensionMethod, element>> /\ Adapters' = Adapters
      /\ index' \in 1 .. Len(Adapters') + 2
  BY SameAdapters, IndexStep DEF Next, RunAdapter, SkipAdapter, AdapterThrows, EndParse,
                                 vars
<1>2. DOMAIN messages' \subseteq DOMAIN rules'
  <2>1. CASE RunAdapter
    <3> DEFINE s == Settings(Adapters[index], element)
               message == Attr(element, <<Adapters[index].name>>)
    <3>1. DOMAIN rules' = DOMAIN rules \cup DOMAIN s
      BY <2>1, RunAdapterEffect, ReplacingEffect
    <3>2. DOMAIN messages' \subseteq DOMAIN messages \cup DOMAIN s
      BY <2>1, RunAdapterEffect, ReplacingEffect
    <3> QED BY <3>1, <3>2 DEF TypeOK
  <2>2. CASE EndParse
    <3>1. DOMAIN rules' = DOMAIN rules \cup DOMAIN Setting("__dummy__", TRUE)
      BY <2>2, ReplacingEffect DEF EndParse
    <3> QED BY <2>2, <3>1 DEF EndParse, TypeOK
  <2>3. CASE UNCHANGED <<rules, messages>>
    BY <2>3 DEF TypeOK
  <2> QED BY <2>1, <2>2, <2>3 DEF Next, SkipAdapter, AdapterThrows, vars
<1>3. thrown' \in BOOLEAN /\ (thrown' => Has(element, "equalto"))
  <2>1. CASE AdapterThrows
    <3>1. index \in 1 .. Len(Adapters)
      BY <2>1, AdaptersAreRegistered DEF TypeOK, AdapterThrows, Parsing
    <3>2. Adapters[index] \in Registered /\ Adapters[index].kind = "equalto"
      BY <2>1, <3>1, AdaptersAreRegistered DEF AdapterThrows, Throws
    <3>3. Adapters[index].name = "equalto"
      BY <3>2, RegisteredKinds
    <3> QED BY <2>1, <3>3 DEF AdapterThrows, Applies, Has
  <2>2. CASE UNCHANGED thrown
    BY <2>2 DEF TypeOK
  <2> QED BY <2>1, <2>2 DEF Next, RunAdapter, SkipAdapter, EndParse, vars
<1>4. Has(element, "equalto")' <=> Has(element, "equalto")
  BY <1>1 DEF Has, Attr
<1>5. element' \in Elements /\ extensionMethod' \in BOOLEAN
  BY <1>1 DEF TypeOK
<1> QED BY <1>1, <1>2, <1>3, <1>4, <1>5 DEF TypeOK

\* What the property says of one rule.
FitsRule(r) ==
  (\A i \in Setters(r) : Truthy(Attr(element, <<Adapters[i].name>>))) =>
    \E i \in Setters(r) : /\ messages[r] = Attr(element, <<Adapters[i].name>>)
                          /\ rules[r] = Settings(Adapters[i], element)[r]

LEMMA FitsEachRule == MessageFitsRule <=> \A r \in DOMAIN messages : FitsRule(r)
  BY DEF MessageFitsRule, FitsRule, Setters

\* Adapters only become setters of a rule by running.
LEMMA SettersGrow ==
  ASSUME TypeOK, UNCHANGED <<element, extensionMethod>>, index' = index + 1, NEW r
  PROVE  /\ Adapters' = Adapters
         /\ Setters(r)' = Setters(r) \cup
              {i \in Applied(element) \cap {index} :
                 r \in DOMAIN Settings(Adapters[i], element)}
<1>1. Adapters' = Adapters
  BY SameAdapters
<1>2. \A i \in Applied(element) : i \in Nat
  BY AdaptersAreRegistered DEF Applied
<1>3. Applied(element)' = Applied(element)
  BY <1>1 DEF Applied, Applies, Attr
<1>4. \A i \in Applied(element) : i < index + 1 <=> i < index \/ i = index
  BY <1>2, AdaptersAreRegistered DEF TypeOK
<1> QED BY <1>1, <1>3, <1>4 DEF Setters

LEMMA RunAdapterInvariant ==
  ASSUME IInv, RunAdapter
  PROVE  MessagesAreGiven' /\ MessageFitsRule' /\ LookupsAsSet'
<1> DEFINE a == Adapters[index]
           s == Settings(a, element)
           message == Attr(element, <<a.name>>)
<1>1. TypeOK /\ UNCHANGED <<element, extensionMethod>> /\ index' = index + 1
  BY DEF IInv, RunAdapter
<1>2. /\ index \in Applied(element) /\ a \in Registered /\ ~Throws(a, element)
      /\ rules' = Replacing(rules, s)
      /\ messages' = IF Truthy(message)
                     THEN Replacing(messages, [r \in DOMAIN s |-> message]) ELSE messages
  BY <1>1, RunAdapterEffect
<1>3. Adapters' = Adapters
  BY <1>1, SettersGrow
<1>4. \A r : Setters(r)' = IF r \in DOMAIN s THEN Setters(r) \cup {index} ELSE Setters(r)
  BY <1>1, <1>2, SettersGrow
<1> HIDE DEF a, s, message
<1>5. /\ DOMAIN messages' \subseteq DOMAIN messages \cup DOMAIN s
      /\ \A r \in DOMAIN s : /\ rules'[r] = s[r]
                             /\ Truthy(message) => messages'[r] = message
      /\ \A r \in DOMAIN messages \ DOMAIN s : messages'[r] = messages[r]
      /\ \A r \in DOMAIN rules \ DOMAIN s : rules'[r] = rules[r]
      /\ DOMAIN rules' = DOMAIN rules \cup DOMAIN s
  <2>1. /\ \A r \in DOMAIN s : rules'[r] = s[r]
        /\ \A r \in DOMAIN rules \ DOMAIN s : rules'[r] = rules[r]
        /\ DOMAIN rules' = DOMAIN rules \cup DOMAIN s
    <3>1. /\ DOMAIN Replacing(rules, s) = DOMAIN rules \cup DOMAIN s
          /\ \A r \in DOMAIN s : Replacing(rules, s)[r] = s[r]
          /\ \A r \in DOMAIN rules \ DOMAIN s : Replacing(rules, s)[r] = rules[r]
      BY ReplacingEffect
    <3>2. rules' = Replacing(rules, s)
      BY <1>2
    <3> QED BY <3>1, <3>2
  <2> DEFINE given == [r \in DOMAIN s |-> message]
  <2>2. DOMAIN given = DOMAIN s /\ \A r \in DOMAIN s : given[r] = message
    OBVIOUS
  <2>3. messages' = IF Truthy(message) THEN Replacing(messages, given) ELSE messages
    BY <1>2
  <2> HIDE DEF given
  <2>4. CASE Truthy(message)
    <3>1. /\ DOMAIN messages' = DOMAIN messages \cup DOMAIN given
          /\ \A r \in DOMAIN given : messages'[r] = given[r]
          /\ \A r \in DOMAIN messages \ DOMAIN given : messages'[r] = messages[r]
      <4>1. /\ DOMAIN Replacing(messages, given) = DOMAIN messages \cup DOMAIN given
            /\ \A r \in DOMAIN given : Replacing(messages, given)[r] = given[r]
            /\ \A r \in DOMAIN messages \ DOMAIN given :
                 Replacing(messages, given)[r] = messages[r]
        BY ReplacingEffect
      <4>2. messages' = Replacing(messages, given)
        BY <2>3, <2>4
      <4> QED BY <4>1, <4>2
    <3> QED BY <2>1, <2>2, <3>1
  <2>5. CASE ~Truthy(message)
    BY <2>1, <2>3, <2>5
  <2> QED BY <2>4, <2>5
<1>6. MessagesAreGiven'
  BY <1>4, <1>5 DEF IInv, MessagesAreGiven
<1>7. ASSUME NEW r \in DOMAIN messages' PROVE FitsRule(r)'
  <2>1. CASE r \in DOMAIN s
    <3>1. index \in Setters(r)'
      BY <1>4, <2>1
    <3>2. s[r] = Settings(Adapters[index], element)[r]
          /\ message = Attr(element, <<Adapters[index].name>>)
      BY DEF s, a, message
    <3>3. /\ Settings(Adapters[index], element)' = Settings(Adapters[index], element)'
          /\ \A i : Attr(element', <<Adapters'[i].name>>) = Attr(element, <<Adapters[i].name>>)
          /\ \A i : Settings(Adapters'[i], element') = Settings(Adapters[i], element)
      BY <1>1, <1>3
    <3> QED BY <1>5, <2>1, <3>1, <3>2, <3>3 DEF FitsRule
  <2>2. CASE r \notin DOMAIN s
    <3>1. r \in DOMAIN messages /\ r \in DOMAIN rules /\ Setters(r)' = Setters(r)
      BY <1>1, <1>4, <1>5, <2>2 DEF TypeOK
    <3>2. messages'[r] = messages[r] /\ rules'[r] = rules[r]
      BY <1>5, <2>2, <3>1
    <3>3. FitsRule(r)
      BY <3>1, FitsEachRule DEF IInv
    <3> QED BY <1>1, <1>3, <3>1, <3>2, <3>3 DEF FitsRule
  <2> QED BY <2>1, <2>2
<1>8. MessageFitsRule'
  BY <1>7 DEF MessageFitsRule, FitsRule, Setters
<1>9. LookupsAsSet'
  <2>1. /\ "equalTo" \in DOMAIN s =>
             a.kind = "equalto" /\ s = EqualToSettings(element, EqualToOther(element))
        /\ "remote" \in DOMAIN s => s = RemoteSettings(element, RemoteParams(element))
    BY <1>2, SettingsEffect DEF s
  <2>2. "equalTo" \in DOMAIN s => EqualToOther(element) # Undefined
    BY <1>2, <2>1 DEF Throws, EqualToOther
  <2> QED BY <1>1, <1>5, <2>1, <2>2 DEF IInv, LookupsAsSet
<1> QED BY <1>6, <1>8, <1>9

LEMMA EndParseInvariant ==
  ASSUME IInv, EndParse
  PROVE  MessagesAreGiven' /\ MessageFitsRule' /\ LookupsAsSet'
<1>1. /\ TypeOK /\ UNCHANGED <<element, extensionMethod, messages>>
      /\ index = Len(Adapters) + 1 /\ index' = index + 1
      /\ rules' = Replacing(rules, Setting("__dummy__", TRUE))
  BY DEF IInv, EndParse
<1>2. index \notin Applied(element)
  BY <1>1, AdaptersAreRegistered DEF Applied
<1>3. Adapters' = Adapters /\ \A r : Setters(r)' = Setters(r)
  BY <1>1, <1>2, SettersGrow
<1>4. /\ DOMAIN rules' = DOMAIN rules \cup {"__dummy__"}
      /\ \A r \in DOMAIN rules : r # "__dummy__" => rules'[r] = rules[r]
  <2> DEFINE dummy == Setting("__dummy__", TRUE)
  <2>1. DOMAIN dummy = {"__dummy__"}
    BY SettingEffect
  <2>2. rules' = Replacing(rules, dummy)
    BY <1>1
  <2> HIDE DEF dummy
  <2>3. /\ DOMAIN rules' = DOMAIN rules \cup DOMAIN dummy
        /\ \A r \in DOMAIN rules \ DOMAIN dummy : rules'[r] = rules[r]
    BY <2>2, ReplacingEffect
  <2> QED BY <2>1, <2>3
<1>5. "__dummy__" \notin DOMAIN messages
  <2>1. ASSUME NEW i \in Applied(element)
        PROVE  "__dummy__" \notin DOMAIN Settings(Adapters[i], element)
    BY AdaptersAreRegistered, SettingsEffect DEF Applied
  <2> QED BY <2>1 DEF IInv, MessagesAreGiven, Setters
<1>6. MessagesAreGiven'
  BY <1>1, <1>3 DEF IInv, MessagesAreGiven
<1>7. ASSUME NEW r \in DOMAIN messages' PROVE FitsRule(r)'
  <2>1. r \in DOMAIN messages /\ rules'[r] = rules[r]
    BY <1>1, <1>4, <1>5 DEF TypeOK
  <2>2. FitsRule(r)
    BY <2>1, FitsEachRule DEF IInv
  <2> QED BY <1>1, <1>3, <2>1, <2>2 DEF FitsRule
<1>8. MessageFitsRule'
  BY <1>7 DEF MessageFitsRule, FitsRule, Setters
<1>9. LookupsAsSet'
  BY <1>1, <1>4 DEF IInv, LookupsAsSet
<1> QED BY <1>6, <1>8, <1>9

LEMMA NextInvariant == IInv /\ [Next]_vars => IInv'
<1> SUFFICES ASSUME IInv, [Next]_vars PROVE IInv'
  OBVIOUS
<1>1. TypeOK /\ TypeOK'
  BY TypeStep DEF IInv
<1>2. CASE RunAdapter
  BY <1>1, <1>2, RunAdapterInvariant DEF IInv
<1>3. CASE EndParse
  BY <1>1, <1>3, EndParseInvariant DEF IInv
<1>4. CASE SkipAdapter \/ AdapterThrows \/ UNCHANGED vars
  <2>1. UNCHANGED <<element, extensionMethod, messages, rules>>
    BY <1>4 DEF SkipAdapter, AdapterThrows, vars
  <2>2. Adapters' = Adapters
    BY <2>1, SameAdapters
  <2>3. \A r : Setters(r)' = Setters(r)
    <3>1. CASE index' = index
      BY <2>1, <2>2, <3>1 DEF Setters, Applied, Applies, Attr
    <3>2. CASE SkipAdapter
      <4>1. index \notin Applied(element) /\ index' = index + 1
        BY <3>2 DEF SkipAdapter, Applied
      <4> QED BY <1>1, <2>1, <4>1, SettersGrow
    <3> QED BY <1>4, <3>1, <3>2 DEF AdapterThrows, vars
  <2>4. MessagesAreGiven'
    BY <2>1, <2>3 DEF IInv, MessagesAreGiven
  <2>5. ASSUME NEW r \in DOMAIN messages' PROVE FitsRule(r)'
    <3>1. FitsRule(r)
      BY <2>1, FitsEachRule DEF IInv
    <3> QED BY <2>1, <2>2, <2>3, <3>1 DEF FitsRule
  <2>6. MessageFitsRule'
    BY <2>5 DEF MessageFitsRule, FitsRule, Setters
  <2>7. LookupsAsSet'
    BY <2>1 DEF IInv, LookupsAsSet
  <2> QED BY <1>1, <2>4, <2>6, <2>7 DEF IInv
<1> QED BY <1>2, <1>3, <1>4 DEF Next

-----------------------------------------------------------------------------
(* The names that "*." stands for.                                         *)

\* Taking the model's prefix and adding the property names the field of the model.
LEMMA SameModel ==
  ASSUME NEW e \in Elements, NEW other, Reference(other), other[1] = "*"
  PROVE  Siblings(e, other[2]) =
           FormNames \cap {appendModelPrefix(other, getModelPrefix(e.name))}
<1> DEFINE n == e.name
           prefix == getModelPrefix(n)
           full == prefix \o Tail(other)
           k == Len(n)
<1>1. /\ n \in Seq(STRING) /\ n # <<>> /\ other \in Seq(STRING) /\ other # <<>>
      /\ Len(other) = 2
  BY AdaptersAssumption DEF Reference, Rendered
<1>2. k \in Nat \ {0}
  BY <1>1, EmptySeq
<1>3. \A i \in 1 .. k : n[i] \in STRING
  BY <1>1, ElementOfSeq
<1>4. appendModelPrefix(other, prefix) = full
  BY <1>1 DEF appendModelPrefix
<1> HIDE DEF k
<1>5. /\ prefix \in Seq(STRING) /\ Len(prefix) = k - 1
      /\ \A i \in 1 .. k - 1 : prefix[i] = n[i]
  <2>1. prefix = SubSeq(n, 1, k - 1)
    BY DEF k, getModelPrefix
  <2>2. 1 \in Int /\ k - 1 \in Int /\ \A i \in 1 .. k - 1 : n[i] \in STRING
    BY <1>2, <1>3
  <2>3. /\ SubSeq(n, 1, k - 1) \in Seq(STRING)
        /\ Len(SubSeq(n, 1, k - 1)) = IF 1 <= k - 1 THEN (k - 1) - 1 + 1 ELSE 0
        /\ \A i \in 1 .. (k - 1) - 1 + 1 : SubSeq(n, 1, k - 1)[i] = n[1 + i - 1]
    BY <2>2, SubSeqProperties
  <2> HIDE DEF prefix
  <2>4. (IF 1 <= k - 1 THEN (k - 1) - 1 + 1 ELSE 0) = k - 1
    BY <1>2
  <2>5. \A i \in 1 .. k - 1 : i \in 1 .. (k - 1) - 1 + 1 /\ 1 + i - 1 = i
    BY <1>2
  <2> QED BY <2>1, <2>3, <2>4, <2>5
<1>6. /\ Tail(other) \in Seq(STRING) /\ Len(Tail(other)) = 1
      /\ Tail(other)[1] = other[2]
  <2>1. /\ Tail(other) \in Seq(STRING) /\ Len(Tail(other)) = Len(other) - 1
        /\ \A i \in 1 .. Len(Tail(other)) : Tail(other)[i] = other[i + 1]
    BY <1>1, HeadTailProperties
  <2>2. Len(Tail(other)) = 1
    BY <1>1, <2>1
  <2>3. 1 \in 1 .. 1 /\ 1 + 1 = 2
    OBVIOUS
  <2> QED BY <2>1, <2>2, <2>3
<1> HIDE DEF prefix
<1>7. /\ full \in Seq(STRING) /\ Len(full) = k
      /\ full[k] = other[2] /\ \A i \in 1 .. k - 1 : full[i] = n[i]
  <2>1. /\ full \in Seq(STRING) /\ Len(full) = Len(prefix) + Len(Tail(other))
        /\ \A i \in 1 .. Len(prefix) + Len(Tail(other)) :
             full[i] = IF i <= Len(prefix) THEN prefix[i] ELSE Tail(other)[i - Len(prefix)]
    BY <1>5, <1>6, ConcatProperties
  <2> HIDE DEF full
  <2>2. /\ Len(full) = k - 1 + 1
        /\ \A i \in 1 .. k - 1 + 1 :
             full[i] = IF i <= k - 1 THEN prefix[i] ELSE Tail(other)[i - (k - 1)]
    BY <1>5, <1>6, <2>1
  <2>3. Len(full) = k /\ k \in 1 .. k - 1 + 1 /\ ~(k <= k - 1) /\ k - (k - 1) = 1
    BY <1>2, <2>2
  <2>4. full[k] = other[2]
    BY <1>6, <2>2, <2>3
  <2>5. \A i \in 1 .. k - 1 : i \in 1 .. k - 1 + 1 /\ i <= k - 1
    BY <1>2
  <2> QED BY <1>5, <2>1, <2>2, <2>3, <2>4, <2>5
<1> HIDE DEF full
<1>8. ASSUME NEW m \in FormNames
      PROVE  m = full <=> /\ Len(m) = k /\ m[Len(m)] = other[2]
                          /\ \A i \in 1 .. Len(m) - 1 : m[i] = n[i]
  <2>1. m \in Seq(STRING)
    BY AdaptersAssumption
  <2>2. ASSUME Len(m) = k, m[k] = other[2], \A i \in 1 .. k - 1 : m[i] = n[i]
        PROVE  m = full
    <3>1. \A i \in 1 .. k : i = k \/ i \in 1 .. k - 1
      BY <1>2
    <3>2. \A i \in 1 .. Len(m) : m[i] = full[i]
      BY <1>7, <2>2, <3>1
    <3> QED BY <1>7, <2>1, <2>2, <3>2, SeqEqual
  <2> QED BY <1>7, <2>2
<1>9. Siblings(e, other[2]) =
        {m \in FormNames : /\ Len(m) = k /\ m[Len(m)] = other[2]
                           /\ \A i \in 1 .. Len(m) - 1 : m[i] = n[i]}
  BY DEF Siblings, k
<1>10. Siblings(e, other[2]) = FormNames \cap {full}
  BY <1>8, <1>9
<1> QED BY <1>4, <1>10 DEF prefix

-----------------------------------------------------------------------------
(* The theorems.                                                           *)

\* The inductive invariant holds throughout the parsing of any element.
THEOREM Invariant == Spec => []IInv
<1> QED BY InitInvariant, NextInvariant, PTL DEF Spec

\* Only rules that exist have messages, and only an equalto adapter throws.
THEOREM TypeCorrect == Spec => []TypeOK
<1>1. IInv => TypeOK
  BY DEF IInv
<1> QED BY <1>1, Invariant, PTL

\* Whichever adapters of an element share a rule, and in whatever pairs their
\* attributes come, the message of the rule is the one given with the value that
\* is enforced, if all of them have a message.
THEOREM MessagesFitRules == Spec => []MessageFitsRule
<1>1. IInv => MessageFitsRule
  BY DEF IInv
<1> QED BY <1>1, Invariant, PTL

\* Through any nesting of models, "*." stands for the element's own model: equalTo
\* compares with the field of that name in it, and remote sends that field along.
THEOREM FindsFieldsOfModel == Spec => []FieldsOfSameModel
<1>1. IInv => FieldsOfSameModel
  <2> SUFFICES ASSUME IInv PROVE FieldsOfSameModel
    OBVIOUS
  <2> DEFINE prefix == getModelPrefix(element.name)
  <2>1. element \in Elements
    BY DEF IInv, TypeOK
  <2>2. ASSUME "equalTo" \in DOMAIN rules, EqualToOther(element)[1] = "*"
        PROVE  {rules["equalTo"]} \ {Undefined}
                 = Siblings(element, EqualToOther(element)[2])
    <3> DEFINE name == appendModelPrefix(EqualToOther(element), prefix)
    <3>1. Reference(EqualToOther(element))
      BY <2>1, <2>2, AdaptersAssumption DEF IInv, LookupsAsSet, EqualToOther, Rendered
    <3>2. Siblings(element, EqualToOther(element)[2]) = FormNames \cap {name}
      BY <2>1, <2>2, <3>1, SameModel
    <3>3. rules["equalTo"] = IF name \in FormNames THEN name ELSE Undefined
      BY <2>2, SettingEffect DEF IInv, LookupsAsSet, EqualToSettings
    <3> QED BY <3>2, <3>3, AdaptersAssumption
  <2> DEFINE fields == Attr(element, <<"remote", "additionalfields">>)
  <2>3. ASSUME "remote" \in DOMAIN rules, Truthy(fields), NEW i \in DOMAIN fields,
               fields[i][1] = "*"
        PROVE  Siblings(element, fields[i][2]) \subseteq rules["remote"].data
    <3>1. Reference(fields[i])
      BY <2>1, <2>3, AdaptersAssumption DEF Rendered
    <3>2. Siblings(element, fields[i][2])
            = FormNames \cap {appendModelPrefix(fields[i], prefix)}
      BY <2>1, <2>3, <3>1, SameModel
    <3>3. RemoteParams(element)["additionalfields"] = fields
      BY DEF RemoteParams
    <3> HIDE DEF fields
    <3>4. rules["remote"].data = {appendModelPrefix(fields[j], prefix) : j \in DOMAIN fields}
      <4> DEFINE param == RemoteParams(element)
                 names == {appendModelPrefix(fields[j], prefix) : j \in DOMAIN fields}
                 request == [url |-> param["url"], type |-> Or(param["type"], "GET"),
                             data |-> names]
      <4>1. Or(param["additionalfields"], <<element.name>>) = fields
        BY <2>3, <3>3 DEF Or
      <4>2. RemoteSettings(element, param) = Setting("remote", request)
        BY <4>1 DEF RemoteSettings
      <4>3. RemoteSettings(element, param)["remote"] = request
        <5> HIDE DEF request
        <5> QED BY <4>2, SettingEffect
      <4>4. request.data = names
        OBVIOUS
      <4>5. rules["remote"] = RemoteSettings(element, param)["remote"]
        BY <2>3 DEF IInv, LookupsAsSet
      <4> QED BY <4>3, <4>4, <4>5
    <3> QED BY <2>3, <3>2, <3>4
  <2> QED BY <2>2, <2>3 DEF FieldsOfSameModel, EqualToOther
<1> QED BY <1>1, Invariant, PTL

=============================================================================
