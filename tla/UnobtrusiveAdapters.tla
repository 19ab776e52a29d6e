-------------------------- MODULE UnobtrusiveAdapters --------------------------
(***************************************************************************)
(* What jquery.validate.unobtrusive makes of one form field: parseElement  *)
(* runs the registered adapters in order, each of which translates its     *)
(* data-val-* attributes into rules and messages of jQuery Validate.       *)
(*                                                                         *)
(* An element is a record of its name, its type and its attributes. A name *)
(* is the sequence of its dotted parts. The attribute data-val-A has the   *)
(* key <<"A">>, and data-val-A-P the key <<"A", "P">>; an absent one reads *)
(* as Undefined, an empty one as Empty, and every other text is truthy,    *)
(* "0" included. A bound is a number, and where the code compares it as a  *)
(* text, its place among the texts is what counts.                         *)
(***************************************************************************)
EXTENDS Integers, Sequences

CONSTANTS
  Undefined,        \* the value of what has none, and a property name
  Empty,            \* the empty text
  Elements,         \* the elements to parse
  FormNames,        \* the names of the form's inputs
  Texts,            \* the texts a user may enter
  NumeralOrder      \* the place of a number's numeral among texts: 10 before 2

VARIABLES
  extensionMethod,  \* has the page loaded additional-methods.js, with "extension"?
  element,          \* the element being parsed
  index,            \* the adapter that runs next
  rules,            \* the rules of the element's name
  messages,         \* their messages
  thrown            \* did an adapter throw?

vars == <<extensionMethod, element, index, rules, messages, thrown>>

Truthy(value) == value \notin {Undefined, Empty}

Or(value, default) == IF Truthy(value) THEN value ELSE default

\* $element.attr(name)
Attr(e, key) == IF key \in DOMAIN e.attrs THEN e.attrs[key] ELSE Undefined

\* A name an attribute refers to. "*." stands before the name of one property, as
\* the validation attributes of ASP.NET Core render it.
Reference(parts) ==
  parts \in Seq(STRING) \ {<<>>} /\ (parts[1] = "*" => Len(parts) = 2)

\* Attributes as ASP.NET renders them: bounds are numbers or left out, a minimum or
\* maximum alone has no other bound, a count of characters is positive, and patterns
\* and lists of types are not empty.
Rendered(e) ==
  LET other    == Attr(e, <<"equalto", "other">>)
      fields   == Attr(e, <<"remote", "additionalfields">>)
      nonAlpha == Attr(e, <<"password", "nonalphamin">>)
  IN  /\ e.name \in Seq(STRING) \ {<<>>}
      /\ other # Undefined => Reference(other)
      /\ Truthy(fields) => \A i \in DOMAIN fields : Reference(fields[i])
      /\ \A name \in {"length", "range", "minlength", "maxlength"}, p \in {"min", "max"} :
           Attr(e, <<name, p>>) \in Int \cup {Undefined, Empty}
      /\ ~Truthy(Attr(e, <<"minlength", "max">>)) /\ ~Truthy(Attr(e, <<"maxlength", "min">>))
      /\ Attr(e, <<"password", "min">>) \in Int \cup {Undefined, Empty}
      /\ Truthy(nonAlpha) => nonAlpha \in Nat \ {0}
      /\ \A key \in {<<"regex", "pattern">>, <<"accept", "mimtype">>,
                     <<"extension", "extension">>, <<"fileextensions", "extensions">>} :
           Attr(e, key) # Empty

\* A text is known by its length, its value as a number, the count of its non-word
\* characters, whether it has the format its field asks for, and the first match of
\* its field's pattern.
Text == [length : Nat, number : Int, nonAlpha : Nat, formatted : BOOLEAN,
         match : {Undefined} \cup [index : Nat, length : Nat]]

ASSUME AdaptersAssumption ==
  /\ Undefined # Empty
  /\ \A name \in {"equalTo", "remote", "__dummy__", "pattern", "mimtype", "extension",
                   "accept"} : Truthy(name)
  /\ Undefined # TRUE
  /\ Undefined \notin Int \X Int
  /\ Undefined \notin FormNames
  /\ FormNames \subseteq Seq(STRING)
  /\ \A e \in Elements : Rendered(e)
  /\ Texts \subseteq Text

\* Settings are functions of rule names: none, one rule's, or some that replace others.
NoSettings == [ruleName \in {} |-> Undefined]

Setting(ruleName, value) == [r \in {ruleName} |-> value]

Replacing(old, new) ==
  [r \in DOMAIN old \cup DOMAIN new |-> IF r \in DOMAIN new THEN new[r] ELSE old[r]]

(***************************************************************************)
(* Registering an adapter. Its parameters are the attributes parseElement  *)
(* reads for it.                                                           *)
(***************************************************************************)
AddBool(name) ==
  [name |-> name, params |-> {}, kind |-> "bool", rule |-> name]

AddSingleVal(name, attribute, rule) ==
  [name |-> name, params |-> {Or(attribute, "val")}, kind |-> "singleVal",
   attribute |-> attribute, rule |-> Or(rule, name)]

AddMinMax(name, minRule, maxRule, minMaxRule) ==
  [name |-> name, params |-> {"min", "max"}, kind |-> "minMax",
   minRule |-> minRule, maxRule |-> maxRule, minMaxRule |-> minMaxRule]

\* adapters.add with a function of its own, written below under its name.
Add(name, params) == [name |-> name, params |-> params, kind |-> name]

\* Before jQuery Validate 1.10 the method for file extensions was "accept".
FileAdapters ==
  IF extensionMethod
  THEN <<AddSingleVal("accept", "mimtype", Undefined),
         AddSingleVal("extension", "extension", Undefined)>>
  ELSE <<AddSingleVal("extension", "extension", "accept")>>

\* The registered adapters, in order.
Adapters ==
  FileAdapters \o
  <<AddSingleVal("regex", "pattern", Undefined),
    AddBool("creditcard"), AddBool("date"), AddBool("digits"),
    AddBool("email"), AddBool("number"), AddBool("url"),
    AddMinMax("length", "minlength", "maxlength", "rangelength"),
    AddMinMax("range", "min", "max", "range"),
    AddMinMax("minlength", "minlength", Undefined, Undefined),
    AddMinMax("maxlength", "minlength", "maxlength", Undefined),
    Add("equalto", {"other"}),
    Add("required", {}),
    Add("remote", {"url", "type", "additionalfields"}),
    Add("password", {"min", "nonalphamin", "regex"}),
    Add("fileextensions", {"extensions"})>>

(***************************************************************************)
(* Running an adapter: what it sets, as a function of rule names.          *)
(***************************************************************************)
getModelPrefix(name) == SubSeq(name, 1, Len(name) - 1)

\* Defect: the name without the model it is in.
appendModelPrefixDropped(name, prefix) ==
  IF Len(name) > 1 /\ name[1] = "*" THEN Tail(name) ELSE name

\* "*.Other" stands for the field Other of the same model.
appendModelPrefix(name, prefix) ==
  IF Len(name) > 1 /\ name[1] = "*" THEN prefix \o Tail(name) ELSE name

\* Defect: one bound is tested before both.
MinMaxSettingsOneFirst(adapter, min, max) ==
  CASE Truthy(min) -> Setting(adapter.minRule, min)
    [] ~Truthy(min) /\ Truthy(max) -> Setting(adapter.maxRule, max)
    [] OTHER -> NoSettings

MinMaxSettings(adapter, min, max) ==
  CASE Truthy(min) /\ Truthy(max) -> Setting(adapter.minMaxRule, <<min, max>>)
    [] Truthy(min) /\ ~Truthy(max) -> Setting(adapter.minRule, min)
    [] ~Truthy(min) /\ Truthy(max) -> Setting(adapter.maxRule, max)
    [] OTHER -> NoSettings

\* The form's field of that name, looked up while parsing.
EqualToSettings(e, other) ==
  LET name == appendModelPrefix(other, getModelPrefix(e.name))
  IN  Setting("equalTo", IF name \in FormNames THEN name ELSE Undefined)

RequiredSettings(e) ==
  IF e.type = "checkbox" THEN NoSettings ELSE Setting("required", TRUE)

\* data holds the names whose fields are looked up when the request is made.
RemoteSettings(e, param) ==
  LET fields == Or(param["additionalfields"], <<e.name>>)
      prefix == getModelPrefix(e.name)
  IN  Setting("remote", [url |-> param["url"], type |-> Or(param["type"], "GET"),
                         data |-> {appendModelPrefix(fields[i], prefix) :
                                     i \in DOMAIN fields}])

PasswordSettings(param) ==
  LET ruleOf == [min |-> "minlength", nonalphamin |-> "nonalphamin", regex |-> "regex"]
      given == {p \in DOMAIN ruleOf : Truthy(param[p])}
  IN  [r \in {ruleOf[p] : p \in given} |->
         param[CHOOSE p \in given : ruleOf[p] = r]]

\* The values of the adapter's parameters, paramValues in the code.
ParamValues(adapter, e) == [p \in adapter.params |-> Attr(e, <<adapter.name, p>>)]

Settings(adapter, e) ==
  LET param == ParamValues(adapter, e)
      Param(p) == IF p \in DOMAIN param THEN param[p] ELSE Undefined
  IN  CASE adapter.kind = "bool" -> Setting(adapter.rule, TRUE)
        [] adapter.kind = "singleVal" -> Setting(adapter.rule, Param(adapter.attribute))
        [] adapter.kind = "minMax" -> MinMaxSettings(adapter, Param("min"), Param("max"))
        [] adapter.kind = "equalto" -> EqualToSettings(e, Param("other"))
        [] adapter.kind = "required" -> RequiredSettings(e)
        [] adapter.kind = "remote" -> RemoteSettings(e, param)
        [] adapter.kind = "password" -> PasswordSettings(param)
        [] adapter.kind = "fileextensions" -> Setting("extension", Param("extensions"))

\* An adapter runs when the element has its message attribute, even an empty one.
Applies(adapter, e) == Attr(e, <<adapter.name>>) # Undefined

\* value.indexOf on the missing attribute data-val-equalto-other.
Throws(adapter, e) ==
  adapter.kind = "equalto" /\ Attr(e, <<"equalto", "other">>) = Undefined

\* Defects: the rules are not set; a rule keeps its first message.
setValidationValuesMessageOnly(settings, message) ==
  /\ rules' = rules
  /\ messages' = IF Truthy(message)
                 THEN Replacing(messages, [r \in DOMAIN settings |-> message])
                 ELSE messages

setValidationValuesFirstMessage(settings, message) ==
  /\ rules' = Replacing(rules, settings)
  /\ messages' = IF Truthy(message)
                 THEN Replacing([r \in DOMAIN settings |-> message], messages)
                 ELSE messages

\* Rules and their messages; an empty message leaves the one there is.
setValidationValues(settings, message) ==
  /\ rules' = Replacing(rules, settings)
  /\ messages' = IF Truthy(message)
                 THEN Replacing(messages, [r \in DOMAIN settings |-> message])
                 ELSE messages

Init ==
  /\ extensionMethod \in BOOLEAN
  /\ element \in Elements
  /\ index = 1
  /\ rules = NoSettings
  /\ messages = NoSettings
  /\ thrown = FALSE

Parsing == ~thrown /\ index <= Len(Adapters)

RunAdapter ==
  LET adapter == Adapters[index] IN
  /\ Parsing
  /\ Applies(adapter, element)
  /\ ~Throws(adapter, element)
  /\ setValidationValues(Settings(adapter, element), Attr(element, <<adapter.name>>))
  /\ index' = index + 1
  /\ UNCHANGED <<extensionMethod, element, thrown>>

SkipAdapter ==
  /\ Parsing
  /\ ~Applies(Adapters[index], element)
  /\ index' = index + 1
  /\ UNCHANGED <<extensionMethod, element, rules, messages, thrown>>

\* The exception leaves parseElement, and parse with it.
AdapterThrows ==
  /\ Parsing
  /\ Applies(Adapters[index], element)
  /\ Throws(Adapters[index], element)
  /\ thrown' = TRUE
  /\ UNCHANGED <<extensionMethod, element, index, rules, messages>>

\* Every parsed element has a rule, so that it counts as one to validate.
EndParse ==
  /\ ~thrown
  /\ index = Len(Adapters) + 1
  /\ rules' = Replacing(rules, Setting("__dummy__", TRUE))
  /\ index' = index + 1
  /\ UNCHANGED <<extensionMethod, element, messages, thrown>>

Next == RunAdapter \/ SkipAdapter \/ AdapterThrows \/ EndParse

Spec == Init /\ [][Next]_vars

Parsed == index = Len(Adapters) + 2

(***************************************************************************)
(* What the rules mean: the methods of jQuery Validate and the three this  *)
(* file adds. The validator turns the parameters of minlength, maxlength,  *)
(* rangelength and range into numbers, but not those of min and max, which *)
(* its methods compare with the field's text.                              *)
(***************************************************************************)
FormatRules == {"creditcard", "date", "digits", "email", "number", "url"}

FullMatch(text) ==
  /\ text.match # Undefined
  /\ text.match.index = 0
  /\ text.match.length = text.length

Passes(rule, param, text) ==
  LET optional == text.length = 0 IN
  CASE rule = "required" -> ~optional
    [] rule = "minlength" -> optional \/ text.length >= param
    [] rule = "maxlength" -> optional \/ text.length <= param
    [] rule = "rangelength" -> optional \/ text.length \in param[1] .. param[2]
    [] rule = "min" -> optional \/ NumeralOrder[text.number] >= NumeralOrder[param]
    [] rule = "max" -> optional \/ NumeralOrder[text.number] <= NumeralOrder[param]
    [] rule = "range" -> optional \/ text.number \in param[1] .. param[2]
    [] rule = "regex" -> optional \/ FullMatch(text)
    [] rule = "nonalphamin" -> text.nonAlpha > 0 /\ text.nonAlpha >= param
    [] rule \in FormatRules \cup {"extension", "accept"} -> optional \/ text.formatted
    [] OTHER -> TRUE   \* __dummy__; equalTo and remote depend on more than the text

\* The rules that the validator copies: $.extend leaves undefined values out.
GivenRules == {r \in DOMAIN rules : rules[r] # Undefined}

Accepts(text) == \A r \in GivenRules : Passes(r, rules[r], text)

\* The methods on the page. "accept" and "creditcard" come with "extension".
Methods ==
  {"required", "remote", "email", "url", "date", "dateISO", "number", "digits",
   "equalTo", "minlength", "maxlength", "rangelength", "min", "max", "range",
   "step", "__dummy__", "regex", "nonalphamin"}
  \cup (IF extensionMethod THEN {"accept", "creditcard", "extension"} ELSE {})

-----------------------------------------------------------------------------
(***************************************************************************)
(* What the attributes ask for, said without adapters and rules.           *)
(***************************************************************************)
Has(e, name) == Attr(e, <<name>>) # Undefined

\* The values given for some of an element's parameters.
Given(e, keys) ==
  {Attr(e, k) : k \in {key \in keys : Has(e, key[1]) /\ Truthy(Attr(e, key))}}

\* The lists of types a file may have. Without "extension", "ignore mime-type
\* validations as they are not supported".
FileTypes ==
  {<<"extension", "extension">>, <<"fileextensions", "extensions">>}
  \cup (IF extensionMethod THEN {<<"accept", "mimtype">>} ELSE {})

MeetsAttributes(e, text) ==
  /\ Has(e, "required") /\ e.type # "checkbox" => text.length > 0
  /\ text.length > 0 =>
       /\ \A m \in Given(e, {<<"length", "min">>, <<"minlength", "min">>,
                             <<"password", "min">>}) : text.length >= m
       /\ \A m \in Given(e, {<<"length", "max">>, <<"maxlength", "max">>}) : text.length <= m
       /\ \A m \in Given(e, {<<"range", "min">>}) : text.number >= m
       /\ \A m \in Given(e, {<<"range", "max">>}) : text.number <= m
       /\ \A m \in Given(e, {<<"password", "nonalphamin">>}) : text.nonAlpha >= m
       /\ Given(e, {<<"regex", "pattern">>, <<"password", "regex">>}) # {} => FullMatch(text)
       /\ \/ \E f \in FormatRules : Has(e, f)
          \/ Given(e, FileTypes) # {}
          => text.formatted

OneBound(e, name) ==
  Truthy(Attr(e, <<name, "min">>)) # Truthy(Attr(e, <<name, "max">>))

\* As texts, too, the number entered is on the same side of the range's bounds.
OrderedAsNumbers(e, text) ==
  \A m \in Given(e, {<<"range", "min">>, <<"range", "max">>}) :
    /\ NumeralOrder[text.number] >= NumeralOrder[m] <=> text.number >= m
    /\ NumeralOrder[text.number] <= NumeralOrder[m] <=> text.number <= m

Applied(e) == {i \in DOMAIN Adapters : Applies(Adapters[i], e)}

\* Two adapters of the element set the same rule.
Colliding(e) ==
  \E i, j \in Applied(e) :
    /\ i # j
    /\ DOMAIN Settings(Adapters[i], e) \cap DOMAIN Settings(Adapters[j], e) # {}

TypeOK ==
  /\ extensionMethod \in BOOLEAN
  /\ element \in Elements
  /\ index \in 1 .. Len(Adapters) + 2
  /\ DOMAIN messages \subseteq DOMAIN rules
  /\ thrown \in BOOLEAN
  /\ thrown => Has(element, "equalto")

\* The rules of a field accept a text if and only if it is what the field's
\* attributes ask for: "enables validation according to the data-val-* attribute
\* values" (parse). Two adapters that set one rule are excluded, since the later
\* one replaces the earlier one's bound, as are rules without a method, an empty
\* password, which "nonalphamin" refuses even where none is required, and numbers
\* that a range's only bound, compared as text, orders otherwise.
EnforcesAttributes ==
  Parsed /\ ~Colliding(element) /\ GivenRules \subseteq Methods =>
    \A text \in Texts :
      \/ Accepts(text) <=> MeetsAttributes(element, text)
      \/ text.length = 0 /\ Given(element, {<<"password", "nonalphamin">>}) # {}
      \/ OneBound(element, "range") /\ ~OrderedAsNumbers(element, text)

\* Whichever adapters share a rule, the message shown when it fails is the one
\* given with the value that is enforced, if every one of them has a message.
MessageFitsRule ==
  \A r \in DOMAIN messages :
    LET setters == {i \in Applied(element) :
                      i < index /\ r \in DOMAIN Settings(Adapters[i], element)}
        Message(i) == Attr(element, <<Adapters[i].name>>)
    IN  (\A i \in setters : Truthy(Message(i))) =>
          \E i \in setters : /\ messages[r] = Message(i)
                             /\ rules[r] = Settings(Adapters[i], element)[r]

\* A field named with "*." is the one of that name in the same model, which
\* equalTo compares with and remote sends along.
Siblings(e, last) ==
  {name \in FormNames : /\ Len(name) = Len(e.name)
                        /\ name[Len(name)] = last
                        /\ \A i \in 1 .. Len(name) - 1 : name[i] = e.name[i]}

FieldsOfSameModel ==
  /\ "equalTo" \in DOMAIN rules =>
       LET other == Attr(element, <<"equalto", "other">>) IN
       other[1] = "*" => {rules["equalTo"]} \ {Undefined} = Siblings(element, other[2])
  /\ "remote" \in DOMAIN rules =>
       LET fields == Attr(element, <<"remote", "additionalfields">>) IN
       Truthy(fields) =>
         \A i \in DOMAIN fields :
           fields[i][1] = "*" => Siblings(element, fields[i][2]) \subseteq rules["remote"].data

=============================================================================
