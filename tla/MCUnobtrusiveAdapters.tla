------------------------ MODULE MCUnobtrusiveAdapters ------------------------
(***************************************************************************)
(* Elements for TLC: every adapter alone, with or without each of its      *)
(* parameters and a message, and every two adapters together. They carry   *)
(* the attributes that ASP.NET Core renders for validation attributes.     *)
(***************************************************************************)
EXTENDS UnobtrusiveAdapters, TLC

\* The values of an adapter's parameters.
Numbers == {Undefined, Empty, 0, 2}

ParamChoices ==
     "creditcard" :> [{} -> {}] @@ "email" :> [{} -> {}] @@ "number" :> [{} -> {}]
  @@ "required" :> [{} -> {}]
  @@ "regex" :> [{"pattern"} -> {Undefined, "p"}]
  @@ "accept" :> [{"mimtype"} -> {Undefined, "image"}]
  @@ "extension" :> [{"extension"} -> {Undefined, "png"}]
  @@ "fileextensions" :> [{"extensions"} -> {Undefined, "png"}]
  @@ "length" :> [{"min", "max"} -> Numbers]
  @@ "range" :> [{"min", "max"} -> Numbers]
  @@ "minlength" :> [{"min"} -> Numbers]
  @@ "maxlength" :> [{"max"} -> Numbers \cup {1}]
  @@ "password" :> {[min |-> m, nonalphamin |-> n, regex |-> r] :
                      m \in {Undefined, 3}, n \in {Undefined, 1, 2}, r \in {Undefined, "q"}}
  @@ "equalto" :> [{"other"} -> {Undefined, <<"*", "Other">>, <<"Other">>}]
  @@ "remote" :> {[url |-> "u", type |-> t, additionalfields |-> f] :
                    t \in {Undefined, "POST"},
                    f \in {Undefined, << <<"*", "Email">>, <<"*", "Other">> >>}}

\* The attributes of one adapter under a message and parameters.
AdapterAttrs(name, message, params) ==
  LET given == {p \in DOMAIN params : params[p] # Undefined}
  IN  [key \in {<<name>>} \cup {<<name, p>> : p \in given} |->
         IF Len(key) = 1 THEN message ELSE params[key[2]]]

Alone(name, chosen) ==
  {AdapterAttrs(name, message, params) : message \in chosen, params \in ParamChoices[name]}

\* The adapters that share rules with others.
Sharing == {"regex", "length", "minlength", "maxlength", "password", "required",
            "extension", "fileextensions", "equalto", "range"}

Attributes ==
  UNION {Alone(name, {name, Empty}) : name \in DOMAIN ParamChoices} \cup
  UNION {{a @@ b : a \in Alone(n[1], {n[1]}), b \in Alone(n[2], {n[2]})} :
           n \in {pair \in Sharing \X Sharing : pair[1] # pair[2]}}

AllElements ==
  {[name |-> <<"Order", "Email">>, type |-> "text", attrs |-> a] : a \in Attributes} \cup
  {[name |-> <<"Email">>, type |-> t, attrs |-> a] :
     t \in {"text", "checkbox"},
     a \in UNION {Alone(n, {n}) : n \in {"required", "equalto", "remote"}}}

AllTexts ==
  {[length |-> l, number |-> n, nonAlpha |-> w, formatted |-> f, match |-> m] :
     l \in 0 .. 3, n \in {0, 1, 2, 10}, w \in 0 .. 2, f \in BOOLEAN,
     m \in {Undefined, [index |-> 0, length |-> 2], [index |-> 1, length |-> 2]}}

\* The numerals of 0, 1, 10 and 2, in the order of texts.
PlacesOfNumerals == 0 :> 1 @@ 1 :> 2 @@ 10 :> 3 @@ 2 :> 4

AllNames == {<<"Email">>, <<"Other">>, <<"Order", "Email">>, <<"Order", "Other">>}

=============================================================================
