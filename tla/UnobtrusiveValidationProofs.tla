----------------------- MODULE UnobtrusiveValidationProofs -----------------------
(***************************************************************************)
(* Proofs about UnobtrusiveValidation for any finite set of names and any  *)
(* elements, rules and values.                                             *)
(***************************************************************************)
EXTENDS UnobtrusiveValidation, FiniteSetTheorems, TLAPS

-----------------------------------------------------------------------------
(* The inductive invariant, in parts that are shown one after another.     *)

\* A request still belongs to the value last asked about, or its field has
\* forgotten that it was asked.
RequestsRemembered ==
  \A n \in Names : request[n] # NoRequest =>
    previous[n].old = IF request[n].current THEN request[n].value ELSE NoValue

\* A value recorded as valid is one the server approved, or its field waits.
ValidIsApproved ==
  \A n \in Names : previous[n].old # NoValue /\ previous[n].valid =>
    n \in pending \/ <<n, previous[n].old>> \in approved

\* Without a validator nothing has been checked.
ValidatorComesFirst ==
  ~hasValidator => /\ validator = NoRules
                   /\ \A n \in Names : invalid[n] = "unknown"

\* What has a result or waits for one has rules, and is in the form.
ResultsHaveRules ==
  /\ \A n \in Names : invalid[n] = "invalid" \/ n \in pending => HasRules(n)
  /\ errors \subseteq {n \in Names : invalid[n] = "invalid"}
  /\ errors \cup pending \cup errorClass \subseteq Present

Results == ValidatorComesFirst /\ ResultsHaveRules

IInv ==
  /\ TypeOK
  /\ ResetRunsOnce
  /\ PendingCounted
  /\ RequestsRemembered
  /\ ValidIsApproved
  /\ SentIsValid
  /\ Results
  /\ ErrorsAreExplained
  /\ LeftoversAreUnchecked

-----------------------------------------------------------------------------
(* Steps by what they do to the variables.                                 *)

Remote == <<previous, request, pending, pendingRequest, approved>>

\* Fields that forget what they were asked about: a reset one, a loaded one.
Forget(names) ==
  /\ previous' = [n \in Names |-> IF n \in names THEN NotAsked ELSE previous[n]]
  /\ request' = [n \in Names |-> IF n \in names /\ request[n] # NoRequest
                                 THEN [request[n] EXCEPT !.current = FALSE]
                                 ELSE request[n]]
  /\ UNCHANGED <<pending, pendingRequest, approved>>

Answer(n, isValid) ==
  /\ RecordAnswer(n, isValid)
  /\ StopRequest(n)
  /\ approved' = IF isValid THEN approved \cup {<<n, request[n].value>>} ELSE approved

RemoteStep ==
  \/ UNCHANGED Remote
  \/ \E asked \in SUBSET {n \in Present : Asks(n)} : StartRequests(asked) /\ UNCHANGED approved
  \/ \E n \in Names, isValid \in BOOLEAN : Answer(n, isValid)
  \/ \E n \in Names : RequestFails(n)
  \/ \E names \in SUBSET Names : Forget(names)

\* Names of fields in the form are names.
LEMMA PresentNames ==
  ASSUME TypeOK
  PROVE  Present \subseteq Names
  BY ElementsAssumption DEF TypeOK, Present

\* The fields in the form are the same while its elements are.
LEMMA SamePresent ==
  ASSUME UNCHANGED dom
  PROVE  Present' = Present
  BY DEF Present

\* Loading an element keeps the fields that are there.
LEMMA LoadKeepsFields ==
  ASSUME TypeOK, NEW e \in Elements, Load(e)
  PROVE  Present \subseteq Present'
<1>1. SUFFICES ASSUME NEW d \in dom PROVE NameOf[d] \in Present'
  BY DEF Present
<1>2. CASE NameOf[d] = NameOf[e]
  BY <1>2 DEF Load, Present
<1>3. CASE NameOf[d] # NameOf[e]
  BY <1>3 DEF Load, Present
<1> QED BY <1>2, <1>3

\* A check fails no field that it passes.
LEMMA FailsOrPasses ==
  ASSUME NEW n
  PROVE  ~(Fails(n) /\ Passes(n))
  BY DEF Passes

-----------------------------------------------------------------------------
(* Types.                                                                  *)

LEMMA InitTypes ==
  ASSUME Init
  PROVE  TypeOK
<1>1. Present \subseteq Names
  BY ElementsAssumption DEF Init, Present
<1> QED BY <1>1, ElementsAssumption, ValuesAssumption, PageAssumption
        DEF Init, TypeOK, AllEmpty, NoRules, NotAsked

\* Requests for some fields have the right types.
LEMMA StartRequestsTypes ==
  ASSUME TypeOK, NEW asked \in SUBSET Names, StartRequests(asked)
  PROVE  /\ previous' \in [Names -> [old : Values \cup {NoValue}, valid : BOOLEAN]]
         /\ request' \in [Names -> [value : Values, current : BOOLEAN] \cup {NoRequest}]
         /\ pending' \subseteq Names
         /\ pendingRequest' \in Nat
<1>1. previous' \in [Names -> [old : Values \cup {NoValue}, valid : BOOLEAN]]
  BY DEF StartRequests, TypeOK
<1>2. request' \in [Names -> [value : Values, current : BOOLEAN] \cup {NoRequest}]
  BY DEF StartRequests, TypeOK
<1>3. Cardinality(asked \ pending) \in Nat
  BY NamesAssumption, FS_Subset, FS_CardinalityType
<1>4. pending' \subseteq Names /\ pendingRequest' \in Nat
  BY <1>3 DEF StartRequests, TypeOK
<1> QED BY <1>1, <1>2, <1>4

\* What the containers show of some failed and some passed fields.
LEMMA DisplayEffect ==
  ASSUME NEW failed, NEW passed, Display(failed, passed)
  PROVE  /\ errorClass' = (errorClass \cup failed) \ passed
         /\ filled' = (filled \cup (failed \cap ReplaceNames)) \ (passed \cap ReplaceNames)
         /\ unrecorded' = unrecorded \ (failed \cup passed)
  BY DEF Display, Shown, onError, onSuccess

LEMMA DisplayTypes ==
  ASSUME TypeOK, NEW failed, failed \subseteq Names, NEW passed, Display(failed, passed)
  PROVE  /\ errorClass' \subseteq Names
         /\ filled' \subseteq ReplaceNames
         /\ unrecorded' \subseteq Names
  BY DisplayEffect DEF TypeOK

LEMMA CheckFieldsTypes ==
  ASSUME TypeOK, NEW names \in SUBSET Present, CheckFields(names)
  PROVE  /\ errors' \subseteq Names
         /\ submitted' \subseteq Names
         /\ previous' \in [Names -> [old : Values \cup {NoValue}, valid : BOOLEAN]]
         /\ request' \in [Names -> [value : Values, current : BOOLEAN] \cup {NoRequest}]
         /\ pending' \subseteq Names
         /\ pendingRequest' \in Nat
         /\ errorClass' \subseteq Names
         /\ filled' \subseteq ReplaceNames
         /\ unrecorded' \subseteq Names
<1> DEFINE failed == {n \in names : Fails(n)}
           asked == {n \in names : Asks(n)}
<1>1. names \subseteq Names
  BY PresentNames
<1>2. errors' = failed /\ submitted' = submitted \cup failed
  BY DEF CheckFields
<1>3. StartRequests(asked) /\ Display(failed, {n \in names : Passes(n)})
  BY DEF CheckFields
<1>4. failed \in SUBSET Names /\ asked \in SUBSET Names
  BY <1>1
<1> HIDE DEF failed, asked
<1> QED BY <1>2, <1>3, <1>4, StartRequestsTypes, DisplayTypes DEF TypeOK

\* Of a check of the whole form.
LEMMA FormTypes ==
  ASSUME TypeOK, form
  PROVE  /\ invalid' \in [Names -> {"unknown", "valid", "invalid"}]
         /\ errors' \subseteq Names
         /\ submitted' \subseteq Names
         /\ previous' \in [Names -> [old : Values \cup {NoValue}, valid : BOOLEAN]]
         /\ request' \in [Names -> [value : Values, current : BOOLEAN] \cup {NoRequest}]
         /\ pending' \subseteq Names
         /\ pendingRequest' \in Nat
         /\ errorClass' \subseteq Names
         /\ filled' \subseteq ReplaceNames
         /\ unrecorded' \subseteq Names
         /\ summary' \in [errors : BOOLEAN, items : SUBSET Names]
<1>1. CheckFields(Present)
  BY DEF form
<1>2. errors' \subseteq Names
  BY <1>1, CheckFieldsTypes
<1>3. invalid' \in [Names -> {"unknown", "valid", "invalid"}]
  BY DEF form
<1>4. summary' \in [errors : BOOLEAN, items : SUBSET Names]
  BY <1>2 DEF form, onErrors, TypeOK
<1> QED BY <1>1, <1>3, <1>4, CheckFieldsTypes

LEMMA AttachTypes ==
  ASSUME TypeOK, rules' \in [Names -> Elements \cup {NoElement}], attachValidation
  PROVE  /\ resetBound' \in BOOLEAN
         /\ hasValidator' \in BOOLEAN
         /\ validator' \in [Names -> Elements \cup {NoElement}]
  BY DEF TypeOK, attachValidation

LEMMA ParsedTypes ==
  ASSUME TypeOK, NEW elements \in SUBSET Elements
  PROVE  Parsed(elements) \in [Names -> Elements \cup {NoElement}]
<1>1. ASSUME NEW n \in Names, \E e \in elements : NameOf[e] = n
      PROVE  (CHOOSE e \in elements : NameOf[e] = n) \in Elements
  BY <1>1
<1> QED BY <1>1 DEF Parsed, TypeOK

LEMMA AnswerTypes ==
  ASSUME TypeOK, NEW n \in Names, NEW isValid \in BOOLEAN, RecordAnswer(n, isValid), StopRequest(n)
  PROVE  /\ previous' \in [Names -> [old : Values \cup {NoValue}, valid : BOOLEAN]]
         /\ request' \in [Names -> [value : Values, current : BOOLEAN] \cup {NoRequest}]
         /\ request[n].value \in Values
         /\ pending' \subseteq Names
         /\ pendingRequest' \in Nat
<1>1. request[n].value \in Values
  BY DEF RecordAnswer, TypeOK
<1>2. previous' \in [Names -> [old : Values \cup {NoValue}, valid : BOOLEAN]]
  BY DEF RecordAnswer, TypeOK
<1>3. request' \in [Names -> [value : Values, current : BOOLEAN] \cup {NoRequest}]
  BY DEF RecordAnswer, TypeOK
<1>4. pending' \subseteq Names /\ pendingRequest' \in Nat
  BY DEF StopRequest, TypeOK
<1> QED BY <1>1, <1>2, <1>3, <1>4

LEMMA ResetFormTypes ==
  ASSUME TypeOK, ResetForm
  PROVE  /\ invalid' \in [Names -> {"unknown", "valid", "invalid"}]
         /\ submitted' = {} /\ errors' = {}
         /\ previous' \in [Names -> [old : Values \cup {NoValue}, valid : BOOLEAN]]
         /\ request' \in [Names -> [value : Values, current : BOOLEAN] \cup {NoRequest}]
<1>1. previous' \in [Names -> [old : Values \cup {NoValue}, valid : BOOLEAN]]
  BY DEF ResetForm, TypeOK, NotAsked
<1>2. request' \in [Names -> [value : Values, current : BOOLEAN] \cup {NoRequest}]
  BY DEF ResetForm, TypeOK
<1>3. invalid' \in [Names -> {"unknown", "valid", "invalid"}]
  BY DEF ResetForm
<1> QED BY <1>1, <1>2, <1>3 DEF ResetForm

\* The flag and the depth agree with the call under way.
LEMMA InitReset ==
  ASSUME Init
  PROVE  ResetRunsOnce
  BY DEF Init, ResetRunsOnce

LEMMA NextReset ==
  ASSUME TypeOK, ResetRunsOnce, [Next]_vars
  PROVE  ResetRunsOnce'
<1> USE DEF ResetRunsOnce, TypeOK, Idle, resetVars
<1>1. CASE UNCHANGED vars
  BY <1>1 DEF vars
<1>2. CASE \E e \in Elements, skipAttach \in BOOLEAN : parseElement(e, skipAttach)
  BY <1>2 DEF parseElement
<1>3. CASE \E elements \in SUBSET Elements : parse(elements)
  BY <1>3 DEF parse
<1>4. CASE \E e \in Elements : Load(e)
  BY <1>4 DEF Load
<1>5. CASE \E n \in Names : Edit(n) \/ CheckElement(n) \/ RequestFails(n)
  BY <1>5 DEF Edit, CheckElement, RequestFails
<1>6. ASSUME NEW n \in Names, AnswerValid(n) \/ AnswerInvalid(n)
      PROVE  ResetRunsOnce'
  <2>1. /\ UNCHANGED <<resetting, resetDepth>>
        /\ turn = "idle" /\ turn' \in {"idle", "resubmit"}
    BY <1>6 DEF AnswerValid, AnswerInvalid
  <2> QED BY <2>1
<1>7. CASE SubmitUnchecked \/ Submit \/ Validate
  BY <1>7 DEF SubmitUnchecked, Submit, Validate
<1>8. CASE Resubmit
  BY <1>8 DEF Resubmit
<1>9. CASE Reset \/ ResetUnbound \/ ResetByPlugin
  BY <1>9 DEF Reset, ResetUnbound, ResetByPlugin, onReset
<1>10. CASE FinishReset \/ ResetThrows
  BY <1>10 DEF FinishReset, ResetThrows, ResetForm, EndReset
<1> QED BY <1>1, <1>2, <1>3, <1>4, <1>5, <1>6, <1>7, <1>8, <1>9, <1>10 DEF Next

-----------------------------------------------------------------------------
\* Every step keeps the types; the depth of resets is a number because a reset
\* ends only where one is under way.
LEMMA NextTypes ==
  ASSUME TypeOK, ResetRunsOnce, [Next]_vars
  PROVE  TypeOK'
<1> USE DEF fieldVars, resultVars, remoteVars, displayVars, resetVars, ruleVars
<1>1. CASE UNCHANGED vars
  BY <1>1 DEF vars, TypeOK
<1>2. ASSUME NEW e \in Elements, NEW skipAttach \in BOOLEAN, parseElement(e, skipAttach)
      PROVE  TypeOK'
  <2>1. rules' \in [Names -> Elements \cup {NoElement}]
    BY <1>2, ParsedTypes DEF parseElement
  <2>2. /\ resetBound' \in BOOLEAN
        /\ hasValidator' \in BOOLEAN
        /\ validator' \in [Names -> Elements \cup {NoElement}]
    BY <1>2, <2>1, AttachTypes DEF parseElement, TypeOK
  <2> QED BY <1>2, <2>1, <2>2 DEF parseElement, TypeOK
<1>3. ASSUME NEW elements \in SUBSET Elements, parse(elements)
      PROVE  TypeOK'
  <2>1. rules' \in [Names -> Elements \cup {NoElement}]
    BY <1>3, ParsedTypes DEF parse
  <2>2. /\ resetBound' \in BOOLEAN
        /\ hasValidator' \in BOOLEAN
        /\ validator' \in [Names -> Elements \cup {NoElement}]
    BY <1>3, <2>1, AttachTypes DEF parse
  <2> QED BY <1>3, <2>1, <2>2 DEF parse, TypeOK
<1>4. ASSUME NEW e \in Elements, Load(e)
      PROVE  TypeOK'
  <2>1. dom' \subseteq Elements /\ value' \in [Names -> Values]
    BY <1>4, ValuesAssumption DEF Load, TypeOK
  <2>2. previous' \in [Names -> [old : Values \cup {NoValue}, valid : BOOLEAN]]
    BY <1>4 DEF Load, TypeOK, NotAsked
  <2> DEFINE n == NameOf[e]
             kept == IF request[n] = NoRequest THEN request[n]
                     ELSE [request[n] EXCEPT !.current = FALSE]
  <2>3. request' \in [Names -> [value : Values, current : BOOLEAN] \cup {NoRequest}]
    <3>1. kept \in [value : Values, current : BOOLEAN] \cup {NoRequest}
      <4>1. request[n] \in [value : Values, current : BOOLEAN] \cup {NoRequest}
        BY ElementsAssumption DEF TypeOK
      <4> QED BY <4>1
    <3>2. request' = [request EXCEPT ![n] = kept]
      BY <1>4 DEF Load
    <3> QED BY <3>1, <3>2 DEF TypeOK
  <2> QED BY <1>4, <2>1, <2>2, <2>3 DEF Load, TypeOK
<1>5. ASSUME NEW n \in Names, Edit(n)
      PROVE  TypeOK'
  BY <1>5 DEF Edit, TypeOK
<1>6. ASSUME NEW n \in Names, CheckElement(n)
      PROVE  TypeOK'
  <2>1. CheckFields({n}) /\ {n} \in SUBSET Present
    BY <1>6 DEF CheckElement
  <2>2. invalid' \in [Names -> {"unknown", "valid", "invalid"}]
    BY <1>6 DEF CheckElement, TypeOK
  <2> QED BY <1>6, <2>1, <2>2, CheckFieldsTypes DEF CheckElement, TypeOK
<1>7. ASSUME NEW n \in Names, AnswerValid(n)
      PROVE  TypeOK'
  <2>1. RecordAnswer(n, TRUE) /\ StopRequest(n) /\ Display({}, {n})
    BY <1>7 DEF AnswerValid
  <2>2. invalid' \in [Names -> {"unknown", "valid", "invalid"}]
    BY <1>7 DEF AnswerValid, TypeOK
  <2>3. approved' \subseteq Names \X Values
    <3>1. request[n].value \in Values
      BY <2>1, AnswerTypes
    <3> QED BY <1>7, <3>1 DEF AnswerValid, TypeOK
  <2>4. turn' \in {"idle", "resubmit"}
    BY <1>7 DEF AnswerValid
  <2> QED BY <1>7, <2>1, <2>2, <2>3, <2>4, AnswerTypes, DisplayTypes DEF AnswerValid, TypeOK
<1>8. ASSUME NEW n \in Names, AnswerInvalid(n)
      PROVE  TypeOK'
  <2>1. RecordAnswer(n, FALSE) /\ StopRequest(n) /\ Display(errors', {}) /\ errors' \subseteq Names
    BY <1>8 DEF AnswerInvalid, TypeOK
  <2>2. invalid' \in [Names -> {"unknown", "valid", "invalid"}]
    BY <1>8 DEF AnswerInvalid, TypeOK
  <2>3. summary' \in [errors : BOOLEAN, items : SUBSET Names]
    <3>1. summary' = summary \/ summary' = [errors |-> TRUE, items |-> errors']
      BY <1>8 DEF AnswerInvalid, onErrors
    <3>2. CASE summary' = [errors |-> TRUE, items |-> errors']
      BY <2>1, <3>2
    <3>3. CASE summary' = summary
      BY <3>3 DEF TypeOK
    <3> QED BY <3>1, <3>2, <3>3
  <2>4. formSubmitted' \in BOOLEAN
    BY <1>8 DEF AnswerInvalid, TypeOK
  <2> QED BY <1>8, <2>1, <2>2, <2>3, <2>4, AnswerTypes, DisplayTypes DEF AnswerInvalid, TypeOK
<1>9. ASSUME NEW n \in Names, RequestFails(n)
      PROVE  TypeOK'
  BY <1>9 DEF RequestFails, TypeOK
<1>10. CASE SubmitUnchecked
  BY <1>10 DEF SubmitUnchecked, TypeOK
<1>11. CASE Submit
  <2>1. page' \in {"open", "sent"} /\ formSubmitted' \in BOOLEAN
    BY <1>11 DEF Submit, TypeOK
  <2>2. form
    BY <1>11 DEF Submit
  <2> QED BY <1>11, <2>1, <2>2, FormTypes DEF Submit, TypeOK
<1>12. CASE Resubmit
  <2>1. page' \in {"open", "sent"} /\ formSubmitted' \in BOOLEAN
    BY <1>12 DEF Resubmit
  <2>2. form
    BY <1>12 DEF Resubmit
  <2> QED BY <1>12, <2>1, <2>2, FormTypes DEF Resubmit, TypeOK
<1>13. CASE Validate
  <2>1. CASE hasValidator
    BY <1>13, <2>1, FormTypes DEF Validate, TypeOK
  <2>2. CASE ~hasValidator
    BY <1>13, <2>2 DEF Validate, TypeOK
  <2> QED BY <2>1, <2>2
<1>14. AllEmpty \in [Names -> Values]
  BY ValuesAssumption DEF AllEmpty
<1>15. CASE Reset \/ ResetByPlugin
  <2>1. value' \in [Names -> Values] /\ resetting' \in BOOLEAN /\ resetDepth' \in Nat
    <3>1. onReset
      BY <1>15 DEF Reset, ResetByPlugin
    <3>2. CASE resetting
      BY <1>14, <3>1, <3>2 DEF onReset, TypeOK
    <3>3. CASE ~resetting
      BY <3>1, <3>3 DEF onReset, TypeOK
    <3> QED BY <3>2, <3>3
  <2>2. turn' \in {"idle", "plugin", "resetForm"}
    BY <1>15 DEF Reset, ResetByPlugin
  <2>3. UNCHANGED <<page, dom, ruleVars, resultVars, remoteVars, formSubmitted,
                    displayVars, summary, approved>>
    BY <1>15 DEF Reset, ResetByPlugin
  <2> QED BY <2>1, <2>2, <2>3 DEF TypeOK
<1>16. CASE ResetUnbound
  BY <1>14, <1>16 DEF ResetUnbound, TypeOK
<1>17. CASE FinishReset \/ ResetThrows
  <2>1. ResetForm /\ EndReset
    BY <1>17 DEF FinishReset, ResetThrows
  <2>2. /\ turn' = "idle" /\ value' \in [Names -> Values]
        /\ resetting' \in BOOLEAN /\ resetDepth' \in Nat
    <3>1. turn = "resetForm"
      BY <2>1 DEF ResetForm
    <3>2. resetDepth = 1
      BY <3>1 DEF ResetRunsOnce
    <3>3. resetDepth' = 0
      BY <2>1, <3>2 DEF EndReset
    <3>4. resetting' \in BOOLEAN
      BY <2>1 DEF EndReset
    <3>5. turn' = "idle" /\ value' = AllEmpty
      BY <2>1 DEF EndReset
    <3> QED BY <1>14, <3>3, <3>4, <3>5
  <2>3. /\ UNCHANGED <<page, dom, ruleVars, formSubmitted, filled, approved>>
        /\ errorClass' \subseteq Names /\ unrecorded' \subseteq Names
        /\ summary' \in [errors : BOOLEAN, items : SUBSET Names]
    BY <1>17 DEF FinishReset, ResetThrows, TypeOK
  <2>4. UNCHANGED <<pending, pendingRequest>>
    BY <2>1 DEF ResetForm
  <2> QED BY <2>1, <2>2, <2>3, <2>4, ResetFormTypes DEF TypeOK
<1> QED BY <1>1, <1>2, <1>3, <1>4, <1>5, <1>6, <1>7, <1>8, <1>9, <1>10, <1>11, <1>12,
           <1>13, <1>15, <1>16, <1>17 DEF Next

-----------------------------------------------------------------------------
(* Remote requests.                                                        *)

\* A check starts requests for some of its fields.
LEMMA CheckStartsRequests ==
  ASSUME NEW names \in SUBSET Present, CheckFields(names), UNCHANGED approved
  PROVE  \E asked \in SUBSET {n \in Present : Asks(n)} :
           StartRequests(asked) /\ UNCHANGED approved
<1> DEFINE asked == {n \in names : Asks(n)}
<1>1. StartRequests(asked)
  BY DEF CheckFields
<1>2. asked \in SUBSET {n \in Present : Asks(n)}
  OBVIOUS
<1> HIDE DEF asked
<1> QED BY <1>1, <1>2

\* Loading an element makes its field forget.
LEMMA LoadForgets ==
  ASSUME TypeOK, NEW e \in Elements, Load(e)
  PROVE  Forget({NameOf[e]})
<1> DEFINE n == NameOf[e]
           kept == IF request[n] = NoRequest THEN request[n]
                   ELSE [request[n] EXCEPT !.current = FALSE]
<1>1. n \in Names
  BY ElementsAssumption
<1>2. previous' = [m \in Names |-> IF m \in {n} THEN NotAsked ELSE previous[m]]
  BY <1>1 DEF Load, TypeOK
<1>3. request' = [request EXCEPT ![n] = kept]
  BY DEF Load
<1> HIDE DEF kept
<1>4. request' = [m \in Names |-> IF m \in {n} THEN kept ELSE request[m]]
  BY <1>1, <1>3 DEF TypeOK
<1>5. request' = [m \in Names |-> IF m \in {n} /\ request[m] # NoRequest
                                 THEN [request[m] EXCEPT !.current = FALSE]
                                 ELSE request[m]]
  BY <1>4 DEF kept
<1>6. UNCHANGED <<pending, pendingRequest, approved>>
  BY DEF Load
<1> QED BY <1>2, <1>5, <1>6 DEF Forget

LEMMA ResetForgets ==
  ASSUME TypeOK, ResetForm, UNCHANGED approved
  PROVE  \E names \in SUBSET Names : Forget(names)
<1> DEFINE reset == {n \in Present : HasRules(n)}
<1>1. reset \in SUBSET Names
  BY PresentNames
<1>2. Forget(reset)
  BY DEF ResetForm, Forget
<1> HIDE DEF reset
<1> QED BY <1>1, <1>2

\* What a step does to the remote requests.
LEMMA NextRemote ==
  ASSUME TypeOK, [Next]_vars
  PROVE  RemoteStep
<1> USE DEF remoteVars, Remote
<1>1. CASE UNCHANGED vars
  BY <1>1 DEF vars, RemoteStep
<1>2. CASE \/ \E e \in Elements, skipAttach \in BOOLEAN : parseElement(e, skipAttach)
           \/ \E elements \in SUBSET Elements : parse(elements)
           \/ \E n \in Names : Edit(n)
  BY <1>2 DEF parseElement, parse, Edit, RemoteStep
<1>3. CASE \E e \in Elements : Load(e)
  BY <1>3, LoadForgets, ElementsAssumption DEF RemoteStep
<1>4. ASSUME NEW n \in Names, CheckElement(n)
      PROVE  RemoteStep
  <2>1. {n} \in SUBSET Present /\ CheckFields({n}) /\ UNCHANGED approved
    BY <1>4 DEF CheckElement
  <2> QED BY <2>1, CheckStartsRequests DEF RemoteStep
<1>5. ASSUME NEW n \in Names, AnswerValid(n)
      PROVE  RemoteStep
  <2>1. Answer(n, TRUE)
    BY <1>5 DEF AnswerValid, Answer
  <2> QED BY <2>1 DEF RemoteStep
<1>6. ASSUME NEW n \in Names, AnswerInvalid(n)
      PROVE  RemoteStep
  <2>1. Answer(n, FALSE)
    BY <1>6 DEF AnswerInvalid, Answer
  <2> QED BY <2>1 DEF RemoteStep
<1>7. CASE \E n \in Names : RequestFails(n)
  BY <1>7 DEF RemoteStep
<1>8. CASE Submit \/ Resubmit \/ (Validate /\ hasValidator)
  <2>1. CheckFields(Present) /\ UNCHANGED approved
    BY <1>8 DEF Submit, Resubmit, Validate, form
  <2> QED BY <2>1, CheckStartsRequests DEF RemoteStep
<1>9. CASE SubmitUnchecked \/ (Validate /\ ~hasValidator)
  BY <1>9 DEF SubmitUnchecked, Validate, RemoteStep
<1>10. CASE Reset \/ ResetUnbound \/ ResetByPlugin
  BY <1>10 DEF Reset, ResetUnbound, ResetByPlugin, RemoteStep
<1>11. CASE FinishReset \/ ResetThrows
  <2>1. ResetForm /\ UNCHANGED approved
    BY <1>11 DEF FinishReset, ResetThrows
  <2> QED BY <2>1, ResetForgets DEF RemoteStep
<1> QED BY <1>1, <1>2, <1>3, <1>4, <1>5, <1>6, <1>7, <1>8, <1>9, <1>10, <1>11 DEF Next

LEMMA PendingFinite ==
  ASSUME TypeOK
  PROVE  IsFiniteSet(pending) /\ Cardinality(pending) \in Nat
  BY NamesAssumption, FS_Subset, FS_CardinalityType DEF TypeOK

LEMMA InitPending ==
  ASSUME Init
  PROVE  PendingCounted
  BY FS_EmptySet DEF Init, PendingCounted

\* The fields asked anew count, the others have counted before.
LEMMA StartsAreCounted ==
  ASSUME TypeOK, PendingCounted, NEW asked \in SUBSET Names, StartRequests(asked)
  PROVE  PendingCounted'
<1>1. IsFiniteSet(pending) /\ IsFiniteSet(asked \ pending)
  BY NamesAssumption, PendingFinite, FS_Subset
<1>2. Cardinality(pending \cup (asked \ pending)) =
        Cardinality(pending) + Cardinality(asked \ pending)
  <2>1. pending \cap (asked \ pending) = {}
    OBVIOUS
  <2>2. /\ Cardinality(pending \cap (asked \ pending)) = 0
        /\ Cardinality(pending) \in Nat /\ Cardinality(asked \ pending) \in Nat
    BY <1>1, <2>1, FS_EmptySet, FS_CardinalityType
  <2>3. Cardinality(pending \cup (asked \ pending)) =
          Cardinality(pending) + Cardinality(asked \ pending)
            - Cardinality(pending \cap (asked \ pending))
    BY <1>1, FS_Union, Zenon
  <2> QED BY <2>2, <2>3
<1>3. pending' = pending \cup (asked \ pending)
  BY DEF StartRequests
<1>4. pendingRequest' = Cardinality(pending')
  BY <1>2, <1>3 DEF StartRequests, PendingCounted
<1>5. ASSUME NEW n \in Names, request'[n] # NoRequest
      PROVE  n \in pending'
  BY <1>5 DEF StartRequests, PendingCounted
<1> QED BY <1>4, <1>5 DEF PendingCounted

LEMMA NextPending ==
  ASSUME TypeOK, PendingCounted, [Next]_vars
  PROVE  PendingCounted'
<1>1. CASE UNCHANGED Remote
  BY <1>1 DEF Remote, PendingCounted
<1>2. ASSUME NEW asked \in SUBSET {n \in Present : Asks(n)}, StartRequests(asked)
      PROVE  PendingCounted'
  BY <1>2, PresentNames, StartsAreCounted
<1>3. ASSUME NEW n \in Names, NEW isValid \in BOOLEAN, Answer(n, isValid)
      PROVE  PendingCounted'
  <2>1. n \in pending
    BY <1>3 DEF Answer, RecordAnswer, PendingCounted
  <2>2. /\ Cardinality(pending \ {n}) = Cardinality(pending) - 1
        /\ Cardinality(pending) # 0
    BY <2>1, PendingFinite, FS_RemoveElement, FS_EmptySet
  <2>3. pendingRequest' = Cardinality(pending')
    BY <1>3, <2>2, PendingFinite DEF Answer, StopRequest, PendingCounted
  <2>4. ASSUME NEW m \in Names, request'[m] # NoRequest
        PROVE  m \in pending'
    BY <1>3, <2>4 DEF Answer, RecordAnswer, StopRequest, PendingCounted, TypeOK
  <2> QED BY <2>3, <2>4 DEF PendingCounted
<1>4. ASSUME NEW n \in Names, RequestFails(n)
      PROVE  PendingCounted'
  BY <1>4 DEF RequestFails, PendingCounted, TypeOK
<1>5. ASSUME NEW names \in SUBSET Names, Forget(names)
      PROVE  PendingCounted'
  BY <1>5 DEF Forget, PendingCounted
<1> QED BY <1>1, <1>2, <1>3, <1>4, <1>5, NextRemote DEF RemoteStep

\* Edits and what is approved do not make a request forget its value.
LEMMA InitRemembered ==
  ASSUME Init
  PROVE  RequestsRemembered /\ ValidIsApproved
  BY DEF Init, RequestsRemembered, ValidIsApproved, NotAsked

LEMMA NextRemembered ==
  ASSUME TypeOK, RequestsRemembered, [Next]_vars
  PROVE  RequestsRemembered'
<1>1. CASE UNCHANGED Remote
  BY <1>1 DEF Remote, RequestsRemembered
<1>2. ASSUME NEW asked \in SUBSET {n \in Present : Asks(n)}, StartRequests(asked)
      PROVE  RequestsRemembered'
  <2>1. SUFFICES ASSUME NEW n \in Names, request'[n] # NoRequest
                 PROVE  previous'[n].old = IF request'[n].current THEN request'[n].value
                                                                  ELSE NoValue
    BY DEF RequestsRemembered
  <2>2. CASE n \in asked
    BY <1>2, <2>2 DEF StartRequests, TypeOK
  <2>3. CASE n \notin asked
    BY <1>2, <2>1, <2>3 DEF StartRequests, RequestsRemembered
  <2> QED BY <2>2, <2>3
<1>3. ASSUME NEW n \in Names, NEW isValid \in BOOLEAN, Answer(n, isValid)
      PROVE  RequestsRemembered'
  <2>1. /\ request' = [request EXCEPT ![n] = NoRequest]
        /\ previous' = previous \/ previous' = [previous EXCEPT ![n].valid = isValid]
    BY <1>3 DEF Answer, RecordAnswer
  <2>2. \A m \in Names : previous'[m].old = previous[m].old
    BY <2>1 DEF TypeOK
  <2>3. \A m \in Names : request'[m] # NoRequest => request'[m] = request[m]
    BY <2>1 DEF TypeOK
  <2> QED BY <2>2, <2>3 DEF RequestsRemembered
<1>4. ASSUME NEW n \in Names, RequestFails(n)
      PROVE  RequestsRemembered'
  <2>1. \A m \in Names : request'[m] # NoRequest => request'[m] = request[m]
    BY <1>4 DEF RequestFails, TypeOK
  <2>2. previous' = previous
    BY <1>4 DEF RequestFails
  <2> QED BY <2>1, <2>2 DEF RequestsRemembered
<1>5. ASSUME NEW names \in SUBSET Names, Forget(names)
      PROVE  RequestsRemembered'
  <2>1. SUFFICES ASSUME NEW n \in Names, request'[n] # NoRequest
                 PROVE  previous'[n].old = IF request'[n].current THEN request'[n].value
                                                                  ELSE NoValue
    BY DEF RequestsRemembered
  <2>2. CASE n \in names
    <3>1. previous'[n].old = NoValue
      BY <1>5, <2>2 DEF Forget, NotAsked
    <3>2. ~request'[n].current
      <4>1. request[n] \in [value : Values, current : BOOLEAN]
        BY <1>5, <2>1, <2>2 DEF Forget, TypeOK
      <4>2. request'[n] = [request[n] EXCEPT !.current = FALSE]
        BY <1>5, <2>1, <2>2 DEF Forget
      <4> QED BY <4>1, <4>2
    <3> QED BY <3>1, <3>2
  <2>3. CASE n \notin names
    BY <1>5, <2>1, <2>3 DEF Forget, RequestsRemembered
  <2> QED BY <2>2, <2>3
<1> QED BY <1>1, <1>2, <1>3, <1>4, <1>5, NextRemote DEF RemoteStep

\* Only an answer that is true records a value as valid.
LEMMA NextApproved ==
  ASSUME TypeOK, RequestsRemembered, ValidIsApproved, [Next]_vars
  PROVE  ValidIsApproved'
<1>1. CASE UNCHANGED Remote
  BY <1>1 DEF Remote, ValidIsApproved
<1>2. ASSUME NEW asked \in SUBSET {n \in Present : Asks(n)}, StartRequests(asked),
             UNCHANGED approved
      PROVE  ValidIsApproved'
  <2>1. SUFFICES ASSUME NEW n \in Names, previous'[n].old # NoValue, previous'[n].valid
                 PROVE  n \in pending' \/ <<n, previous'[n].old>> \in approved
    BY <1>2 DEF ValidIsApproved
  <2>2. CASE n \in asked
    BY <1>2, <2>2 DEF StartRequests
  <2>3. CASE n \notin asked
    BY <1>2, <2>1, <2>3 DEF StartRequests, ValidIsApproved
  <2> QED BY <2>2, <2>3
<1>3. ASSUME NEW n \in Names, NEW isValid \in BOOLEAN, Answer(n, isValid)
      PROVE  ValidIsApproved'
  <2> USE DEF Answer, RecordAnswer, StopRequest
  <2>1. SUFFICES ASSUME NEW m \in Names, previous'[m].old # NoValue, previous'[m].valid
                 PROVE  m \in pending' \/ <<m, previous'[m].old>> \in approved'
    BY DEF ValidIsApproved
  <2>2. approved \subseteq approved' /\ pending' = pending \ {n} /\ request[n] # NoRequest
    BY <1>3
  <2>3. CASE m # n
    <3>1. previous'[m] = previous[m]
      BY <1>3, <2>3 DEF TypeOK
    <3> QED BY <2>1, <2>2, <2>3, <3>1 DEF ValidIsApproved
  <2>4. CASE m = n /\ request[n].current
    <3>1. previous' = [previous EXCEPT ![n].valid = isValid]
      BY <1>3, <2>4
    <3>2. isValid /\ previous'[n].old = request[n].value
      BY <2>1, <2>2, <2>4, <3>1 DEF TypeOK, RequestsRemembered
    <3> QED BY <1>3, <2>4, <3>2
  <2>5. CASE m = n /\ ~request[n].current
    <3>1. previous' = previous
      BY <1>3, <2>5
    <3> QED BY <2>1, <2>2, <2>5, <3>1 DEF RequestsRemembered
  <2> QED BY <2>3, <2>4, <2>5
<1>4. ASSUME NEW n \in Names, RequestFails(n)
      PROVE  ValidIsApproved'
  BY <1>4 DEF RequestFails, ValidIsApproved, remoteVars
<1>5. ASSUME NEW names \in SUBSET Names, Forget(names)
      PROVE  ValidIsApproved'
  BY <1>5 DEF Forget, ValidIsApproved, NotAsked
<1> QED BY <1>1, <1>2, <1>3, <1>4, <1>5, NextRemote DEF RemoteStep

-----------------------------------------------------------------------------
(* Results: what is invalid, pending or marked.                            *)

LEMMA InitResults ==
  ASSUME Init
  PROVE  Results
<1> USE DEF Init
<1>1. ValidatorComesFirst
  BY DEF ValidatorComesFirst
<1>2. ResultsHaveRules
  BY DEF ResultsHaveRules
<1> QED BY <1>1, <1>2 DEF Results

\* A field that fails or asks has rules.
LEMMA OutcomesNeedRules ==
  ASSUME NEW n, Fails(n) \/ Asks(n) \/ Passes(n)
  PROVE  HasRules(n)
  BY DEF Fails, Asks, Passes

\* Without a validator no field has rules, a result or a request.
LEMMA NothingBeforeValidator ==
  ASSUME TypeOK, Results, ~hasValidator
  PROVE  /\ pending = {} /\ errors = {}
         /\ \A n \in Names : ~HasRules(n) /\ invalid[n] = "unknown"
<1>1. \A n \in Names : ~HasRules(n) /\ invalid[n] = "unknown"
  BY DEF Results, ValidatorComesFirst, HasRules, NoRules
<1> QED BY <1>1 DEF Results, ResultsHaveRules, TypeOK

\* Attaching a validator gives rules to fields without results, and leaves the
\* rules of one that is there.
LEMMA AttachKeepsResults ==
  ASSUME TypeOK, Results, attachValidation,
         UNCHANGED <<dom, invalid, errors, pending, errorClass>>
  PROVE  Results'
<1>1. Present' = Present
  BY SamePresent
<1>2. CASE hasValidator
  BY <1>1, <1>2 DEF attachValidation, Results, ValidatorComesFirst, ResultsHaveRules, HasRules
<1>3. CASE ~hasValidator
  BY <1>1, <1>3, NothingBeforeValidator
     DEF attachValidation, Results, ValidatorComesFirst, ResultsHaveRules
<1> QED BY <1>2, <1>3

\* What a check of some fields leaves.
LEMMA CheckFieldsResults ==
  ASSUME TypeOK, Results, NEW names \in SUBSET Present, CheckFields(names),
         UNCHANGED <<dom, validator>>
  PROVE  /\ errors' = {n \in names : Fails(n)}
         /\ errors' \cup pending' \cup errorClass' \subseteq Present'
         /\ \A n \in errors' \cup pending' : HasRules(n)'
         /\ pending' = pending \cup {n \in names : Asks(n)}
         /\ errorClass' = (errorClass \cup errors') \ {n \in names : Passes(n)}
         /\ filled' = (filled \cup (errors' \cap ReplaceNames))
                        \ ({n \in names : Passes(n)} \cap ReplaceNames)
         /\ unrecorded' = unrecorded \ (errors' \cup {n \in names : Passes(n)})
<1> DEFINE failed == {n \in names : Fails(n)}
           asked == {n \in names : Asks(n)}
           passed == {n \in names : Passes(n)}
<1>1. errors' = failed /\ StartRequests(asked) /\ Display(failed, passed)
  BY DEF CheckFields
<1>2. failed \subseteq Present /\ asked \subseteq Present
  OBVIOUS
<1>3. \A n \in failed \cup asked : HasRules(n)
  BY OutcomesNeedRules
<1> HIDE DEF failed, asked, passed
<1>4. pending' = pending \cup asked
  BY <1>1 DEF StartRequests
<1>5. errorClass' = (errorClass \cup failed) \ passed
  BY <1>1, DisplayEffect
<1>6. errors' \cup pending' \cup errorClass' \subseteq Present'
  BY <1>1, <1>2, <1>4, <1>5, SamePresent DEF Results, ResultsHaveRules
<1>7. \A n \in errors' \cup pending' : HasRules(n)'
  BY <1>1, <1>3, <1>4, PresentNames DEF Results, ResultsHaveRules, HasRules, TypeOK
<1>8. /\ filled' = (filled \cup (failed \cap ReplaceNames)) \ (passed \cap ReplaceNames)
      /\ unrecorded' = unrecorded \ (failed \cup passed)
  BY <1>1, DisplayEffect
<1> QED BY <1>1, <1>4, <1>5, <1>6, <1>7, <1>8 DEF failed, asked, passed

LEMMA FormResults ==
  ASSUME TypeOK, Results, form, UNCHANGED <<dom, hasValidator, validator>>
  PROVE  Results'
<1>1. CheckFields(Present) /\ invalid' = [n \in Names |-> IF n \in errors' THEN "invalid" ELSE "unknown"]
  BY DEF form
<1>2. /\ errors' \cup pending' \cup errorClass' \subseteq Present'
      /\ \A n \in errors' \cup pending' : HasRules(n)'
  BY <1>1, CheckFieldsResults
<1>3. errors' \subseteq Names
  BY <1>1, CheckFieldsTypes
<1>4. ASSUME ~hasValidator
      PROVE  errors' = {}
  <2>1. \A n \in Names : ~HasRules(n)
    BY <1>4, NothingBeforeValidator
  <2> QED BY <1>2, <1>3, <2>1 DEF HasRules
<1>5. ValidatorComesFirst'
  BY <1>1, <1>4 DEF Results, ValidatorComesFirst
<1> QED BY <1>1, <1>2, <1>3, <1>5 DEF Results, ResultsHaveRules

\* A field that is answered for waited, and so has rules.
LEMMA AnsweredHasRules ==
  ASSUME TypeOK, PendingCounted, Results, NEW n \in Names, request[n] # NoRequest
  PROVE  n \in pending /\ HasRules(n) /\ n \in Present /\ hasValidator
<1>1. n \in pending
  BY DEF PendingCounted
<1>2. HasRules(n) /\ n \in Present
  BY <1>1 DEF Results, ResultsHaveRules
<1>3. hasValidator
  BY <1>1, NothingBeforeValidator
<1> QED BY <1>1, <1>2, <1>3

LEMMA NextResults ==
  ASSUME TypeOK, PendingCounted, Results, [Next]_vars
  PROVE  Results'
<1> USE DEF fieldVars, resultVars, remoteVars, displayVars, ruleVars
<1>1. CASE UNCHANGED vars
  BY <1>1 DEF vars, Results, ValidatorComesFirst, ResultsHaveRules, HasRules, Present
<1>2. ASSUME UNCHANGED <<dom, invalid, errors, pending, errorClass, hasValidator, validator>>
      PROVE  Results'
  BY <1>2, SamePresent DEF Results, ValidatorComesFirst, ResultsHaveRules, HasRules
<1>3. ASSUME NEW e \in Elements, NEW skipAttach \in BOOLEAN, parseElement(e, skipAttach)
      PROVE  Results'
  <2>1. CASE skipAttach
    BY <1>2, <1>3, <2>1 DEF parseElement
  <2>2. CASE ~skipAttach
    BY <1>3, <2>2, AttachKeepsResults DEF parseElement
  <2> QED BY <2>1, <2>2
<1>4. ASSUME NEW elements \in SUBSET Elements, parse(elements)
      PROVE  Results'
  BY <1>4, AttachKeepsResults DEF parse
<1>5. ASSUME NEW e \in Elements, Load(e)
      PROVE  Results'
  <2>1. /\ UNCHANGED <<invalid, errors, pending, hasValidator, validator>>
        /\ errorClass' \subseteq errorClass
    BY <1>5 DEF Load
  <2> QED BY <1>5, <2>1, LoadKeepsFields
          DEF Results, ValidatorComesFirst, ResultsHaveRules, HasRules
<1>6. CASE \E n \in Names : Edit(n) \/ RequestFails(n)
  BY <1>2, <1>6 DEF Edit, RequestFails
<1>7. ASSUME NEW n \in Names, CheckElement(n)
      PROVE  Results'
  <2>1. /\ {n} \in SUBSET Present /\ CheckFields({n}) /\ hasValidator
        /\ UNCHANGED <<dom, hasValidator, validator>>
        /\ invalid' = [invalid EXCEPT ![n] = IF n \in errors' THEN "invalid" ELSE "valid"]
    BY <1>7 DEF CheckElement
  <2>2. /\ errors' \subseteq {n}
        /\ errors' \cup pending' \cup errorClass' \subseteq Present'
        /\ \A m \in errors' \cup pending' : HasRules(m)'
    BY <2>1, CheckFieldsResults
  <2>3. \A m \in Names : invalid'[m] = "invalid" => HasRules(m)'
    BY <2>1, <2>2 DEF Results, ResultsHaveRules, HasRules, TypeOK
  <2>4. errors' \subseteq {m \in Names : invalid'[m] = "invalid"}
    BY <2>1, <2>2 DEF TypeOK
  <2> QED BY <2>1, <2>2, <2>3, <2>4 DEF Results, ValidatorComesFirst, ResultsHaveRules
<1>8. ASSUME NEW n \in Names, AnswerValid(n) \/ AnswerInvalid(n)
      PROVE  Results'
  <2>1. HasRules(n) /\ n \in Present /\ hasValidator
    <3>1. request[n] # NoRequest
      BY <1>8 DEF AnswerValid, AnswerInvalid, RecordAnswer
    <3> QED BY <3>1, AnsweredHasRules
  <2>2. /\ UNCHANGED <<dom, hasValidator, validator>>
        /\ pending' \subseteq pending
        /\ \A m \in Names \ {n} : invalid'[m] = invalid[m]
    BY <1>8 DEF AnswerValid, AnswerInvalid, StopRequest, TypeOK
  <2>3. CASE AnswerValid(n)
    <3>1. errors' = {} /\ errorClass' \subseteq errorClass /\ invalid'[n] = "valid"
      BY <2>3, DisplayEffect DEF AnswerValid, TypeOK
    <3> QED BY <2>1, <2>2, <3>1, SamePresent
            DEF Results, ValidatorComesFirst, ResultsHaveRules, HasRules
  <2>4. CASE AnswerInvalid(n)
    <3>1. /\ errors' = errors \cup {n} /\ errorClass' \subseteq errorClass \cup errors'
          /\ invalid'[n] = "invalid"
      BY <2>4, DisplayEffect DEF AnswerInvalid, TypeOK
    <3> QED BY <2>1, <2>2, <3>1, SamePresent
            DEF Results, ValidatorComesFirst, ResultsHaveRules, HasRules
  <2> QED BY <1>8, <2>3, <2>4
<1>9. CASE SubmitUnchecked \/ Reset \/ ResetUnbound \/ ResetByPlugin
  BY <1>2, <1>9 DEF SubmitUnchecked, Reset, ResetUnbound, ResetByPlugin
<1>10. CASE Submit \/ (Validate /\ hasValidator)
  BY <1>10, FormResults DEF Submit, Validate
<1>11. CASE Validate /\ ~hasValidator
  BY <1>11, SamePresent
     DEF Validate, Results, ValidatorComesFirst, ResultsHaveRules, HasRules
<1>12. CASE Resubmit
  BY <1>12, FormResults DEF Resubmit
<1>13. CASE FinishReset \/ ResetThrows
  <2>1. /\ UNCHANGED <<dom, pending, hasValidator, validator>>
        /\ errors' = {} /\ errorClass' \subseteq errorClass
        /\ invalid' = [n \in Names |-> "unknown"]
    BY <1>13 DEF FinishReset, ResetThrows, ResetForm
  <2> QED BY <2>1, SamePresent DEF Results, ValidatorComesFirst, ResultsHaveRules, HasRules
<1> QED BY <1>1, <1>3, <1>4, <1>5, <1>6, <1>7, <1>8, <1>9, <1>10, <1>11, <1>12, <1>13 DEF Next

-----------------------------------------------------------------------------
(* What the user sees and what is sent.                                    *)

\* Whatever is marked and neither failed nor passed in a check is open, or has
\* no rules and was there before any check.
LEMMA NextExplained ==
  ASSUME TypeOK, PendingCounted, Results, Results', ErrorsAreExplained, [Next]_vars
  PROVE  ErrorsAreExplained'
<1> USE DEF fieldVars, resultVars, remoteVars, displayVars, ruleVars, ErrorsAreExplained
<1>1. CASE UNCHANGED vars
  BY <1>1 DEF vars
<1>2. CASE \/ \E e \in Elements, skipAttach \in BOOLEAN : parseElement(e, skipAttach)
           \/ \E elements \in SUBSET Elements : parse(elements)
           \/ \E n \in Names : Edit(n) \/ RequestFails(n)
  BY <1>2 DEF parseElement, parse, Edit, RequestFails
<1>3. CASE \E e \in Elements : Load(e)
  BY <1>3 DEF Load
<1>4. ASSUME NEW n \in Names, CheckElement(n)
      PROVE  ErrorsAreExplained'
  <2>1. /\ {n} \in SUBSET Present /\ CheckFields({n}) /\ UNCHANGED <<dom, validator>>
        /\ invalid' = [invalid EXCEPT ![n] = IF n \in errors' THEN "invalid" ELSE "valid"]
    BY <1>4 DEF CheckElement
  <2>2. SUFFICES ASSUME NEW m \in errorClass'
                 PROVE  m \in {k \in Names : invalid'[k] = "invalid"} \cup pending' \cup unrecorded'
    OBVIOUS
  <2>3. m \in Names
    BY <2>1, CheckFieldsTypes
  <2>4. CASE m # n
    <3>1. m \in errorClass /\ (m \in unrecorded => m \in unrecorded') /\ pending \subseteq pending'
      BY <2>1, <2>4, CheckFieldsResults
    <3> QED BY <2>1, <2>3, <2>4, <3>1 DEF TypeOK
  <2>5. CASE m = n /\ m \in errors'
    BY <2>1, <2>3, <2>5 DEF TypeOK
  <2>6. CASE m = n /\ m \notin errors' /\ HasRules(n)
    <3>1. Asks(n)
      BY <2>1, <2>2, <2>6, CheckFieldsResults DEF Passes
    <3> QED BY <2>1, <2>6, <3>1, CheckFieldsResults
  <2>7. CASE m = n /\ m \notin errors' /\ ~HasRules(n)
    <3>1. m \in errorClass /\ ~Passes(n)
      BY <2>1, <2>2, <2>7, CheckFieldsResults, OutcomesNeedRules
    <3>2. m \in unrecorded
      BY <2>3, <2>7, <3>1 DEF Results, ResultsHaveRules
    <3> QED BY <2>1, <2>7, <3>1, <3>2, CheckFieldsResults
  <2> QED BY <2>4, <2>5, <2>6, <2>7
<1>5. ASSUME NEW n \in Names, AnswerValid(n) \/ AnswerInvalid(n)
      PROVE  ErrorsAreExplained'
  <2>1. CASE AnswerValid(n)
    <3>1. /\ errorClass' = errorClass \ {n} /\ unrecorded' = unrecorded \ {n}
          /\ pending' = pending \ {n}
          /\ \A m \in Names \ {n} : invalid'[m] = invalid[m]
      BY <2>1, DisplayEffect DEF AnswerValid, StopRequest, TypeOK
    <3> QED BY <3>1
  <2>2. CASE AnswerInvalid(n)
    <3>1. /\ errorClass' = errorClass \cup errors' /\ unrecorded' = unrecorded \ errors'
          /\ pending' = pending \ {n}
          /\ \A m \in Names \ {n} : invalid'[m] = invalid[m]
          /\ invalid'[n] = "invalid"
      <4>1. Display(errors', {})
        BY <2>2 DEF AnswerInvalid
      <4>2. errorClass' = errorClass \cup errors' /\ unrecorded' = unrecorded \ errors'
        BY <4>1, DisplayEffect
      <4> QED BY <2>2, <4>2 DEF AnswerInvalid, StopRequest, TypeOK
    <3>2. errors' \subseteq {m \in Names : invalid'[m] = "invalid"}
      BY DEF Results, ResultsHaveRules
    <3> QED BY <3>1, <3>2
  <2> QED BY <1>5, <2>1, <2>2
<1>6. ASSUME form, UNCHANGED <<dom, validator>>
      PROVE  ErrorsAreExplained'
  <2>1. CheckFields(Present) /\ invalid' = [m \in Names |-> IF m \in errors' THEN "invalid" ELSE "unknown"]
    BY <1>6 DEF form
  <2>2. SUFFICES ASSUME NEW m \in errorClass'
                 PROVE  m \in {k \in Names : invalid'[k] = "invalid"} \cup pending' \cup unrecorded'
    OBVIOUS
  <2>3. m \in Names /\ m \in Present
    BY <1>6, <2>1, CheckFieldsTypes, CheckFieldsResults, SamePresent
  <2>4. CASE m \in errors'
    BY <2>1, <2>3, <2>4
  <2>5. CASE m \notin errors' /\ HasRules(m)
    <3>1. Asks(m)
      BY <1>6, <2>1, <2>2, <2>3, <2>5, CheckFieldsResults DEF Passes
    <3> QED BY <1>6, <2>1, <2>3, <3>1, CheckFieldsResults
  <2>6. CASE m \notin errors' /\ ~HasRules(m)
    <3>1. m \in errorClass /\ ~Passes(m)
      BY <1>6, <2>1, <2>2, <2>6, CheckFieldsResults, OutcomesNeedRules
    <3>2. m \in unrecorded
      BY <2>3, <2>6, <3>1 DEF Results, ResultsHaveRules
    <3> QED BY <1>6, <2>1, <2>6, <3>1, <3>2, CheckFieldsResults
  <2> QED BY <2>4, <2>5, <2>6
<1>7. CASE SubmitUnchecked \/ Reset \/ ResetUnbound \/ ResetByPlugin \/ (Validate /\ ~hasValidator)
  BY <1>7 DEF SubmitUnchecked, Reset, ResetUnbound, ResetByPlugin, Validate
<1>8. CASE Submit \/ Resubmit \/ (Validate /\ hasValidator)
  BY <1>6, <1>8 DEF Submit, Resubmit, Validate
<1>9. CASE FinishReset \/ ResetThrows
  BY <1>9 DEF FinishReset, ResetThrows
<1> QED BY <1>1, <1>2, <1>3, <1>4, <1>5, <1>7, <1>8, <1>9 DEF Next

\* A message stays in a container that is not marked only until its field passes.
LEMMA NextLeftovers ==
  ASSUME TypeOK, TypeOK', PendingCounted, Results, LeftoversAreUnchecked, [Next]_vars
  PROVE  LeftoversAreUnchecked'
<1> USE DEF fieldVars, resultVars, remoteVars, displayVars, ruleVars, LeftoversAreUnchecked
<1>1. CASE UNCHANGED vars
  BY <1>1 DEF vars, HasRules
<1>2. ASSUME UNCHANGED <<invalid, pending, errorClass, filled, validator>>
      PROVE  LeftoversAreUnchecked'
  BY <1>2 DEF HasRules
<1>3. ASSUME attachValidation, UNCHANGED <<invalid, pending, errorClass, filled>>
      PROVE  LeftoversAreUnchecked'
  <2>1. CASE hasValidator
    BY <1>2, <1>3, <2>1 DEF attachValidation
  <2>2. CASE ~hasValidator
    BY <1>3, <2>2, NothingBeforeValidator, PageAssumption DEF TypeOK
  <2> QED BY <2>1, <2>2
<1>4. ASSUME NEW e \in Elements, NEW skipAttach \in BOOLEAN, parseElement(e, skipAttach)
      PROVE  LeftoversAreUnchecked'
  <2>1. CASE skipAttach
    BY <1>2, <1>4, <2>1 DEF parseElement
  <2>2. CASE ~skipAttach
    BY <1>3, <1>4, <2>2 DEF parseElement
  <2> QED BY <2>1, <2>2
<1>5. CASE \E elements \in SUBSET Elements : parse(elements)
  BY <1>3, <1>5 DEF parse
<1>6. CASE \E e \in Elements : Load(e)
  BY <1>6 DEF Load, HasRules
<1>7. CASE \/ \E n \in Names : Edit(n) \/ RequestFails(n)
           \/ SubmitUnchecked \/ Reset \/ ResetUnbound \/ ResetByPlugin
           \/ (Validate /\ ~hasValidator)
  BY <1>2, <1>7 DEF Edit, RequestFails, SubmitUnchecked, Reset, ResetUnbound, ResetByPlugin, Validate
<1>8. ASSUME NEW names \in SUBSET Present, CheckFields(names), UNCHANGED <<dom, validator>>,
             \A m \in Names \ names : invalid'[m] = invalid[m] \/ invalid'[m] = "unknown"
      PROVE  LeftoversAreUnchecked'
  <2>1. SUFFICES ASSUME NEW m \in filled' \ errorClass'
                 PROVE  invalid'[m] = "unknown" \/ m \in pending' \/ ~HasRules(m)'
    OBVIOUS
  <2>2. m \in Names /\ m \in ReplaceNames
    BY PageAssumption DEF TypeOK
  <2>3. m \notin errors'
    <3>1. ASSUME m \in errors' PROVE FALSE
      <4>1. m \notin {n \in names : Passes(n)}
        BY <1>8, <3>1, CheckFieldsResults, FailsOrPasses
      <4> QED BY <1>8, <2>1, <3>1, <4>1, CheckFieldsResults
    <3> QED BY <3>1
  <2>4. m \in filled /\ (m \in names => ~Passes(m))
    BY <1>8, <2>1, <2>2, <2>3, CheckFieldsResults
  <2>5. m \notin errorClass
    BY <1>8, <2>1, <2>4, CheckFieldsResults
  <2>6. CASE m \in names
    <3>1. ~HasRules(m) \/ Asks(m)
      BY <1>8, <2>3, <2>4, <2>6, CheckFieldsResults DEF Passes
    <3>2. Asks(m) => m \in pending'
      BY <1>8, <2>6, CheckFieldsResults
    <3> QED BY <1>8, <3>1, <3>2 DEF HasRules
  <2>7. CASE m \notin names
    <3>1. pending \subseteq pending'
      BY <1>8, CheckFieldsResults
    <3> QED BY <1>8, <2>2, <2>4, <2>5, <2>7, <3>1 DEF HasRules
  <2> QED BY <2>6, <2>7
<1>9. ASSUME NEW n \in Names, CheckElement(n)
      PROVE  LeftoversAreUnchecked'
  <2>1. /\ {n} \in SUBSET Present /\ CheckFields({n}) /\ UNCHANGED <<dom, validator>>
        /\ \A m \in Names \ {n} : invalid'[m] = invalid[m]
    BY <1>9 DEF CheckElement, TypeOK
  <2> QED BY <1>8, <2>1
<1>10. CASE Submit \/ Resubmit \/ (Validate /\ hasValidator)
  <2>1. CheckFields(Present) /\ UNCHANGED <<dom, validator>>
    BY <1>10 DEF Submit, Resubmit, Validate, form
  <2>2. invalid' = [m \in Names |-> IF m \in errors' THEN "invalid" ELSE "unknown"]
    BY <1>10 DEF Submit, Resubmit, Validate, form
  <2>3. errors' \subseteq Present
    BY <2>1, CheckFieldsResults
  <2> QED BY <1>8, <2>1, <2>2, <2>3
<1>11. ASSUME NEW n \in Names, AnswerValid(n)
      PROVE  LeftoversAreUnchecked'
  <2>1. /\ errorClass' = errorClass \ {n} /\ filled' = filled \ ({n} \cap ReplaceNames)
        /\ pending' = pending \ {n} /\ validator' = validator
        /\ \A m \in Names \ {n} : invalid'[m] = invalid[m]
    BY <1>11, DisplayEffect DEF AnswerValid, StopRequest, TypeOK
  <2>2. filled' \subseteq Names /\ n \notin filled'
    BY <2>1, PageAssumption DEF TypeOK
  <2> QED BY <2>1, <2>2 DEF HasRules
<1>12. ASSUME NEW n \in Names, AnswerInvalid(n)
      PROVE  LeftoversAreUnchecked'
  <2>1. /\ errorClass' = errorClass \cup errors' /\ n \in errors'
        /\ filled' = filled \cup (errors' \cap ReplaceNames)
        /\ pending' = pending \ {n} /\ validator' = validator
        /\ \A m \in Names \ {n} : invalid'[m] = invalid[m]
    BY <1>12, DisplayEffect DEF AnswerInvalid, StopRequest, TypeOK
  <2>2. filled' \subseteq Names
    BY PageAssumption DEF TypeOK
  <2> QED BY <2>1, <2>2 DEF HasRules
<1>13. CASE FinishReset \/ ResetThrows
  <2>1. invalid' = [m \in Names |-> "unknown"]
    BY <1>13 DEF FinishReset, ResetThrows, ResetForm
  <2> QED BY <2>1, PageAssumption DEF TypeOK
<1> QED BY <1>1, <1>4, <1>5, <1>6, <1>7, <1>9, <1>10, <1>11, <1>12, <1>13 DEF Next

\* Every name in a new summary has failed in the check, or was among the errors.
LEMMA NextSummary ==
  ASSUME TypeOK, TypeOK', PendingCounted, Results, Results', [Next]_vars
  PROVE  summary' # summary /\ summary'.errors =>
           summary'.items \subseteq {n \in errorClass' : invalid'[n] = "invalid"}
<1> USE DEF fieldVars, resultVars, remoteVars, displayVars, ruleVars
<1>1. SUFFICES ASSUME summary' # summary, summary'.errors
               PROVE  summary'.items \subseteq {n \in errorClass' : invalid'[n] = "invalid"}
  OBVIOUS
<1>2. errors' \subseteq {n \in Names : invalid'[n] = "invalid"}
  BY DEF Results, ResultsHaveRules
<1>3. ASSUME onErrors(errors'), errors' \subseteq errorClass'
      PROVE  summary'.items \subseteq {n \in errorClass' : invalid'[n] = "invalid"}
  BY <1>1, <1>2, <1>3 DEF onErrors
<1>4. CASE Submit \/ Resubmit \/ (Validate /\ hasValidator)
  <2>1. CheckFields(Present) /\ UNCHANGED <<dom, validator>> /\ onErrors(errors')
    BY <1>4 DEF Submit, Resubmit, Validate, form
  <2>2. errors' \subseteq errorClass'
    BY <2>1, CheckFieldsResults, FailsOrPasses
  <2> QED BY <1>3, <2>1, <2>2
<1>5. ASSUME NEW n \in Names, AnswerInvalid(n)
      PROVE  summary'.items \subseteq {m \in errorClass' : invalid'[m] = "invalid"}
  <2>1. errorClass' = errorClass \cup errors' /\ onErrors(errors')
    BY <1>1, <1>5, DisplayEffect DEF AnswerInvalid
  <2> QED BY <1>3, <2>1
<1>6. CASE FinishReset
  <2>1. summary' = [summary EXCEPT !.errors = FALSE]
    BY <1>6 DEF FinishReset
  <2> QED BY <1>1, <2>1 DEF TypeOK
<1>7. CASE UNCHANGED summary
  BY <1>1, <1>7
<1>8. UNCHANGED vars => UNCHANGED summary
  BY DEF vars
<1>9. ASSUME \/ \E e \in Elements, skipAttach \in BOOLEAN : parseElement(e, skipAttach)
             \/ \E elements \in SUBSET Elements : parse(elements)
             \/ \E e \in Elements : Load(e)
             \/ \E n \in Names : Edit(n) \/ CheckElement(n) \/ AnswerValid(n) \/ RequestFails(n)
             \/ SubmitUnchecked \/ (Validate /\ ~hasValidator)
             \/ Reset \/ ResetUnbound \/ ResetByPlugin \/ ResetThrows
      PROVE  UNCHANGED summary
  BY <1>9 DEF parseElement, parse, Load, Edit, CheckElement, AnswerValid, RequestFails,
              SubmitUnchecked, Validate, Reset, ResetUnbound, ResetByPlugin, ResetThrows
<1> QED BY <1>4, <1>5, <1>6, <1>7, <1>8, <1>9 DEF Next

\* A form is sent when its check has failed nothing and nothing is open.
LEMMA SendingIsValid ==
  ASSUME TypeOK, PendingCounted', TypeOK', ValidIsApproved', form, pendingRequest' = 0, errors' = {},
         UNCHANGED <<dom, value, validator, approved>>
  PROVE  SentIsValid'
<1>1. CheckFields(Present)
  BY DEF form
<1>2. Present' = Present
  BY SamePresent
<1>3. pending' = {}
  <2>1. IsFiniteSet(pending')
    BY NamesAssumption, FS_Subset DEF TypeOK
  <2> QED BY <2>1, FS_EmptySet DEF PendingCounted
<1>4. SUFFICES ASSUME NEW n \in Present, HasRules(n)
               PROVE  /\ value[n] \in Allowed[validator[n]]
                      /\ ReachesRemote(n) => <<n, value[n]>> \in approved
  BY <1>2 DEF SentIsValid, HasRules, ReachesRemote
<1>5. ~Fails(n)
  BY <1>1, <1>4 DEF CheckFields
<1>6. StartRequests({m \in Present : Asks(m)})
  BY <1>1 DEF CheckFields
<1>7. {m \in Present : Asks(m)} = {}
  BY <1>3, <1>6 DEF StartRequests
<1>8. value[n] \in Allowed[validator[n]]
  BY <1>4, <1>5 DEF Fails
<1>9. ASSUME ReachesRemote(n)
      PROVE  <<n, value[n]>> \in approved
  <2>1. previous[n].old = value[n] /\ previous[n].valid
    BY <1>4, <1>5, <1>7, <1>9 DEF Asks, Fails
  <2>2. n \in Names /\ value[n] # NoValue
    BY PresentNames, ValuesAssumption DEF TypeOK
  <2>3. previous'[n] = previous[n]
    BY <1>6, <1>7, <2>2 DEF StartRequests
  <2> QED BY <1>3, <2>1, <2>2, <2>3 DEF ValidIsApproved
<1> QED BY <1>8, <1>9

LEMMA NextSent ==
  ASSUME TypeOK, TypeOK', PendingCounted', ValidIsApproved', SentIsValid, [Next]_vars
  PROVE  SentIsValid'
<1> USE DEF fieldVars, ruleVars, Idle
<1>1. CASE UNCHANGED vars
  BY <1>1 DEF vars, SentIsValid, Present, HasRules, ReachesRemote
<1>2. CASE Submit \/ Resubmit
  <2>1. /\ form /\ UNCHANGED <<dom, value, validator, approved>>
        /\ page' = "sent" => errors' = {} /\ pendingRequest' = 0
    BY <1>2 DEF Submit, Resubmit
  <2>2. CASE page' = "sent"
    BY <2>1, <2>2, SendingIsValid
  <2>3. CASE page' # "sent"
    BY <2>3 DEF SentIsValid
  <2> QED BY <2>2, <2>3
<1>3. CASE SubmitUnchecked
  BY <1>3 DEF SubmitUnchecked, SentIsValid
<1>4. ASSUME \/ \E e \in Elements, skipAttach \in BOOLEAN : parseElement(e, skipAttach)
             \/ \E elements \in SUBSET Elements : parse(elements)
             \/ \E e \in Elements : Load(e)
             \/ \E n \in Names : \/ Edit(n) \/ CheckElement(n) \/ AnswerValid(n)
                                 \/ AnswerInvalid(n) \/ RequestFails(n)
             \/ Validate \/ Reset \/ ResetUnbound \/ ResetByPlugin \/ FinishReset \/ ResetThrows
      PROVE  page' = "open"
  BY <1>4 DEF parseElement, parse, Load, Edit, CheckElement, AnswerValid, AnswerInvalid, RequestFails,
              Validate, Reset, ResetUnbound, ResetByPlugin, FinishReset, ResetThrows, ResetForm
<1> QED BY <1>1, <1>2, <1>3, <1>4 DEF Next, SentIsValid

-----------------------------------------------------------------------------
(* The theorems.                                                           *)

LEMMA InitInvariant == Init => IInv
<1> SUFFICES ASSUME Init PROVE IInv
  OBVIOUS
<1>1. SentIsValid
  BY DEF Init, SentIsValid
<1>2. ErrorsAreExplained /\ LeftoversAreUnchecked
  BY DEF Init, ErrorsAreExplained, LeftoversAreUnchecked
<1> QED BY <1>1, <1>2, InitTypes, InitReset, InitPending, InitRemembered, InitResults DEF IInv

LEMMA NextInvariant == IInv /\ [Next]_vars => IInv'
<1> SUFFICES ASSUME IInv, [Next]_vars PROVE IInv'
  OBVIOUS
<1> USE DEF IInv
<1>1. TypeOK'
  BY NextTypes
<1>2. ResetRunsOnce'
  BY NextReset
<1>3. PendingCounted'
  BY NextPending
<1>4. RequestsRemembered'
  BY NextRemembered
<1>5. ValidIsApproved'
  BY NextApproved
<1>6. SentIsValid'
  BY <1>1, <1>3, <1>5, NextSent
<1>7. Results'
  BY NextResults
<1>8. ErrorsAreExplained'
  BY <1>7, NextExplained
<1>9. LeftoversAreUnchecked'
  BY <1>1, NextLeftovers
<1> QED BY <1>1, <1>2, <1>3, <1>4, <1>5, <1>6, <1>7, <1>8, <1>9

\* The inductive invariant holds throughout, whatever the user, the page's
\* script and the server do.
THEOREM Invariant == Spec => []IInv
<1> QED BY InitInvariant, NextInvariant, PTL DEF Spec

\* Every variable of the form keeps its type.
THEOREM TypeCorrect == Spec => []TypeOK
<1>1. IInv => TypeOK
  BY DEF IInv
<1> QED BY <1>1, Invariant, PTL

\* A form that the validator lets go holds only values its rules accept and the
\* server has approved, for any number of fields with remote rules.
THEOREM SendsValidForms == Spec => []SentIsValid
<1>1. IInv => SentIsValid
  BY DEF IInv
<1> QED BY <1>1, Invariant, PTL

\* The counter of open requests never differs from the number of fields that
\* wait, so the guard against a negative one is never needed.
THEOREM CountsPendingFields == Spec => []PendingCounted
<1>1. IInv => PendingCounted
  BY DEF IInv
<1> QED BY <1>1, Invariant, PTL

\* A mark beside a field always has a reason.
THEOREM ExplainsErrors == Spec => []ErrorsAreExplained
<1>1. IInv => ErrorsAreExplained
  BY DEF IInv
<1> QED BY <1>1, Invariant, PTL

\* A message that is left in a container that is not marked belongs to a field
\* without a result: no field is shown as valid with its last error beside it.
THEOREM LeavesUncheckedOnly == Spec => []LeftoversAreUnchecked
<1>1. IInv => LeftoversAreUnchecked
  BY DEF IInv
<1> QED BY <1>1, Invariant, PTL

\* onReset runs once for a reset, however often resetForm resets the form.
THEOREM ResetsOnce == Spec => []ResetRunsOnce
<1>1. IInv => ResetRunsOnce
  BY DEF IInv
<1> QED BY <1>1, Invariant, PTL

\* A summary, when written, lists fields that are shown as invalid.
THEOREM SummariesListInvalid == Spec => SummaryListsInvalid
<1>1. IInv /\ IInv' /\ [Next]_vars =>
        [summary' # summary /\ summary'.errors =>
           summary'.items \subseteq {n \in errorClass' : invalid'[n] = "invalid"}]_vars
  BY NextSummary DEF IInv
<1> QED BY <1>1, Invariant, PTL DEF Spec, SummaryListsInvalid

=============================================================================
