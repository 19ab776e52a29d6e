------------------------- MODULE UnobtrusiveValidation -------------------------
(***************************************************************************)
(* A form that jquery.validate.unobtrusive validates with jQuery Validate. *)
(* The rules parsed from the fields are kept with the form and copied by   *)
(* the validator when it is made; handlers of the validator's events keep  *)
(* the message containers and the summary. Rules named "remote" ask the    *)
(* server, whose answers come later, out of order with what the user does. *)
(*                                                                         *)
(* Fields come and go (script may load a part of the form), so a field's   *)
(* name is kept apart from the element that bears it now. The rules of a   *)
(* name are represented by the element they were parsed from. JavaScript   *)
(* runs one handler at a time: `turn` says that one is under way.          *)
(***************************************************************************)
EXTENDS Naturals, FiniteSets

CONSTANTS
  Names,           \* names of the form's fields
  Elements,        \* elements with data-val=true, in the form or loaded later
  NameOf,          \* the name of each
  Values,          \* what a field may hold
  Empty,           \* the value of a field left, or reset to be, empty
  Allowed,         \* the values that an element's rules accept, "remote" apart
  RemoteElements,  \* the elements with a remote rule
  ReplaceNames,    \* names whose container has data-valmsg-replace=true
  FormPlugin,      \* is the form plugin loaded, so that resetForm resets the form?
  NoElement, NoValue, NoRequest

ASSUME NamesAssumption == IsFiniteSet(Names)

ASSUME ElementsAssumption ==
  /\ NameOf \in [Elements -> Names]
  /\ Allowed \in [Elements -> SUBSET Values]
  /\ RemoteElements \subseteq Elements
  /\ NoElement \notin Elements

ASSUME ValuesAssumption ==
  /\ Empty \in Values
  /\ NoValue \notin Values
  /\ NoRequest \notin [value : Values, current : BOOLEAN]

ASSUME PageAssumption ==
  /\ ReplaceNames \subseteq Names
  /\ FormPlugin \in BOOLEAN

VARIABLES
  page,            \* "open", or "sent" once the browser submits the form
  turn,            \* "idle", or the call that is under way
  dom,             \* the elements in the form
  value,           \* the value of each field
  hasInfo,         \* has the form an unobtrusiveValidation object?
  rules,           \* its options.rules
  resetBound,      \* is onReset bound to the form?
  hasValidator,    \* has the form a validator?
  validator,       \* the validator's copy of the rules
  invalid,         \* validator.invalid
  submitted,       \* the names in validator.submitted
  errors,          \* the names in validator.errorMap and errorList
  previous,        \* previousValue of each field: last value asked, and the result
  request,         \* the remote request of each field that is under way
  pending,         \* the names in validator.pending
  pendingRequest,  \* validator.pendingRequest
  formSubmitted,   \* validator.formSubmitted
  errorClass,      \* the names whose container has class field-validation-error
  filled,          \* the names whose container holds a message, with replace
  summary,         \* the validation summary: its class and its items
  resetting,       \* the flag __jquery_unobtrusive_validation_form_reset
  resetDepth,      \* calls of onReset past the flag that have not ended
  approved,        \* history: what the server has answered true for
  unrecorded       \* history: errors rendered by the server or left by a failed reset

fieldVars == <<page, dom, value>>
ruleVars == <<hasInfo, rules, resetBound, hasValidator, validator>>
resultVars == <<invalid, submitted, errors>>
remoteVars == <<previous, request, pending, pendingRequest>>
displayVars == <<errorClass, filled, unrecorded>>
resetVars == <<resetting, resetDepth>>

vars == <<fieldVars, turn, ruleVars, resultVars, remoteVars, formSubmitted,
          displayVars, summary, resetVars, approved>>

Idle == page = "open" /\ turn = "idle"

Present == {NameOf[e] : e \in dom}

NoRules == [n \in Names |-> NoElement]

\* What previousValue makes of a field that has not been asked about.
NotAsked == [old |-> NoValue, valid |-> TRUE]

AllEmpty == [n \in Names |-> Empty]

\* The browser renders the page, with errors if the server refused the form.
Init ==
  /\ page = "open"
  /\ turn = "idle"
  /\ dom \in {d \in SUBSET Elements :
                \A e1, e2 \in d : NameOf[e1] = NameOf[e2] => e1 = e2}
  /\ value = AllEmpty
  /\ hasInfo = FALSE
  /\ rules = NoRules
  /\ resetBound = FALSE
  /\ hasValidator = FALSE
  /\ validator = NoRules
  /\ invalid = [n \in Names |-> "unknown"]
  /\ submitted = {}
  /\ errors = {}
  /\ previous = [n \in Names |-> NotAsked]
  /\ request = [n \in Names |-> NoRequest]
  /\ pending = {}
  /\ pendingRequest = 0
  /\ formSubmitted = FALSE
  /\ errorClass \in SUBSET Present
  /\ filled = errorClass \cap ReplaceNames
  /\ summary = [errors |-> errorClass # {}, items |-> errorClass]
  /\ resetting = FALSE
  /\ resetDepth = 0
  /\ approved = {}
  /\ unrecorded = errorClass

(***************************************************************************)
(* Parsing. attachValidation passes the rules to validate(), which makes a *)
(* validator with a copy of them, or returns the one there is.             *)
(***************************************************************************)
attachValidation ==
  /\ resetBound' = TRUE
  /\ hasValidator' = TRUE
  /\ validator' = IF hasValidator THEN validator ELSE rules'

Parsed(elements) ==
  [n \in Names |-> IF \E e \in elements : NameOf[e] = n
                   THEN CHOOSE e \in elements : NameOf[e] = n
                   ELSE rules[n]]

\* parseElement of one element, told to attach or not.
parseElement(e, skipAttach) ==
  /\ Idle
  /\ e \in dom
  /\ hasInfo' = TRUE
  /\ rules' = Parsed({e})
  /\ IF skipAttach
     THEN UNCHANGED <<resetBound, hasValidator, validator>>
     ELSE attachValidation
  /\ UNCHANGED <<fieldVars, turn, resultVars, remoteVars, formSubmitted,
                 displayVars, summary, resetVars, approved>>

\* parse of a part of the page above, in or around the form: the elements in it
\* are parsed, and the form is attached if any of its elements has data-val=true.
\* When the document is ready it is parsed as a whole.
parse(elements) ==
  /\ Idle
  /\ dom # {}
  /\ elements \subseteq dom
  /\ hasInfo' = TRUE
  /\ rules' = Parsed(elements)
  /\ attachValidation
  /\ UNCHANGED <<fieldVars, turn, resultVars, remoteVars, formSubmitted,
                 displayVars, summary, resetVars, approved>>

(***************************************************************************)
(* Checking fields. A method of the rules fails, or the remote method has  *)
(* an answer for the value, or it asks the server and leaves it open.      *)
(***************************************************************************)
HasRules(n) == validator[n] # NoElement

\* The remote method runs last, and not for an empty value.
ReachesRemote(n) ==
  /\ validator[n] \in RemoteElements
  /\ value[n] \in Allowed[validator[n]]
  /\ value[n] # Empty

Asks(n) == HasRules(n) /\ ReachesRemote(n) /\ previous[n].old # value[n]

Fails(n) ==
  /\ HasRules(n)
  /\ \/ value[n] \notin Allowed[validator[n]]
     \/ ReachesRemote(n) /\ previous[n].old = value[n] /\ ~previous[n].valid

Passes(n) == HasRules(n) /\ ~Asks(n) /\ ~Fails(n)

\* Defect: every request counts one more.
StartRequestsCountAll(asked) ==
  /\ previous' = [n \in Names |-> IF n \in asked THEN [previous[n] EXCEPT !.old = value[n]]
                                                ELSE previous[n]]
  /\ request' = [n \in Names |-> IF n \in asked THEN [value |-> value[n], current |-> TRUE]
                                               ELSE request[n]]
  /\ pending' = pending \cup asked
  /\ pendingRequest' = pendingRequest + Cardinality(asked)

\* A request replaces the one under way for its field, which is aborted and
\* never answered; only a field with none counts one more.
StartRequests(asked) ==
  /\ previous' = [n \in Names |-> IF n \in asked THEN [previous[n] EXCEPT !.old = value[n]]
                                                ELSE previous[n]]
  /\ request' = [n \in Names |-> IF n \in asked THEN [value |-> value[n], current |-> TRUE]
                                               ELSE request[n]]
  /\ pending' = pending \cup asked
  /\ pendingRequest' = pendingRequest + Cardinality(asked \ pending)

\* What the containers show: which are marked, and which hold a message.
Shown == [errorClass |-> errorClass, filled |-> filled]

\* Defect: messages are put into every container.
onErrorReplacesAll(shown, names) ==
  [errorClass |-> shown.errorClass \cup names, filled |-> shown.filled \cup names]

\* A new label marks its container and, with replace, goes into it.
onError(shown, names) ==
  [errorClass |-> shown.errorClass \cup names,
   filled |-> shown.filled \cup (names \cap ReplaceNames)]

\* Defects: the mark of the container stays; so does the message.
onSuccessKeepsMark(shown, names) ==
  [errorClass |-> shown.errorClass,
   filled |-> shown.filled \ (names \cap ReplaceNames)]

onSuccessKeepsMessage(shown, names) ==
  [errorClass |-> shown.errorClass \ names, filled |-> shown.filled]

onSuccess(shown, names) ==
  [errorClass |-> shown.errorClass \ names,
   filled |-> shown.filled \ (names \cap ReplaceNames)]

\* showErrors makes a new label for each failed and each passed field, since
\* onError takes from a label the class by which it would be found again.
Display(failed, passed) ==
  LET shown == onSuccess(onError(Shown, failed \cup passed), passed) IN
  /\ errorClass' = shown.errorClass
  /\ filled' = shown.filled
  /\ unrecorded' = unrecorded \ (failed \cup passed)

\* Checking some fields, as element() and form() do.
CheckFields(names) ==
  LET failed == {n \in names : Fails(n)} IN
  /\ errors' = failed
  /\ submitted' = submitted \cup failed
  /\ StartRequests({n \in names : Asks(n)})
  /\ Display(failed, {n \in names : Passes(n)})

\* Defect: the list is not emptied first.
onErrorsAppend(names) ==
  summary' = IF names = {} THEN summary
             ELSE [errors |-> TRUE, items |-> summary.items \cup names]

\* onErrors: the summary is rewritten when there is something to list.
onErrors(names) ==
  summary' = IF names = {} THEN summary ELSE [errors |-> TRUE, items |-> names]

form ==
  /\ CheckFields(Present)
  /\ invalid' = [n \in Names |-> IF n \in errors' THEN "invalid" ELSE "unknown"]
  /\ onErrors(errors')

\* The user changes a field.
Edit(n) ==
  /\ Idle
  /\ n \in Present
  /\ \E v \in Values \ {value[n]} : value' = [value EXCEPT ![n] = v]
  /\ UNCHANGED <<page, dom, turn, ruleVars, resultVars, remoteVars, formSubmitted,
                 displayVars, summary, resetVars, approved>>

\* onfocusout, onkeyup and onclick check a field that was in a submitted form or
\* checked before, or holds something.
CheckElement(n) ==
  /\ Idle
  /\ hasValidator
  /\ n \in Present
  /\ n \in submitted \/ invalid[n] # "unknown" \/ value[n] # Empty
  /\ CheckFields({n})
  /\ invalid' = [invalid EXCEPT ![n] = IF n \in errors' THEN "invalid" ELSE "valid"]
  /\ UNCHANGED <<fieldVars, turn, ruleVars, formSubmitted, summary, resetVars, approved>>

\* The user submits a form that has no validator: nothing is checked.
SubmitUnchecked ==
  /\ Idle
  /\ ~hasValidator
  /\ page' = "sent"
  /\ UNCHANGED <<dom, value, turn, ruleVars, resultVars, remoteVars, formSubmitted,
                 displayVars, summary, resetVars, approved>>

\* Defect: sent without waiting for answers.
SubmitWithoutWaiting ==
  /\ Idle
  /\ hasValidator
  /\ form
  /\ formSubmitted' = formSubmitted
  /\ page' = IF errors' = {} THEN "sent" ELSE "open"
  /\ UNCHANGED <<dom, value, turn, ruleVars, resetVars, approved>>

\* The submit handler: refused, waiting for answers, or sent.
Submit ==
  /\ Idle
  /\ hasValidator
  /\ form
  /\ formSubmitted' = (formSubmitted \/ (errors' = {} /\ pendingRequest' > 0))
  /\ page' = IF errors' = {} /\ pendingRequest' = 0 THEN "sent" ELSE "open"
  /\ UNCHANGED <<dom, value, turn, ruleVars, resetVars, approved>>

\* The form's validate(), which unobtrusive Ajax calls: it makes a validator
\* without options if there is none.
Validate ==
  /\ Idle
  /\ hasInfo
  /\ IF hasValidator
     THEN form /\ UNCHANGED hasValidator
     ELSE hasValidator' = TRUE /\ UNCHANGED <<resultVars, remoteVars, displayVars, summary>>
  /\ UNCHANGED <<fieldVars, turn, hasInfo, rules, resetBound, validator,
                 formSubmitted, resetVars, approved>>

\* Script loads an element, with a container of its own, in addition or in place
\* of the one that bears its name; it may be the same markup once more.
Load(e) ==
  LET n == NameOf[e] IN
  /\ Idle
  /\ dom' = {d \in dom : NameOf[d] # n} \cup {e}
  /\ value' = [value EXCEPT ![n] = Empty]
  /\ previous' = [previous EXCEPT ![n] = NotAsked]
  /\ request' = [request EXCEPT ![n] = IF @ = NoRequest THEN @ ELSE [@ EXCEPT !.current = FALSE]]
  /\ errorClass' = errorClass \ {n}
  /\ filled' = filled \ {n}
  /\ unrecorded' = unrecorded \ {n}
  /\ UNCHANGED <<page, turn, ruleVars, resultVars, pending, pendingRequest,
                 formSubmitted, summary, resetVars, approved>>

(***************************************************************************)
(* Answers to remote requests, and stopRequest. The result goes into the   *)
(* previousValue the request was made with, if the field still has it.     *)
(***************************************************************************)
StopRequest(n) ==
  /\ pending' = pending \ {n}
  /\ pendingRequest' = IF pendingRequest > 0 THEN pendingRequest - 1 ELSE 0

RecordAnswer(n, isValid) ==
  /\ request[n] # NoRequest
  /\ request' = [request EXCEPT ![n] = NoRequest]
  /\ previous' = IF request[n].current THEN [previous EXCEPT ![n].valid = isValid]
                                       ELSE previous

\* After the last answer, a form that was submitted is checked once more.
AnswerValid(n) ==
  /\ Idle
  /\ RecordAnswer(n, TRUE)
  /\ StopRequest(n)
  /\ errors' = {}
  /\ invalid' = [invalid EXCEPT ![n] = "valid"]
  /\ Display({}, {n})
  /\ turn' = IF pendingRequest' = 0 /\ formSubmitted THEN "resubmit" ELSE "idle"
  /\ approved' = approved \cup {<<n, request[n].value>>}
  /\ UNCHANGED <<fieldVars, ruleVars, submitted, formSubmitted, summary, resetVars>>

\* showErrors adds the field to the errors of the last check and shows them all.
AnswerInvalid(n) ==
  LET ends == pendingRequest' = 0 /\ formSubmitted IN
  /\ Idle
  /\ RecordAnswer(n, FALSE)
  /\ StopRequest(n)
  /\ errors' = errors \cup {n}
  /\ invalid' = [invalid EXCEPT ![n] = "invalid"]
  /\ Display(errors', {})
  /\ IF ends THEN onErrors(errors') ELSE UNCHANGED summary
  /\ formSubmitted' = (formSubmitted /\ ~ends)
  /\ UNCHANGED <<fieldVars, turn, ruleVars, submitted, resetVars, approved>>

\* There is no handler for a request that fails.
RequestFails(n) ==
  /\ Idle
  /\ request[n] # NoRequest
  /\ request' = [request EXCEPT ![n] = NoRequest]
  /\ UNCHANGED <<fieldVars, turn, ruleVars, resultVars, previous, pending, pendingRequest,
                 formSubmitted, displayVars, summary, resetVars, approved>>

\* The rest of stopRequest. Checking may ask again, and then the form stays.
Resubmit ==
  LET sends == errors' = {} /\ pendingRequest' = 0 IN
  /\ page = "open"
  /\ turn = "resubmit"
  /\ form
  /\ page' = IF sends THEN "sent" ELSE "open"
  /\ formSubmitted' = ~sends
  /\ turn' = "idle"
  /\ UNCHANGED <<dom, value, ruleVars, resetVars, approved>>

(***************************************************************************)
(* Resetting. The reset event reaches onReset before the browser resets    *)
(* the fields; resetForm may itself reset the form, and so onReset runs    *)
(* inside onReset.                                                         *)
(***************************************************************************)
\* Defect: the flag is not tested.
onResetAgain ==
  /\ resetting' = TRUE
  /\ resetDepth' = resetDepth + 1
  /\ UNCHANGED value

onReset ==
  IF resetting
  THEN value' = AllEmpty /\ UNCHANGED <<resetting, resetDepth>>
  ELSE /\ resetting' = TRUE
       /\ resetDepth' = resetDepth + 1
       /\ UNCHANGED value

Reset ==
  /\ Idle
  /\ resetBound
  /\ onReset
  /\ turn' = IF resetting THEN "idle" ELSE IF FormPlugin THEN "plugin" ELSE "resetForm"
  /\ UNCHANGED <<page, dom, ruleVars, resultVars, remoteVars, formSubmitted,
                 displayVars, summary, approved>>

\* Without the handler only the browser acts.
ResetUnbound ==
  /\ Idle
  /\ ~resetBound
  /\ value' = AllEmpty
  /\ UNCHANGED <<page, dom, turn, ruleVars, resultVars, remoteVars, formSubmitted,
                 displayVars, summary, resetVars, approved>>

\* The form plugin resets the form, which is an event of its own.
ResetByPlugin ==
  /\ page = "open"
  /\ turn = "plugin"
  /\ onReset
  /\ turn' = IF resetting THEN "resetForm" ELSE "plugin"
  /\ UNCHANGED <<page, dom, ruleVars, resultVars, remoteVars, formSubmitted,
                 displayVars, summary, approved>>

\* resetForm forgets the results, and the previous values of validated fields.
\* The labels have lost the class by which it would find and empty them.
ResetForm ==
  LET reset == {n \in Present : HasRules(n)} IN
  /\ page = "open"
  /\ turn = "resetForm"
  /\ invalid' = [n \in Names |-> "unknown"]
  /\ submitted' = {}
  /\ errors' = {}
  /\ previous' = [n \in Names |-> IF n \in reset THEN NotAsked ELSE previous[n]]
  /\ request' = [n \in Names |->
                   IF n \in reset /\ request[n] # NoRequest
                   THEN [request[n] EXCEPT !.current = FALSE] ELSE request[n]]
  /\ UNCHANGED <<pending, pendingRequest>>

\* Out of onReset, by its end or by an exception: the flag is removed, and the
\* browser resets the fields.
EndReset ==
  /\ resetting' = FALSE
  /\ resetDepth' = resetDepth - 1
  /\ turn' = "idle"
  /\ value' = AllEmpty

FinishReset ==
  /\ ResetForm
  /\ EndReset
  /\ summary' = [summary EXCEPT !.errors = FALSE]
  /\ errorClass' = {}
  /\ unrecorded' = {}
  /\ UNCHANGED <<page, dom, ruleVars, formSubmitted, filled, approved>>

\* The page's unhighlight setting, which resetForm calls last, throws.
ResetThrows ==
  /\ ResetForm
  /\ EndReset
  /\ unrecorded' = errorClass
  /\ UNCHANGED <<page, dom, ruleVars, formSubmitted, errorClass, filled, summary, approved>>

Next ==
  \/ \E e \in Elements, skipAttach \in BOOLEAN : parseElement(e, skipAttach)
  \/ \E elements \in SUBSET Elements : parse(elements)
  \/ \E e \in Elements : Load(e)
  \/ \E n \in Names :
       \/ Edit(n)
       \/ CheckElement(n)
       \/ AnswerValid(n)
       \/ AnswerInvalid(n)
       \/ RequestFails(n)
  \/ SubmitUnchecked
  \/ Submit
  \/ Resubmit
  \/ Validate
  \/ Reset
  \/ ResetUnbound
  \/ ResetByPlugin
  \/ FinishReset
  \/ ResetThrows

Spec == Init /\ [][Next]_vars

-----------------------------------------------------------------------------
TypeOK ==
  /\ page \in {"open", "sent"}
  /\ turn \in {"idle", "resubmit", "plugin", "resetForm"}
  /\ dom \subseteq Elements
  /\ value \in [Names -> Values]
  /\ hasInfo \in BOOLEAN
  /\ rules \in [Names -> Elements \cup {NoElement}]
  /\ resetBound \in BOOLEAN
  /\ hasValidator \in BOOLEAN
  /\ validator \in [Names -> Elements \cup {NoElement}]
  /\ invalid \in [Names -> {"unknown", "valid", "invalid"}]
  /\ submitted \subseteq Names
  /\ errors \subseteq Names
  /\ previous \in [Names -> [old : Values \cup {NoValue}, valid : BOOLEAN]]
  /\ request \in [Names -> [value : Values, current : BOOLEAN] \cup {NoRequest}]
  /\ pending \subseteq Names
  /\ pendingRequest \in Nat
  /\ formSubmitted \in BOOLEAN
  /\ errorClass \subseteq Names
  /\ filled \subseteq ReplaceNames
  /\ summary \in [errors : BOOLEAN, items : SUBSET Names]
  /\ resetting \in BOOLEAN
  /\ resetDepth \in Nat
  /\ approved \subseteq Names \X Values
  /\ unrecorded \subseteq Names

\* Whatever was edited, loaded, reset or answered late in the meantime: a form
\* sent by the submit handler, or by the last answer it waited for, holds only
\* values that the validator's rules accept and the server has answered true for.
SentIsValid ==
  page = "sent" /\ hasValidator =>
    \A n \in Present : HasRules(n) =>
      /\ value[n] \in Allowed[validator[n]]
      /\ ReachesRemote(n) => <<n, value[n]>> \in approved

\* "Sometimes synchronization fails, make sure pendingRequest is never < 0": it
\* does not fail. Requests that are aborted, fail or outlive a reset included,
\* the counter is the number of fields waiting, and each request has its field.
PendingCounted ==
  /\ pendingRequest = Cardinality(pending)
  /\ \A n \in Names : request[n] # NoRequest => n \in pending

\* A container is marked as an error only while the validator holds its field for
\* invalid or waits for the answer about it, unless the server rendered the error
\* or a reset that failed halfway left it.
ErrorsAreExplained ==
  errorClass \subseteq {n \in Names : invalid[n] = "invalid"} \cup pending \cup unrecorded

\* onReset leaves the message in a container it marks valid. Such a message is
\* gone once its field has been checked with an outcome.
LeftoversAreUnchecked ==
  \A n \in filled \ errorClass : invalid[n] = "unknown" \/ n \in pending \/ ~HasRules(n)

\* A reset that resets the form again does not run onReset again and again, and
\* the flag does not outlive the reset, whichever way it ends.
ResetRunsOnce ==
  /\ resetDepth <= 1
  /\ resetting <=> resetDepth = 1
  /\ resetting <=> turn \in {"plugin", "resetForm"}

\* Each item of a new summary belongs to a field that is invalid and is shown as
\* such beside the field, also when the late answer to a request wrote it.
SummaryListsInvalid ==
  [][summary' # summary /\ summary'.errors =>
       summary'.items \subseteq {n \in errorClass' : invalid'[n] = "invalid"}]_vars

=============================================================================
