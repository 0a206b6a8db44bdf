------------------------ MODULE UnobtrusiveValidation ------------------------
(***************************************************************************)
(* The script wwwroot/lib/jquery-validation-unobtrusive, which the sample  *)
(* of the pagination library loads (_ValidationScriptsPartial.cshtml): it  *)
(* turns data-val-* attributes into rules of jQuery Validate, and shows    *)
(* the validator's verdicts in the page.  One form of one page is          *)
(* modelled, with the validator as far as the script relies on it: check,  *)
(* showLabel, resetForm and the remote method with its late answers.       *)
(*                                                                         *)
(* A page's scripts run one at a time, so an action is a whole handler;    *)
(* only a reset is cut into its calls, since resetForm may raise the event *)
(* again.  A name is the tuple of its parts: user.name is <<"user",        *)
(* "name">>.  A value is a number, 0 for blank, which stands for whatever  *)
(* the rules look at: how long, how large, or the text of its digits.      *)
(***************************************************************************)
EXTENDS Naturals, Sequences, SequencesExt, FiniteSets, TLC

CONSTANTS
  Fields,       \* the names of the fields, in document order
  Value,        \* what a field can hold, 0 when blank
  Pages,        \* the pages: see PageOK
  Methods,      \* the validation methods jQuery Validate has been given
  WellFormed,   \* the values email, url, digits, ... accept
  NonAlpha,     \* how many non-word characters a value has
  Free,         \* the data the remote action of the server accepts
  Undefined,    \* a missing attribute or element
  Empty,        \* an attribute without text
  NoForm

Field == Range(Fields)
NoRequest == <<>>       \* nothing sent
NoLabel == <<>>

\* A bound is a number, a pattern the set of the values it matches; minlength has
\* a min only and maxlength a max only, as the tag helpers write them.
AttributesOK(a) ==
  LET Has(n, p) == n \in DOMAIN a /\ p \in DOMAIN a[n] IN
  /\ \A n \in DOMAIN a : "message" \in DOMAIN a[n]
  /\ \A n \in {"length", "range", "minlength", "maxlength", "password"},
        p \in {"min", "max"} : Has(n, p) => a[n][p] \in Nat
  /\ ~Has("minlength", "max") /\ ~Has("maxlength", "min")
  /\ Has("password", "nonalphamin") => a.password.nonalphamin \in Nat \ {0}
  /\ Has("password", "regex") => a.password.regex \subseteq Value
  /\ "regex" \in DOMAIN a => Has("regex", "pattern") /\ a.regex.pattern \subseteq Value
  /\ "equalto" \in DOMAIN a => Has("equalto", "other")

\* What the script reads from a page: the attributes of each field (by adapter,
\* then by parameter, its own value being "message"), its type, the element
\* with data-valmsg-for (with data-valmsg-replace or without), whether there is
\* a summary, which fields scripts add later, whether the option errorClass
\* names another class, and whether the form plugin gives $.fn.resetForm.
PageOK(p) ==
  /\ DOMAIN p.attrs = Field /\ \A f \in Field : AttributesOK(p.attrs[f])
  /\ p.type \in [Field -> {"text", "checkbox"}]
  /\ p.place \in [Field -> {"none", "keep", "replace"}]
  /\ p.late \subseteq Field /\ p.inForm \subseteq Field
  /\ {p.summary, p.ownClass, p.plugin} \subseteq BOOLEAN

ASSUME PagesAssumption ==
  /\ Value \subseteq Nat /\ 0 \in Value /\ \A p \in Pages : PageOK(p)
  /\ "__dummy__" \in Methods /\ NonAlpha \in [Value -> Nat]

ASSUME NoValuesAssumption ==
  \A none \in {Undefined, Empty} :
    /\ none # TRUE /\ none \notin Nat /\ none \notin Nat \X Nat
    /\ \A pattern \in SUBSET Value : none # pattern

VARIABLES
  page,           \* the page, fixed when it is served
  dom,            \* the fields it holds now
  options,        \* valInfo.options.rules and messages, by field; or NoForm
  settings,       \* the validator's own copy of them; or NoForm
  handlers,       \* how many reset handlers the form has
  value,          \* what each field holds
  form,           \* what the validator and the page keep and show
  formSubmitted,  \* a submit waits for remote answers
  flag,           \* __jquery_unobtrusive_validation_form_reset
  stack,          \* the calls of a reset, innermost first
  sent            \* how the form was submitted by the last step, if it was

vars == <<page, dom, options, settings, handlers, value, form, formSubmitted,
          flag, stack, sent>>
pageVars == <<page, dom, options, settings, handlers>>
resetVars == <<flag, stack>>

----------------------------------------------------------------------------
(* The adapters: attributes to rules.                                      *)

Truthy(v) == v \notin {Undefined, Empty}

GetModelPrefix(name) == Front(name)

AppendModelPrefix(name, prefix) ==
  IF Head(name) = "*" THEN prefix \o Tail(name) ELSE name

\* $(form).find(":input"), and the one of a name
Inputs == dom \cap page.inForm
Lookup(name) == IF name \in Inputs THEN name ELSE Undefined

AdapterOf(name, params, kind, rules) ==
  [name |-> name, params |-> params, kind |-> kind, rules |-> rules]

AddBool(name) == AdapterOf(name, {}, "bool", <<name>>)
AddMinMax(name, min, max, both) ==
  AdapterOf(name, {"min", "max"}, "minmax", <<min, max, both>>)
AddSingleVal(name, attribute, rule) ==
  AdapterOf(name, {attribute}, "single", <<rule, attribute>>)
Password(attribute, rule) ==
  AdapterOf("password", {attribute}, "optional", <<rule, attribute>>)

\* In the order they are added.  The adapter of passwords sets up to three rules
\* and stands here once for each; every other sets one at most.
Adapters ==
  (IF "extension" \in Methods
   THEN <<AddSingleVal("accept", "mimtype", "accept"),
          AddSingleVal("extension", "extension", "extension")>>
   ELSE <<AddSingleVal("extension", "extension", "accept")>>) \o
  <<AddSingleVal("regex", "pattern", "regex"),
    AddBool("creditcard"), AddBool("date"), AddBool("digits"),
    AddBool("email"), AddBool("number"), AddBool("url"),
    AddMinMax("length", "minlength", "maxlength", "rangelength"),
    AddMinMax("range", "min", "max", "range"),
    AddMinMax("minlength", "minlength", "undefined", "undefined"),
    AddMinMax("maxlength", "minlength", "maxlength", "undefined"),
    AdapterOf("equalto", {"other"}, "equalto", <<>>),
    AdapterOf("required", {}, "required", <<>>),
    AdapterOf("remote", {"url", "type", "additionalfields"}, "remote", <<>>),
    Password("min", "minlength"), Password("nonalphamin", "nonalphamin"),
    Password("regex", "regex"),
    AdapterOf("fileextensions", {"extensions"}, "single",
              <<"extension", "extensions">>)>>

\* A call of setValidationValues, or none
RuleCall(rule, val) == [rule |-> rule, val |-> val]
NoCall == RuleCall("none", Undefined)

MinMaxShadowed(a, p) ==                 \* Changed for comparison: no third case
  IF Truthy(p.min) THEN RuleCall(a.rules[1], p.min)
  ELSE IF Truthy(p.max) THEN RuleCall(a.rules[2], p.max)
  ELSE NoCall

MinMax(a, p) ==
  IF Truthy(p.min) /\ Truthy(p.max) THEN RuleCall(a.rules[3], <<p.min, p.max>>)
  ELSE IF Truthy(p.min) THEN RuleCall(a.rules[1], p.min)
  ELSE IF Truthy(p.max) THEN RuleCall(a.rules[2], p.max)
  ELSE NoCall

\* A remote rule names the additional fields; their values are read when a
\* request is made, by the functions of value.data.
RemoteFields(f, p) ==
  IF Truthy(p.additionalfields)
  THEN {AppendModelPrefix(n, GetModelPrefix(f)) : n \in p.additionalfields}
  ELSE {f}

Params(f, a) ==
  LET attr == page.attrs[f][a.name]
  IN  [n \in a.params |-> IF n \in DOMAIN attr THEN attr[n] ELSE Undefined]

\* The call an adapter makes for a field that has its attribute.
Adapt(a, f) ==
  LET p == Params(f, a) IN
  CASE a.kind = "bool" -> RuleCall(a.rules[1], TRUE)
    [] a.kind = "single" -> RuleCall(a.rules[1], p[a.rules[2]])
    [] a.kind = "minmax" -> MinMax(a, p)
    [] a.kind = "equalto" ->
         RuleCall("equalTo", Lookup(AppendModelPrefix(p.other, GetModelPrefix(f))))
    [] a.kind = "required" ->
         IF page.type[f] = "checkbox" THEN NoCall ELSE RuleCall("required", TRUE)
    [] a.kind = "remote" -> RuleCall("remote", RemoteFields(f, p))
    [] a.kind = "optional" ->
         IF Truthy(p[a.rules[2]]) THEN RuleCall(a.rules[1], p[a.rules[2]]) ELSE NoCall

\* The adapters that set a rule of a field, by their place in the order they run
\* in, and the call and the message of each.
Adapted(f) ==
  {i \in DOMAIN Adapters :
     Adapters[i].name \in DOMAIN page.attrs[f] /\ Adapt(Adapters[i], f) # NoCall}
CallOf(f, i) == Adapt(Adapters[i], f)
MessageOf(f, i) == page.attrs[f][Adapters[i].name].message

\* What the calls i \in S for one rule leave: its place is that of the first, its
\* value that of the last, its message that of the last one that has any.
SetValidationValues(f, S) ==
  LET said == {i \in S : Truthy(MessageOf(f, i))}
  IN  [at |-> Min(S), val |-> CallOf(f, Max(S)).val,
       message |-> IF said = {} THEN "default" ELSE MessageOf(f, Max(said))]

NoRules == [rule \in {} |-> Undefined]

Dummy == [at |-> Len(Adapters) + 1, val |-> TRUE, message |-> "default"]

\* The rules of a field by name.
Parsed(f) ==
  [rule \in {CallOf(f, i).rule : i \in Adapted(f)} \cup {"__dummy__"} |->
     IF rule = "__dummy__" THEN Dummy
     ELSE SetValidationValues(f, {i \in Adapted(f) : CallOf(f, i).rule = rule})]

----------------------------------------------------------------------------
(* Checking a field.                                                       *)

\* The first power of ten above a number
PowerAbove[n \in Nat] == IF n < 10 THEN 10 ELSE 10 * PowerAbove[n \div 10]

\* How JavaScript compares the texts of two numbers: digit by digit, as if they
\* came after a point, and of two that only differ in zeros the shorter first
TextAtMost(m, n) ==
  LET left == m * PowerAbove[n]
      right == n * PowerAbove[m]
  IN  left < right \/ (left = right /\ m <= n)

\* The script's own methods
AcceptsOwn(rule, val, v) ==
  CASE rule = "nonalphamin" -> NonAlpha[v] > 0 /\ NonAlpha[v] >= val
    [] rule = "regex" -> v = 0 \/ v \in val
    [] OTHER -> TRUE

\* The validator's: normalizeRules makes numbers of lengths and of pairs, but a
\* min or a max of its own stays a text, like the value.  Of all methods only
\* required, equalTo and nonalphamin reject a blank.
Accepts(rule, val, v) ==
  CASE rule = "required" -> v # 0
    [] rule = "equalTo" -> v = value[val]
    [] rule = "min" -> v = 0 \/ TextAtMost(val, v)
    [] rule = "max" -> v = 0 \/ TextAtMost(v, val)
    [] rule = "minlength" -> v = 0 \/ v >= val
    [] rule = "maxlength" -> v = 0 \/ v <= val
    [] rule \in {"range", "rangelength"} -> v = 0 \/ (v >= val[1] /\ v <= val[2])
    [] rule \in {"creditcard", "date", "digits", "email", "number", "url"} ->
         v = 0 \/ v \in WellFormed
    [] OTHER -> AcceptsOwn(rule, val, v)

\* Of some rules of a field the one that is tried first: required comes before
\* all others.
FirstOf(rules, names) ==
  IF "required" \in names THEN "required"
  ELSE CHOOSE r \in names : \A other \in names : rules[r].at <= rules[other].at

Remote(f) == settings[f]["remote"]

DataOfParse(f) ==         \* Changed for comparison: other fields not read again
  [n \in {f} \cup Remote(f).val |-> IF n = f THEN value[n] ELSE 0]

\* What the remote method would send now: a field that is not in the page is
\* undefined, which $.param writes like a blank.
Data(f) ==
  [n \in {f} \cup Remote(f).val |-> IF n \in Inputs THEN value[n] ELSE 0]

Verdict(kind, text) == [kind |-> kind, text |-> text]
Ok == Verdict("ok", "")
Pending == Verdict("pending", "")
Thrown == Verdict("throws", "")
Unchecked == Verdict("unchecked", "")
Error(text) == Verdict("error", text)
IsError(o) == o.kind = "error"

\* The first rule that a value fails decides, a rule without a method by an
\* exception; remote comes last.
Outcome(fm, f) ==
  LET rules == settings[f]
      bad == {r \in DOMAIN rules \ {"remote"} :
                r \notin Methods \/ ~Accepts(r, rules[r].val, value[f])}
      first == FirstOf(rules, bad)
  IN  IF bad # {}
      THEN IF first \in Methods THEN Error(rules[first].message) ELSE Thrown
      ELSE IF "remote" \notin DOMAIN rules \/ value[f] = 0 THEN Ok
      ELSE IF fm.previous[f].old # Data(f) THEN Pending
      ELSE IF fm.previous[f].valid THEN Ok ELSE Error(Remote(f).message)

(* Showing a verdict.  box[f] is the element with data-valmsg-for = f: its *)
(* class, and the label in it, with its link (unobtrusiveContainer).       *)

\* errorPlacement: a label that takes the class off is never found again.
OnError(box, place, text) ==
  CASE place = "none" -> box
    [] place = "keep" -> [box EXCEPT !.class = "error"]
    [] place = "replace" ->
         [class |-> "error", label |-> [text |-> text, linked |-> TRUE]]

OnSuccessUnemptied(box, linked) ==      \* Changed for comparison: not emptied
  IF linked THEN [box EXCEPT !.class = "valid"] ELSE box

\* success: only a label that still has its container
OnSuccess(box, linked) ==
  IF linked THEN [class |-> "valid", label |-> NoLabel] ELSE box

\* An existing label gets the text and is not placed again.  It is found only
\* if it kept its class, the one of the option errorClass.  No message is empty,
\* so a label without one is a success.
ShowLabel(f, box, o) ==
  LET found == page.ownClass /\ box.label # NoLabel
      linked == found => box.label.linked
      placed == IF found THEN [box EXCEPT !.label.text = o.text]
                ELSE OnError(box, page.place[f], o.text)
  IN  IF IsError(o) THEN placed ELSE OnSuccess(placed, linked)

\* invalidHandler: the summary lists the errors, and is never taken back here
OnErrors(fm) ==
  IF page.summary /\ DOMAIN fm.errorMap # {}
  THEN [fm EXCEPT !.summary = [class |-> "error", list |-> fm.errorMap]]
  ELSE fm

NoErrors == [f \in {} |-> ""]

Show(fm, out) ==
  [fm EXCEPT
    !.box = [f \in Field |->
       IF f \in DOMAIN out /\ out[f] # Pending THEN ShowLabel(f, @[f], out[f])
                                              ELSE @[f]],
    !.verdict = [f \in Field |->
       IF f \in DOMAIN out /\ out[f] # Pending THEN out[f] ELSE @[f]]]

Throws(fm, S) == \E f \in S : Outcome(fm, f) = Thrown

\* The validator's form() without its summary (S is all elements) or element().
\* A check that throws leaves the fields after it unchecked and shows nothing.
Checked(fm, S) ==
  LET out == [f \in S |-> Outcome(fm, f)]
      Place(f) == CHOOSE i \in 1 .. Len(Fields) : Fields[i] = f
      done == {f \in S : \A g \in S : out[g] = Thrown => Place(f) < Place(g)}
      asks == {f \in done : out[f] = Pending}
      tried == [fm EXCEPT
        !.previous = [f \in Field |->
            IF f \in asks THEN [@[f] EXCEPT !.old = Data(f)] ELSE @[f]],
        !.asked = [f \in Field |->
            IF f \in asks THEN [data |-> Data(f), own |-> TRUE] ELSE @[f]],
        !.pending = @ \cup asks,
        !.errorMap = [f \in {g \in done : IsError(out[g])} |-> out[f].text],
        !.successList = {f \in done : out[f] = Ok}]
  IN  IF Throws(fm, S) THEN tried ELSE Show(tried, out)

Elements == IF settings = NoForm THEN {} ELSE Inputs \cap DOMAIN settings

Form(fm) ==
  IF Throws(fm, Elements) THEN Checked(fm, Elements)
  ELSE OnErrors(Checked(fm, Elements))

Valid(fm) == DOMAIN fm.errorMap = {}

----------------------------------------------------------------------------
(* The page.                                                               *)

Blank == [f \in Field |-> 0]

FreshForm ==
  [box |-> [f \in Field |-> [class |-> "valid", label |-> NoLabel]],
   verdict |-> [f \in Field |-> Unchecked],
   summary |-> [class |-> "valid", list |-> NoErrors],
   errorMap |-> NoErrors, successList |-> {},
   previous |-> [f \in Field |-> [old |-> NoRequest, valid |-> TRUE]],
   asked |-> [f \in Field |-> NoRequest],
   pending |-> {}]

Init ==
  /\ page \in Pages /\ dom = Field \ page.late
  /\ options = NoForm /\ settings = NoForm /\ handlers = 0
  /\ value = Blank /\ form = FreshForm /\ formSubmitted = FALSE
  /\ flag = FALSE /\ stack = <<>> /\ sent = "no"

Idle == stack = <<>>
Marked == {f \in Inputs : DOMAIN page.attrs[f] # {}}
Known == IF options = NoForm THEN [f \in {} |-> NoRules] ELSE options

\* The rules of the fields S are made anew.
Reparsed(S) ==
  [f \in S \cup DOMAIN Known |-> IF f \in S THEN Parsed(f) ELSE Known[f]]

\* $.extend leaves out what is undefined.
Copied(rules) ==
  [r \in {n \in DOMAIN rules : rules[n].val # Undefined} |-> rules[r]]

\* .off(reset).on(reset).validate(options): a form keeps its first validator,
\* which copied the options.
AttachValidation(opts) ==
  /\ handlers' = 1
  /\ settings' = IF settings # NoForm THEN settings
                 ELSE [f \in DOMAIN opts |-> Copied(opts[f])]

\* parse(document), when the page is ready and whenever it calls it again
Parse ==
  /\ Idle /\ Marked # {}
  /\ options' = Reparsed(Marked)
  /\ AttachValidation(options')
  /\ sent' = "no"
  /\ UNCHANGED <<page, dom, value, form, formSubmitted, resetVars>>

ParseElement(f, skipAttach) ==
  /\ Idle /\ f \in Marked
  /\ options' = Reparsed({f})
  /\ IF skipAttach THEN UNCHANGED <<handlers, settings>>
     ELSE AttachValidation(options')
  /\ sent' = "no"
  /\ UNCHANGED <<page, dom, value, form, formSubmitted, resetVars>>

\* A script of the page adds a field.
AddField(f) ==
  /\ Idle /\ f \notin dom /\ dom' = dom \cup {f} /\ sent' = "no"
  /\ UNCHANGED <<page, options, settings, handlers, value, form,
                 formSubmitted, resetVars>>

Edit(f, v) ==
  /\ Idle /\ f \in dom /\ value' = [value EXCEPT ![f] = v] /\ sent' = "no"
  /\ UNCHANGED <<pageVars, form, formSubmitted, resetVars>>

\* The validator checks a field on its events.
CheckElement(f) ==
  /\ Idle /\ f \in Elements
  /\ form' = Checked(form, {f}) /\ sent' = "no"
  /\ UNCHANGED <<pageVars, value, formSubmitted, resetVars>>

\* validationInfo.validate, which unobtrusive Ajax calls
Validate ==
  /\ Idle /\ settings # NoForm
  /\ form' = Form(form) /\ sent' = "no"
  /\ UNCHANGED <<pageVars, value, formSubmitted, resetVars>>

\* A handler that throws does not keep the form from being sent.
Submit ==
  /\ Idle /\ settings # NoForm
  /\ form' = Form(form)
  /\ LET waits == Valid(form') /\ form'.pending # {} IN
     IF Throws(form, Elements)
     THEN sent' = "unchecked" /\ UNCHANGED formSubmitted
     ELSE /\ formSubmitted' = (formSubmitted \/ waits)
          /\ sent' = IF Valid(form') /\ ~waits THEN "checked" ELSE "no"
  /\ UNCHANGED <<pageVars, value, resetVars>>

\* showErrors shows all that is listed, also what a check that threw has left.
Listed(fm) ==
  [f \in DOMAIN fm.errorMap \cup fm.successList |->
     IF f \in DOMAIN fm.errorMap THEN Error(fm.errorMap[f]) ELSE Ok]

\* The callback of the remote request, up to stopRequest: an acceptance lists
\* the field alone, a rejection adds it to the errors of the last check.
Answered(f) ==
  LET r == form.asked[f]
      done == [form EXCEPT !.asked[f] = NoRequest, !.pending = @ \ {f},
                 !.previous[f].valid = IF r.own THEN r.data \in Free ELSE @]
      now == IF r.data \in Free
             THEN [done EXCEPT !.errorMap = NoErrors, !.successList = {f}]
             ELSE [done EXCEPT !.errorMap = (f :> Remote(f).message) @@ @,
                               !.successList = @ \ {f}]
  IN  Show(now, Listed(now))

RemoteAccepts(f) ==
  /\ Idle /\ form.asked[f] # NoRequest /\ form.asked[f].data \in Free
  /\ LET now == Answered(f)
         again == Form(now)
         goes == Valid(again) /\ again.pending = {} /\ ~Throws(now, Elements)
     IN  IF formSubmitted /\ now.pending = {}
         THEN /\ form' = IF goes THEN Form(again) ELSE again
              /\ sent' = IF goes THEN "checked" ELSE "no"
              /\ formSubmitted' = ~goes
         ELSE form' = now /\ sent' = "no" /\ UNCHANGED formSubmitted
  /\ UNCHANGED <<pageVars, value, resetVars>>

RemoteRejects(f) ==
  /\ Idle /\ form.asked[f] # NoRequest /\ form.asked[f].data \notin Free
  /\ LET last == formSubmitted /\ Answered(f).pending = {}
     IN  /\ form' = IF last THEN OnErrors(Answered(f)) ELSE Answered(f)
         /\ formSubmitted' = (formSubmitted /\ ~last)
  /\ sent' = "no"
  /\ UNCHANGED <<pageVars, value, resetVars>>

\* There is no error callback: the field stays pending.
RequestFails(f) ==
  /\ Idle /\ form.asked[f] # NoRequest
  /\ form' = [form EXCEPT !.asked[f] = NoRequest] /\ sent' = "no"
  /\ UNCHANGED <<pageVars, value, formSubmitted, resetVars>>

----------------------------------------------------------------------------
(* A reset: the event, its handlers, then the browser empties the fields.  *)

Event == [i \in 1 .. handlers |-> "onReset"]

Return ==
  /\ stack' = Tail(stack)
  /\ value' = IF stack' = <<>> THEN Blank ELSE value

ResetPressed ==
  /\ Idle /\ stack' = Event /\ sent' = "no"
  /\ value' = IF stack' = <<>> THEN Blank ELSE value
  /\ UNCHANGED <<pageVars, form, formSubmitted, flag>>

OnReset ==
  /\ ~Idle /\ Head(stack) = "onReset"
  /\ IF flag THEN Return /\ UNCHANGED flag
     ELSE flag' = TRUE /\ stack' = <<"resetForm">> \o Tail(stack) /\ UNCHANGED value
  /\ UNCHANGED <<pageVars, form, formSubmitted, sent>>

\* $.fn.resetForm of the form plugin calls the form's reset().
PluginResets ==
  /\ ~Idle /\ Head(stack) = "resetForm" /\ page.plugin
  /\ stack' = Event \o <<"afterPlugin">> \o Tail(stack)
  /\ UNCHANGED <<pageVars, value, form, formSubmitted, flag, sent>>

PluginThrowsStuck ==               \* Changed for comparison: without the finally
  /\ ~Idle /\ Head(stack) = "afterPlugin"
  /\ stack' = <<>> /\ value' = Blank
  /\ UNCHANGED <<pageVars, form, formSubmitted, flag, sent>>

\* What resetForm throws passes the finally and leaves all handlers.
PluginThrows ==
  /\ ~Idle /\ Head(stack) = "afterPlugin"
  /\ flag' = FALSE /\ stack' = <<>> /\ value' = Blank
  /\ UNCHANGED <<pageVars, form, formSubmitted, sent>>

\* The validator forgets and hides its errors; then the finally, and what is
\* left of onReset: the labels lose their link and stay where they are.
ResetForm ==
  /\ ~Idle /\ Head(stack) = (IF page.plugin THEN "afterPlugin" ELSE "resetForm")
  /\ flag' = FALSE
  /\ form' = [form EXCEPT
       !.verdict = [f \in Field |-> Unchecked],
       !.errorMap = NoErrors, !.successList = {},
       !.summary.class = "valid",
       !.previous = FreshForm.previous,
       !.asked = [f \in Field |->
          IF @[f] = NoRequest THEN @[f] ELSE [@[f] EXCEPT !.own = FALSE]],
       !.box = [f \in Field |-> [class |-> "valid",
          label |-> IF @[f].label = NoLabel THEN NoLabel
                    ELSE [text |-> IF page.ownClass THEN "" ELSE @[f].label.text,
                          linked |-> FALSE]]]]
  /\ Return
  /\ UNCHANGED <<pageVars, formSubmitted, sent>>

Next ==
  \/ Parse
  \/ \E f \in Field, skipAttach \in BOOLEAN : ParseElement(f, skipAttach)
  \/ \E f \in Field : AddField(f)
  \/ \E f \in Field, v \in Value : Edit(f, v)
  \/ \E f \in Field : CheckElement(f)
  \/ Validate
  \/ Submit
  \/ \E f \in Field : RemoteAccepts(f)
  \/ \E f \in Field : RemoteRejects(f)
  \/ \E f \in Field : RequestFails(f)
  \/ ResetPressed
  \/ OnReset
  \/ PluginResets
  \/ PluginThrows
  \/ ResetForm

Spec == Init /\ [][Next]_vars

----------------------------------------------------------------------------
(* Properties.                                                             *)

\* What the attributes of a field ask of a value v, read one by one.  A range
\* with one bound only asks for it as text: 10 comes before 2.
Meant(f, v) ==
  LET a == page.attrs[f]
      Has(n, p) == n \in DOMAIN a /\ p \in DOMAIN a[n]
      Between(n, lo, hi) ==
        /\ lo /\ Has(n, "min") => v >= a[n].min
        /\ hi /\ Has(n, "max") => v <= a[n].max
      InRange ==
        IF Has("range", "min") /\ Has("range", "max") THEN Between("range", TRUE, TRUE)
        ELSE /\ Has("range", "min") => TextAtMost(a.range.min, v)
             /\ Has("range", "max") => TextAtMost(v, a.range.max)
  IN  /\ "required" \in DOMAIN a /\ page.type[f] # "checkbox" => v # 0
      /\ Has("equalto", "other") =>
           v = value[AppendModelPrefix(a.equalto.other, Front(f))]
      /\ Has("password", "nonalphamin") => NonAlpha[v] >= a.password.nonalphamin
      /\ v # 0 =>
           /\ InRange /\ Between("length", TRUE, TRUE)
           /\ Between("minlength", TRUE, FALSE)
           /\ Between("maxlength", FALSE, TRUE)
           /\ Between("password", TRUE, FALSE)
           /\ Has("regex", "pattern") => v \in a.regex.pattern
           /\ Has("password", "regex") => v \in a.password.regex
           /\ DOMAIN a \cap
                {"creditcard", "date", "digits", "email", "number", "url"} # {} =>
                v \in WellFormed

AllAccept(f, v) ==
  \A r \in DOMAIN settings[f] : Accepts(r, settings[f][r].val, v)

\* Two attributes of a field set the same rule to different values.
Contested(f) ==
  \E i, j \in Adapted(f) :
    CallOf(f, i).rule = CallOf(f, j).rule /\ CallOf(f, i).val # CallOf(f, j).val

\* The rules a form is validated by accept every value that meets what its
\* attributes ask for, and no other, whichever adapters ran and in whichever
\* order the page parsed it (the adapters, 258-428).  What data-val-range asks for
\* is an order of numbers if it has both bounds, and of texts if it has one: the
\* validator makes numbers of pairs only (normalizeRules), so that a min of 2
\* refuses 10, whatever its message says.  Two exceptions: of two
\* attributes that set the same rule the last adapter's wins, so more is
\* accepted; and an equalto field whose other field was not in the page yet when
\* it was parsed lost that rule.
RulesMeanAttributes ==
  \A f \in Elements :
    ("equalto" \in DOMAIN page.attrs[f] => "equalTo" \in DOMAIN settings[f]) =>
      \A v \in Value :
        /\ Meant(f, v) => AllAccept(f, v)
        /\ AllAccept(f, v) => Meant(f, v) \/ Contested(f)

\* The element for a field's messages is marked as an error exactly if the last
\* verdict the validator gave of the field, by a check or a late answer, was an
\* error; and if it takes the message it holds that one only (onError and
\* onSuccess, 55-100).  With the option errorClass a label that was there at a
\* reset is found again and not placed again: such a field is left out.
FieldShowsItsVerdict ==
  \A f \in Elements :
    LET box == form.box[f]
        error == IsError(form.verdict[f])
        stray == page.ownClass /\ box.label # NoLabel /\ ~box.label.linked
    IN  page.place[f] # "none" /\ ~stray =>
          /\ box.class = "error" <=> error
          /\ error /\ page.place[f] = "replace" =>
               box.label = [text |-> form.verdict[f].text, linked |-> TRUE]
          /\ form.verdict[f] = Ok => box.label = NoLabel

\* When a reset is over, nothing in the form is marked as an error, even if
\* resetForm raised the event again, or threw in an earlier reset; only a reset
\* that throws itself leaves the marks (onReset, 102-125).
ResetLeavesClean ==
  [][(stack # <<>> /\ stack' = <<>>) =>
       \/ PluginThrows
       \/ /\ form'.summary.class = "valid" /\ ~flag'
          /\ \A f \in Field : form'.box[f].class = "valid"]_vars

\* A form that passed the validator is sent with values that all its rules
\* accept, and that the server has accepted together with what the additional
\* fields hold at that time: no verdict for an earlier value of the field or of
\* the others is used (the functions of value.data, 398-411).
SubmittedWasAccepted ==
  sent = "checked" =>
    \A f \in Elements : \A r \in DOMAIN settings[f] :
      LET val == settings[f][r].val IN
      /\ Accepts(r, val, value[f])
      /\ r = "remote" /\ value[f] # 0 =>
           [n \in {f} \cup val |-> IF n \in Inputs THEN value[n] ELSE 0] \in Free
=============================================================================
