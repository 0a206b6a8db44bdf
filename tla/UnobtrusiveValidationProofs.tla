---------------------- MODULE UnobtrusiveValidationProofs ----------------------
(* Proofs of properties of UnobtrusiveValidation, for any pages, fields,   *)
(* values and rules.  None of them needs to know which rules the adapters  *)
(* make of a page: that is in UnobtrusiveRulesProofs.                      *)
EXTENDS UnobtrusiveValidation, SequenceTheorems, TLAPS

(***************************************************************************)
(* Resets.                                                                 *)
(***************************************************************************)
(* Inductive: a form has one reset handler at most, and the flag is set    *)
(* exactly while its resetForm runs, also when that raises the event again.*)
Resets ==
  /\ handlers \in {0, 1}
  /\ \/ stack = <<>> /\ flag = FALSE
     \/ stack = <<"onReset">> /\ flag = FALSE
     \/ stack = <<"resetForm">> /\ flag = TRUE
     \/ stack = <<"onReset", "afterPlugin">> /\ flag = TRUE
     \/ stack = <<"afterPlugin">> /\ flag = TRUE

(* The handlers the reset event finds. *)
LEMMA EventIs ==
  ASSUME Resets
  PROVE  /\ handlers = 0 => Event = <<>>
         /\ handlers = 1 => Event = <<"onReset">>
<1>1. CASE handlers = 0
  BY <1>1 DEF Event
<1>2. CASE handlers = 1
  BY <1>2 DEF Event
<1> QED
  BY <1>1, <1>2

(* Whatever a reset's calls do, they stay in this order. *)
LEMMA ResetsStep ==
  ASSUME Resets, [Next]_vars PROVE Resets'
<1>1. CASE UNCHANGED <<handlers, stack, flag>>
  BY <1>1 DEF Resets
<1>2. CASE Parse \/ \E f \in Field, skipAttach \in BOOLEAN : ParseElement(f, skipAttach)
  BY <1>2 DEF Parse, ParseElement, AttachValidation, Idle, resetVars, Resets
<1>3. CASE ResetPressed
  <2>1. stack' = Event /\ UNCHANGED <<handlers, flag>> /\ stack = <<>>
    BY <1>3 DEF ResetPressed, Idle, pageVars
  <2>2. flag = FALSE /\ handlers \in {0, 1}
    BY <2>1 DEF Resets
  <2> QED
    BY <2>1, <2>2, EventIs DEF Resets
<1>4. CASE OnReset
  <2>1. stack # <<>> /\ Head(stack) = "onReset" /\ UNCHANGED handlers
    BY <1>4 DEF OnReset, Idle, pageVars
  <2>2. CASE stack = <<"onReset">> /\ flag = FALSE
    <3>1. stack' = <<"resetForm">> \o Tail(stack) /\ flag' = TRUE
      BY <1>4, <2>2 DEF OnReset
    <3>2. stack' = <<"resetForm">>
      BY <2>2, <3>1
    <3> QED
      BY <2>1, <3>1, <3>2 DEF Resets
  <2>3. CASE stack = <<"onReset", "afterPlugin">> /\ flag = TRUE
    <3>1. stack' = Tail(stack) /\ flag' = TRUE
      BY <1>4, <2>3 DEF OnReset, Return
    <3>2. stack' = <<"afterPlugin">>
      BY <2>3, <3>1
    <3> QED
      BY <2>1, <3>1, <3>2 DEF Resets
  <2>4. Head(<<"resetForm">>) # "onReset" /\ Head(<<"afterPlugin">>) # "onReset"
    OBVIOUS
  <2>5. \/ stack = <<"onReset">> /\ flag = FALSE
        \/ stack = <<"onReset", "afterPlugin">> /\ flag = TRUE
        \/ stack = <<"resetForm">> \/ stack = <<"afterPlugin">>
    BY <2>1 DEF Resets
  <2> QED
    BY <2>1, <2>2, <2>3, <2>4, <2>5
<1>5. CASE PluginResets
  <2>1. stack # <<>> /\ Head(stack) = "resetForm" /\ UNCHANGED <<handlers, flag>>
        /\ stack' = Event \o <<"afterPlugin">> \o Tail(stack)
    BY <1>5 DEF PluginResets, Idle, pageVars
  <2>2. stack = <<"resetForm">> /\ flag = TRUE /\ handlers \in {0, 1}
    BY <2>1 DEF Resets
  <2>3. CASE handlers = 0
    <3>1. stack' = <<>> \o <<"afterPlugin">> \o <<>>
      BY <2>1, <2>2, <2>3, EventIs
    <3>2. stack' = <<"afterPlugin">>
      BY <3>1
    <3> QED
      BY <2>1, <2>2, <3>2 DEF Resets
  <2>4. CASE handlers = 1
    <3>1. Event = <<"onReset">> /\ Tail(stack) = <<>>
      BY <2>2, <2>4, EventIs
    <3>2. <<"onReset">> \o <<"afterPlugin">> \o <<>> = <<"onReset", "afterPlugin">>
      <4>1. <<"onReset">> \o <<"afterPlugin">> = <<"onReset", "afterPlugin">>
        <5> DEFINE Call == {"onReset", "afterPlugin"}
                   s == <<"onReset">> \o <<"afterPlugin">>
                   t == <<"onReset", "afterPlugin">>
        <5>1. s \in Seq(Call) /\ Len(s) = 2 /\ s[1] = "onReset" /\ s[2] = "afterPlugin"
          OBVIOUS
        <5>2. t \in Seq(Call) /\ Len(t) = 2 /\ t[1] = "onReset" /\ t[2] = "afterPlugin"
          OBVIOUS
        <5> HIDE DEF s, t, Call
        <5>3. \A i \in 1..Len(s) : s[i] = t[i]
          BY <5>1, <5>2
        <5>4. s = t
          BY <5>1, <5>2, <5>3, SeqEqual
        <5> QED
          BY <5>4 DEF s, t
      <4>2. <<"onReset", "afterPlugin">> \o <<>> = <<"onReset", "afterPlugin">>
        OBVIOUS
      <4> QED
        BY <4>1, <4>2
    <3>3. stack' = <<"onReset", "afterPlugin">>
      BY <2>1, <3>1, <3>2
    <3> QED
      BY <2>1, <2>2, <3>3 DEF Resets
  <2> QED
    BY <2>2, <2>3, <2>4
<1>6. CASE PluginThrows
  BY <1>6 DEF PluginThrows, Resets, pageVars
<1>7. CASE ResetForm
  <2>1. /\ stack # <<>> /\ Head(stack) \in {"afterPlugin", "resetForm"}
        /\ stack' = Tail(stack) /\ flag' = FALSE /\ UNCHANGED handlers
    BY <1>7 DEF ResetForm, Return, Idle, pageVars
  <2>2. stack' = <<>>
    BY <2>1 DEF Resets
  <2> QED
    BY <2>1, <2>2 DEF Resets
<1> QED
  BY <1>1, <1>2, <1>3, <1>4, <1>5, <1>6, <1>7 DEF Next, AddField, Edit, CheckElement,
     Validate, Submit, RemoteAccepts, RemoteRejects, RequestFails, pageVars, resetVars,
     vars

(***************************************************************************)
(* The form: which parts each handler leaves alone.                        *)
(***************************************************************************)
Shaped(fm) ==
  /\ DOMAIN fm = {"box", "verdict", "summary", "errorMap", "successList",
                  "previous", "asked", "pending"}
  /\ DOMAIN fm.box = Field /\ DOMAIN fm.verdict = Field
  /\ DOMAIN fm.previous = Field /\ DOMAIN fm.asked = Field
  /\ DOMAIN fm.summary = {"class", "list"}

(* Showing verdicts changes the labels and the last verdicts. *)
LEMMA ShowFields ==
  ASSUME NEW fm, Shaped(fm), NEW out
  PROVE  LET now == Show(fm, out) IN
         /\ Shaped(now)
         /\ now.box = [f \in Field |->
              IF f \in DOMAIN out /\ out[f] # Pending THEN ShowLabel(f, fm.box[f], out[f])
                                                     ELSE fm.box[f]]
         /\ now.verdict = [f \in Field |->
              IF f \in DOMAIN out /\ out[f] # Pending THEN out[f] ELSE fm.verdict[f]]
         /\ now.summary = fm.summary /\ now.errorMap = fm.errorMap
         /\ now.previous = fm.previous /\ now.asked = fm.asked
         /\ now.pending = fm.pending
  BY DEF Show, Shaped

(* What a check makes of the verdicts of the fields S, before it shows them.*)
Out(fm, S) == [f \in S |-> Outcome(fm, f)]
Place(f) == CHOOSE i \in 1 .. Len(Fields) : Fields[i] = f
Done(fm, S) ==
  {f \in S : \A g \in S : Out(fm, S)[g] = Thrown => Place(f) < Place(g)}
Asks(fm, S) == {f \in Done(fm, S) : Out(fm, S)[f] = Pending}
Tried(fm, S) ==
  [fm EXCEPT
     !.previous = [f \in Field |->
         IF f \in Asks(fm, S) THEN [@[f] EXCEPT !.old = Data(f)] ELSE @[f]],
     !.asked = [f \in Field |->
         IF f \in Asks(fm, S) THEN [data |-> Data(f), own |-> TRUE] ELSE @[f]],
     !.pending = @ \cup Asks(fm, S),
     !.errorMap = [f \in {g \in Done(fm, S) : IsError(Out(fm, S)[g])} |->
                     Out(fm, S)[f].text],
     !.successList = {f \in Done(fm, S) : Out(fm, S)[f] = Ok}]

(* A check shows what it tried, or throws before it shows anything. *)
LEMMA CheckedIs ==
  ASSUME NEW fm, NEW S
  PROVE  Checked(fm, S) = IF Throws(fm, S) THEN Tried(fm, S)
                          ELSE Show(Tried(fm, S), Out(fm, S))
  BY DEF Checked, Tried, Asks, Done, Place, Out

(* Trying the fields asks the server and lists the errors. *)
LEMMA TriedFields ==
  ASSUME NEW fm, Shaped(fm), NEW S
  PROVE  LET now == Tried(fm, S) IN
         /\ Shaped(now)
         /\ now.box = fm.box /\ now.verdict = fm.verdict /\ now.summary = fm.summary
         /\ now.previous = [f \in Field |->
              IF f \in Asks(fm, S) THEN [fm.previous[f] EXCEPT !.old = Data(f)]
                                   ELSE fm.previous[f]]
         /\ now.asked = [f \in Field |->
              IF f \in Asks(fm, S) THEN [data |-> Data(f), own |-> TRUE]
                                   ELSE fm.asked[f]]
         /\ now.pending = fm.pending \cup Asks(fm, S)
         /\ DOMAIN now.errorMap = {g \in Done(fm, S) : IsError(Out(fm, S)[g])}
  BY DEF Tried, Shaped

(* The verdicts are told apart. *)
LEMMA Verdicts ==
  /\ Ok # Pending /\ Ok # Thrown /\ Ok # Unchecked /\ Pending # Thrown
  /\ ~IsError(Ok) /\ ~IsError(Pending) /\ ~IsError(Unchecked) /\ ~IsError(Thrown)
  /\ \A t : IsError(Error(t)) /\ Error(t) # Pending /\ Error(t) # Ok /\ Error(t) # Thrown
  BY DEF Ok, Pending, Thrown, Unchecked, Error, IsError, Verdict

IsOutcome(o) == o \in {Ok, Pending} \/ \E t : o = Error(t)
(* A check that does not throw gives a verdict. *)
LEMMA Outcomes ==
  ASSUME NEW fm, NEW f
  PROVE  Outcome(fm, f) = Thrown \/ IsOutcome(Outcome(fm, f))
  BY DEF Outcome, IsOutcome

(***************************************************************************)
(* Labels and verdicts.                                                    *)
(***************************************************************************)
(* Inductive: a label with a link is an error's, in an element that takes  *)
(* messages; and the element shows the last verdict.                       *)
Stray(b) == page.ownClass /\ b.label # NoLabel /\ ~b.label.linked
BoxOK(f, b, o) ==
  /\ DOMAIN b = {"class", "label"} /\ b.class \in {"valid", "error"}
  /\ b.label # NoLabel =>
       /\ DOMAIN b.label = {"text", "linked"} /\ b.label.linked \in BOOLEAN
       /\ page.place[f] = "replace"
       /\ b.label.linked => b.class = "error"
  /\ page.place[f] # "none" /\ ~Stray(b) =>
       /\ b.class = "error" <=> IsError(o)
       /\ IsError(o) /\ page.place[f] = "replace" =>
            b.label = [text |-> o.text, linked |-> TRUE]
       /\ o = Ok => b.label = NoLabel
Boxes(fm) == \A f \in Field : BoxOK(f, fm.box[f], fm.verdict[f])
PageOne == page \in Pages

(* Showing a verdict in an element makes it show that verdict. *)
LEMMA ShowLabelOK ==
  ASSUME PageOne, NEW f \in Field, NEW b, NEW v, BoxOK(f, b, v), NEW o,
         IsOutcome(o), o # Pending
  PROVE  BoxOK(f, ShowLabel(f, b, o), o)
<1>0. page.place[f] \in {"none", "keep", "replace"} /\ page.ownClass \in BOOLEAN
  BY PagesAssumption DEF PageOne, PageOK
<1>1. o = Ok \/ \E t : o = Error(t)
  BY DEF IsOutcome
<1> DEFINE found == page.ownClass /\ b.label # NoLabel
           linked == found => b.label.linked
           placed == IF found THEN [b EXCEPT !.label.text = o.text]
                     ELSE OnError(b, page.place[f], o.text)
<1>2. ShowLabel(f, b, o) = IF IsError(o) THEN placed ELSE OnSuccess(placed, linked)
  BY DEF ShowLabel
<1>3. CASE found
  <2>1. /\ DOMAIN placed = {"class", "label"} /\ placed.class = b.class
        /\ placed.label = [b.label EXCEPT !.text = o.text]
    BY <1>3 DEF BoxOK
  <2>2. /\ DOMAIN placed.label = {"text", "linked"}
        /\ placed.label.linked = b.label.linked /\ placed.label.text = o.text
    BY <1>3, <2>1 DEF BoxOK
  <2>3. placed.label # NoLabel
    BY <2>2 DEF NoLabel
  <2>4. placed.label = [text |-> o.text, linked |-> b.label.linked]
    BY <1>3, <2>1, <2>2 DEF BoxOK
  <2> HIDE DEF placed
  <2>5. CASE b.label.linked
    <3>1. b.class = "error" /\ page.place[f] = "replace"
      BY <1>3, <2>5 DEF BoxOK
    <3>2. CASE IsError(o)
      BY <1>0, <1>2, <2>1, <2>2, <2>3, <2>4, <2>5, <3>1, <3>2, Verdicts DEF BoxOK
    <3>3. CASE ~IsError(o)
      <4>1. ShowLabel(f, b, o) = [class |-> "valid", label |-> NoLabel]
        BY <1>2, <1>3, <2>5, <3>3 DEF OnSuccess
      <4> QED
        BY <3>3, <4>1 DEF BoxOK
    <3> QED
      BY <3>2, <3>3
  <2>6. CASE ~b.label.linked
    <3>1. ShowLabel(f, b, o) = placed
      BY <1>2, <1>3, <2>6 DEF OnSuccess
    <3>2. b.class \in {"valid", "error"} /\ page.place[f] = "replace"
          /\ b.label.linked \in BOOLEAN
      BY <1>3 DEF BoxOK
    <3>3. Stray(placed)
      BY <1>3, <2>2, <2>3, <2>6 DEF Stray
    <3> QED
      BY <2>1, <2>2, <2>6, <3>1, <3>2, <3>3 DEF BoxOK
  <2> QED
    BY <2>5, <2>6
<1>4. CASE ~found
  <2>1. ShowLabel(f, b, o) = IF IsError(o) THEN OnError(b, page.place[f], o.text)
                             ELSE [class |-> "valid", label |-> NoLabel]
    BY <1>2, <1>4 DEF OnSuccess
  <2>2. CASE ~IsError(o)
    <3>1. ShowLabel(f, b, o) = [class |-> "valid", label |-> NoLabel]
      BY <2>1, <2>2
    <3> QED
      BY <2>2, <3>1 DEF BoxOK
  <2>3. CASE IsError(o) /\ page.place[f] = "none"
    BY <2>1, <2>3 DEF BoxOK, OnError
  <2>4. CASE IsError(o) /\ page.place[f] = "keep"
    <3>1. ShowLabel(f, b, o) = [b EXCEPT !.class = "error"]
      BY <2>1, <2>4 DEF OnError
    <3>2. o # Ok
      BY <2>4, Verdicts
    <3> QED
      BY <2>4, <3>1, <3>2 DEF BoxOK
  <2>5. CASE IsError(o) /\ page.place[f] = "replace"
    <3>1. ShowLabel(f, b, o)
            = [class |-> "error", label |-> [text |-> o.text, linked |-> TRUE]]
      BY <2>1, <2>5 DEF OnError
    <3>2. o # Ok
      BY <2>5, Verdicts
    <3> DEFINE l == [text |-> o.text, linked |-> TRUE]
               shown == [class |-> "error", label |-> l]
    <3>3. DOMAIN l = {"text", "linked"} /\ l.linked = TRUE
      OBVIOUS
    <3>4. l # NoLabel
      BY <3>3 DEF NoLabel
    <3>5. DOMAIN shown = {"class", "label"} /\ shown.class = "error" /\ shown.label = l
      OBVIOUS
    <3>6. l = [text |-> o.text, linked |-> TRUE] /\ ShowLabel(f, b, o) = shown
      BY <3>1
    <3> HIDE DEF l, shown
    <3> QED
      BY <2>5, <3>2, <3>3, <3>4, <3>5, <3>6 DEF BoxOK
  <2> QED
    BY <1>0, <2>2, <2>3, <2>4, <2>5
<1> QED
  BY <1>3, <1>4

(* A verdict that has just been given is one that showing can show. *)
LEMMA ShowOK ==
  ASSUME PageOne, NEW fm, Shaped(fm), Boxes(fm), NEW out,
         \A f \in Field \cap DOMAIN out : IsOutcome(out[f])
  PROVE  Shaped(Show(fm, out)) /\ Boxes(Show(fm, out))
<1> DEFINE now == Show(fm, out)
<1>1. /\ Shaped(now)
      /\ now.box = [f \in Field |->
           IF f \in DOMAIN out /\ out[f] # Pending THEN ShowLabel(f, fm.box[f], out[f])
                                                  ELSE fm.box[f]]
      /\ now.verdict = [f \in Field |->
           IF f \in DOMAIN out /\ out[f] # Pending THEN out[f] ELSE fm.verdict[f]]
  BY ShowFields
<1> HIDE DEF now
<1>2. ASSUME NEW f \in Field PROVE BoxOK(f, now.box[f], now.verdict[f])
  <2>1. BoxOK(f, fm.box[f], fm.verdict[f])
    BY DEF Boxes
  <2>2. CASE f \in DOMAIN out /\ out[f] # Pending
    <3>1. now.box[f] = ShowLabel(f, fm.box[f], out[f]) /\ now.verdict[f] = out[f]
      BY <1>1, <2>2
    <3>2. IsOutcome(out[f])
      BY <2>2
    <3>3. BoxOK(f, ShowLabel(f, fm.box[f], out[f]), out[f])
      BY <2>1, <2>2, <3>2, ShowLabelOK
    <3> QED
      BY <3>1, <3>3
  <2>3. CASE ~(f \in DOMAIN out /\ out[f] # Pending)
    <3>1. now.box[f] = fm.box[f] /\ now.verdict[f] = fm.verdict[f]
      BY <1>1, <2>3
    <3> QED
      BY <2>1, <3>1
  <2> QED
    BY <2>2, <2>3
<1> QED
  BY <1>1, <1>2 DEF Boxes, now

(* So a check of any fields leaves elements that show the last verdicts, *)
(* ... *)
LEMMA CheckedOK ==
  ASSUME PageOne, NEW fm, Shaped(fm), Boxes(fm), NEW S
  PROVE  Shaped(Checked(fm, S)) /\ Boxes(Checked(fm, S))
<1>1. Shaped(Tried(fm, S)) /\ Boxes(Tried(fm, S))
  BY TriedFields DEF Boxes
<1>2. CASE Throws(fm, S)
  BY <1>1, <1>2, CheckedIs
<1>3. CASE ~Throws(fm, S)
  <2>1. DOMAIN Out(fm, S) = S /\ \A f \in S : Out(fm, S)[f] = Outcome(fm, f)
    BY DEF Out
  <2>2. \A f \in S : IsOutcome(Out(fm, S)[f])
    BY <1>3, <2>1, Outcomes DEF Throws
  <2>3. Shaped(Show(Tried(fm, S), Out(fm, S))) /\ Boxes(Show(Tried(fm, S), Out(fm, S)))
    BY <1>1, <2>1, <2>2, ShowOK
  <2> QED
    BY <1>3, <2>3, CheckedIs
<1> QED
  BY <1>2, <1>3

(* ... the summary being no field's, ... *)
LEMMA OnErrorsFields ==
  ASSUME NEW fm, Shaped(fm)
  PROVE  LET now == OnErrors(fm) IN
         /\ Shaped(now)
         /\ now.box = fm.box /\ now.verdict = fm.verdict /\ now.errorMap = fm.errorMap
         /\ now.previous = fm.previous /\ now.asked = fm.asked
         /\ now.pending = fm.pending
  BY DEF OnErrors, Shaped

(* ... and of the whole form, which shows its errors in the summary too, ... *)
LEMMA FormOK ==
  ASSUME PageOne, NEW fm, Shaped(fm), Boxes(fm)
  PROVE  Shaped(Form(fm)) /\ Boxes(Form(fm))
<1>1. Shaped(Checked(fm, Elements)) /\ Boxes(Checked(fm, Elements))
  BY CheckedOK
<1>2. /\ Shaped(OnErrors(Checked(fm, Elements)))
      /\ Boxes(OnErrors(Checked(fm, Elements)))
  BY <1>1, OnErrorsFields DEF Boxes
<1> QED
  BY <1>1, <1>2 DEF Form

(* What the callback of a remote request leaves of the form. *)
LEMMA AnsweredFields ==
  ASSUME Shaped(form), NEW f \in Field
  PROVE  LET now == Answered(f) IN
         /\ Shaped(now)
         /\ now.previous = [form.previous EXCEPT ![f].valid =
              IF form.asked[f].own THEN form.asked[f].data \in Free ELSE @]
         /\ now.asked = [form.asked EXCEPT ![f] = NoRequest]
         /\ now.pending = form.pending \ {f}
         /\ \E fm : /\ Shaped(fm) /\ now = Show(fm, Listed(fm))
                    /\ fm.box = form.box /\ fm.verdict = form.verdict
<1> DEFINE r == form.asked[f]
           done == [form EXCEPT !.asked[f] = NoRequest, !.pending = @ \ {f},
                      !.previous[f].valid = IF r.own THEN r.data \in Free ELSE @]
           text == Remote(f).message
           good == [done EXCEPT !.errorMap = NoErrors, !.successList = {f}]
           bad == [done EXCEPT !.errorMap = (f :> text) @@ @,
                               !.successList = @ \ {f}]
           prev == [form.previous EXCEPT ![f].valid =
              IF form.asked[f].own THEN form.asked[f].data \in Free ELSE @]
           ask == [form.asked EXCEPT ![f] = NoRequest]
           Same(fm) == /\ Shaped(fm) /\ fm.previous = prev /\ fm.asked = ask
                       /\ fm.pending = form.pending \ {f}
                       /\ fm.box = form.box /\ fm.verdict = form.verdict
<1>1. Same(done)
  BY DEF Shaped
<1>2. \/ Answered(f) = Show(good, Listed(good))
      \/ Answered(f) = Show(bad, Listed(bad))
  BY DEF Answered
<1> HIDE DEF done, prev, ask
<1>3. Same(good)
  BY <1>1 DEF Shaped
<1>4. Same(bad)
  BY <1>1 DEF Shaped
<1> HIDE DEF good, bad
<1>5. PICK fm : Same(fm) /\ Answered(f) = Show(fm, Listed(fm))
  BY <1>2, <1>3, <1>4
<1>6. /\ Shaped(Answered(f)) /\ Answered(f).previous = prev
      /\ Answered(f).asked = ask /\ Answered(f).pending = form.pending \ {f}
  <2> DEFINE now == Show(fm, Listed(fm))
  <2>1. Shaped(fm)
    BY <1>5
  <2>2. /\ Shaped(now) /\ now.previous = fm.previous
        /\ now.asked = fm.asked /\ now.pending = fm.pending
    BY <2>1, ShowFields
  <2> HIDE DEF now
  <2>3. Answered(f) = now
    BY <1>5 DEF now
  <2> QED
    BY <1>5, <2>2, <2>3
<1> QED
  BY <1>5, <1>6 DEF prev, ask

(* ... and so does a late answer, which may show more than the verdict it  *)
(* brings. *)
LEMMA AnsweredOK ==
  ASSUME PageOne, Shaped(form), Boxes(form), NEW f \in Field
  PROVE  Shaped(Answered(f)) /\ Boxes(Answered(f))
<1>1. PICK fm : /\ Shaped(fm) /\ Answered(f) = Show(fm, Listed(fm))
                /\ fm.box = form.box /\ fm.verdict = form.verdict
  BY AnsweredFields
<1>2. Boxes(fm)
  BY <1>1 DEF Boxes
<1>3. \A g \in Field \cap DOMAIN Listed(fm) : IsOutcome(Listed(fm)[g])
  BY DEF Listed, IsOutcome
<1> QED
  BY <1>1, <1>2, <1>3, ShowOK

(* After a reset no element is marked and no label has a link. *)
LEMMA ResetFields ==
  ASSUME Shaped(form), ResetForm
  PROVE  /\ Shaped(form')
         /\ \A f \in Field : form'.verdict[f] = Unchecked
         /\ form'.summary.class = "valid"
         /\ form'.previous = FreshForm.previous /\ form'.pending = form.pending
         /\ form'.asked = [f \in Field |->
              IF form.asked[f] = NoRequest THEN form.asked[f]
              ELSE [form.asked[f] EXCEPT !.own = FALSE]]
         /\ \A f \in Field : form'.box[f] = [class |-> "valid",
              label |-> IF form.box[f].label = NoLabel THEN NoLabel
                        ELSE [text |-> IF page.ownClass THEN ""
                                       ELSE form.box[f].label.text,
                              linked |-> FALSE]]
<1> DEFINE verdict == [f \in Field |-> Unchecked]
           asked == [f \in Field |->
              IF form.asked[f] = NoRequest THEN form.asked[f]
              ELSE [form.asked[f] EXCEPT !.own = FALSE]]
           box == [f \in Field |-> [class |-> "valid",
              label |-> IF form.box[f].label = NoLabel THEN NoLabel
                        ELSE [text |-> IF page.ownClass THEN ""
                                       ELSE form.box[f].label.text,
                              linked |-> FALSE]]]
           previous == FreshForm.previous
<1>1. form' = [form EXCEPT !.verdict = verdict, !.errorMap = NoErrors,
                 !.successList = {}, !.summary.class = "valid", !.previous = previous, !.asked = asked,
                 !.box = box]
  BY DEF ResetForm
<1>2. DOMAIN verdict = Field /\ DOMAIN asked = Field /\ DOMAIN box = Field
  OBVIOUS
<1>3. DOMAIN previous = Field
  BY DEF FreshForm
<1> HIDE DEF verdict, asked, box, previous
<1>4. /\ Shaped(form') /\ form'.verdict = verdict /\ form'.summary.class = "valid"
      /\ form'.previous = previous /\ form'.asked = asked /\ form'.box = box
      /\ form'.pending = form.pending
  BY <1>1, <1>2, <1>3 DEF Shaped
<1> QED
  BY <1>4 DEF verdict, asked, box, previous

(* Inductive: the elements of the page show the last verdicts. *)
FormInv == Shaped(form) /\ Boxes(form)

(* Every handler leaves them so. *)
LEMMA FormStep ==
  ASSUME PageOne, FormInv, [Next]_vars PROVE PageOne' /\ FormInv'
<1>0. page' = page /\ PageOne'
  BY DEF PageOne, Next, Parse, ParseElement, AddField, Edit, CheckElement, Validate,
     Submit, RemoteAccepts, RemoteRejects, RequestFails, ResetPressed, OnReset, PluginResets,
     PluginThrows, ResetForm, pageVars, vars
<1> DEFINE Good(fm) == Shaped(fm) /\ Boxes(fm)
<1>1. Good(form) /\ \A S : Good(Checked(form, S))
  BY CheckedOK DEF FormInv
<1>2. \A fm : Good(fm) => Good(Form(fm))
  BY FormOK
<1>3. \A f \in Field : Good(Answered(f))
  BY <1>1, AnsweredOK
<1>4. \A fm : Good(fm) => Good(OnErrors(fm))
  BY OnErrorsFields DEF Boxes
<1>5. ASSUME Good(form') PROVE FormInv'
  BY <1>0, <1>5 DEF FormInv, Boxes, BoxOK, Stray
<1> SUFFICES Good(form')
  BY <1>0, <1>5
<1> HIDE DEF Good
<1>6. CASE form' = form
  BY <1>1, <1>6
<1>7. CASE \E f \in Field : CheckElement(f)
  BY <1>1, <1>7 DEF CheckElement
<1>8. CASE Validate \/ Submit
  BY <1>1, <1>2, <1>8 DEF Validate, Submit
<1>9. CASE \E f \in Field : RemoteAccepts(f)
  <2>1. PICK f \in Field : RemoteAccepts(f)
    BY <1>9
  <2>2. form' \in {Answered(f), Form(Answered(f)), Form(Form(Answered(f)))}
    BY <2>1 DEF RemoteAccepts
  <2> QED
    BY <1>2, <1>3, <2>2
<1>10. CASE \E f \in Field : RemoteRejects(f)
  <2>1. PICK f \in Field : RemoteRejects(f)
    BY <1>10
  <2>2. form' \in {Answered(f), OnErrors(Answered(f))}
    BY <2>1 DEF RemoteRejects
  <2> QED
    BY <1>3, <1>4, <2>2
<1>11. CASE \E f \in Field : RequestFails(f)
  BY <1>1, <1>11 DEF RequestFails, Good, Shaped, Boxes
<1>12. CASE ResetForm
  <2>1. Shaped(form)
    BY <1>1 DEF Good
  <2>2. /\ Shaped(form') /\ \A f \in Field : form'.verdict[f] = Unchecked
        /\ \A f \in Field : form'.box[f] = [class |-> "valid",
             label |-> IF form.box[f].label = NoLabel THEN NoLabel
                       ELSE [text |-> IF page.ownClass THEN ""
                                      ELSE form.box[f].label.text,
                             linked |-> FALSE]]
    BY <1>12, <2>1, ResetFields
  <2>3. ASSUME NEW f \in Field PROVE BoxOK(f, form'.box[f], form'.verdict[f])
    <3>1. BoxOK(f, form.box[f], form.verdict[f])
      BY <1>1 DEF Good, Boxes
    <3>2. form'.verdict[f] = Unchecked /\ ~IsError(Unchecked) /\ Unchecked # Ok
      BY <2>2, Verdicts
    <3>3. CASE form.box[f].label = NoLabel
      <4>1. form'.box[f] = [class |-> "valid", label |-> NoLabel]
        BY <2>2, <3>3
      <4> QED
        BY <3>2, <4>1 DEF BoxOK
    <3>4. CASE form.box[f].label # NoLabel
      <4>1. PICK text : form'.box[f]
              = [class |-> "valid", label |-> [text |-> text, linked |-> FALSE]]
        BY <2>2, <3>4
      <4>2. page.place[f] = "replace"
        BY <3>1, <3>4 DEF BoxOK
      <4> DEFINE l == [text |-> text, linked |-> FALSE]
                 b == [class |-> "valid", label |-> l]
      <4>3. DOMAIN l = {"text", "linked"} /\ l.linked = FALSE
        OBVIOUS
      <4>4. DOMAIN b = {"class", "label"} /\ b.class = "valid" /\ b.label = l
        OBVIOUS
      <4>5. form'.box[f] = b
        BY <4>1
      <4> HIDE DEF l, b
      <4>6. l # [text |-> form'.verdict[f].text, linked |-> TRUE]
        BY <4>3
      <4> QED
        BY <3>2, <4>2, <4>3, <4>4, <4>5 DEF BoxOK
    <3> QED
      BY <3>3, <3>4
  <2> QED
    BY <2>2, <2>3 DEF Good, Boxes
<1> QED
  BY <1>6, <1>7, <1>8, <1>9, <1>10, <1>11, <1>12 DEF Next, Parse, ParseElement, AddField,
     Edit, ResetPressed, OnReset, PluginResets, PluginThrows, pageVars, vars

(* The first form shows nothing and was told nothing. *)
LEMMA FormInit ==
  ASSUME Init PROVE Resets /\ PageOne /\ FormInv
<1>1. Resets /\ PageOne
  BY DEF Init, Resets, PageOne
<1>2. Shaped(form)
  BY DEF Init, FreshForm, Shaped
<1>3. \A f \in Field : /\ form.box[f] = [class |-> "valid", label |-> NoLabel]
                       /\ form.verdict[f] = Unchecked
  BY DEF Init, FreshForm
<1>4. ASSUME NEW f \in Field PROVE BoxOK(f, form.box[f], form.verdict[f])
  <2>1. ~IsError(Unchecked) /\ Unchecked # Ok
    BY Verdicts
  <2>2. form.box[f] = [class |-> "valid", label |-> NoLabel]
        /\ form.verdict[f] = Unchecked
    BY <1>3
  <2> QED
    BY <2>1, <2>2 DEF BoxOK
<1> QED
  BY <1>1, <1>2, <1>4 DEF FormInv, Boxes

(* The element for a field's messages shows the last verdict on the field, *)
(* whatever was checked, answered late or reset in between (onError and    *)
(* onSuccess, 55-100).                                                     *)
THEOREM ElementsShowVerdicts ==
  Spec => []FieldShowsItsVerdict
<1>1. Init => PageOne /\ FormInv
  BY FormInit
<1>2. PageOne /\ FormInv /\ [Next]_vars => (PageOne /\ FormInv)'
  BY FormStep
<1>3. PageOne /\ FormInv => FieldShowsItsVerdict
  <2> SUFFICES ASSUME PageOne, FormInv, NEW f \in Elements
               PROVE  LET box == form.box[f]
                          error == IsError(form.verdict[f])
                          stray == page.ownClass /\ box.label # NoLabel
                                     /\ ~box.label.linked
                      IN  page.place[f] # "none" /\ ~stray =>
                            /\ box.class = "error" <=> error
                            /\ error /\ page.place[f] = "replace" =>
                                 box.label = [text |-> form.verdict[f].text,
                                              linked |-> TRUE]
                            /\ form.verdict[f] = Ok => box.label = NoLabel
    BY DEF FieldShowsItsVerdict
  <2>1. f \in Field
    BY PagesAssumption DEF PageOne, PageOK, Elements, Inputs
  <2>2. BoxOK(f, form.box[f], form.verdict[f])
    BY <2>1 DEF FormInv, Boxes
  <2> QED
    BY <2>2 DEF BoxOK, Stray
<1> QED
  BY <1>1, <1>2, <1>3, PTL DEF Spec

(* When a reset is over nothing is marked, unless the reset itself threw,  *)
(* also when resetForm raised the event again (onReset, 102-125).          *)
THEOREM ResetsLeaveClean ==
  Spec => ResetLeavesClean
<1> DEFINE IInv == Resets /\ PageOne /\ FormInv
           Clean == (stack # <<>> /\ stack' = <<>>) =>
             \/ PluginThrows
             \/ /\ form'.summary.class = "valid" /\ ~flag'
                /\ \A f \in Field : form'.box[f].class = "valid"
<1>1. Init => IInv
  BY FormInit
<1>2. IInv /\ [Next]_vars => IInv'
  BY FormStep, ResetsStep
<1>3. ASSUME IInv, [Next]_vars PROVE [Clean]_vars
  <2> SUFFICES ASSUME stack # <<>>, stack' = <<>>, ~PluginThrows
               PROVE  /\ form'.summary.class = "valid" /\ ~flag'
                      /\ \A f \in Field : form'.box[f].class = "valid"
    OBVIOUS
  <2>1. OnReset \/ PluginResets \/ ResetForm
    BY <1>3 DEF Next, Parse, ParseElement, AddField, Edit, CheckElement, Validate, Submit,
       RemoteAccepts, RemoteRejects, RequestFails, ResetPressed, Idle, resetVars, vars
  <2>2. ~OnReset /\ ~PluginResets
    <3>1. Resets'
      BY <1>3, ResetsStep
    <3>2. flag' = FALSE
      BY <3>1 DEF Resets
    <3>3. ~PluginResets
      <4> SUFFICES ASSUME PluginResets PROVE FALSE
        OBVIOUS
      <4>1. Head(stack) = "resetForm" /\ flag' = flag
        BY DEF PluginResets
      <4>2. flag = TRUE
        BY <1>3, <4>1 DEF Resets
      <4> QED
        BY <3>2, <4>1, <4>2
    <3>4. ~OnReset
      <4> SUFFICES ASSUME OnReset PROVE FALSE
        OBVIOUS
      <4>1. CASE flag
        BY <3>2, <4>1 DEF OnReset
      <4>2. CASE ~flag
        BY <3>2, <4>2 DEF OnReset
      <4> QED
        BY <4>1, <4>2
    <3> QED
      BY <3>3, <3>4
  <2>3. ResetForm /\ Shaped(form)
    BY <1>3, <2>1, <2>2 DEF FormInv
  <2>4. flag' = FALSE
    BY <2>3 DEF ResetForm
  <2>5. /\ form'.summary.class = "valid"
        /\ \A f \in Field : \E l : form'.box[f] = [class |-> "valid", label |-> l]
    BY <2>3, ResetFields
  <2>6. \A f \in Field : form'.box[f].class = "valid"
    <3> SUFFICES ASSUME NEW f \in Field PROVE form'.box[f].class = "valid"
      OBVIOUS
    <3>1. PICK l : form'.box[f] = [class |-> "valid", label |-> l]
      BY <2>5
    <3> QED
      BY <3>1
  <2> QED
    BY <2>4, <2>5, <2>6
<1> HIDE DEF IInv
<1> QED
  BY <1>1, <1>2, <1>3, PTL DEF Spec, ResetLeavesClean

(***************************************************************************)
(* Requests and what is sent.                                              *)
(***************************************************************************)
(* Inductive: while a request the validator still waits for is on its way, *)
(* the field is pending and its data are the ones remembered; one of before*)
(* a reset finds nothing remembered; and of a field that is not pending    *)
(* what is remembered as valid has been accepted by the server.            *)
Request(fm, f) ==
  /\ DOMAIN fm.previous[f] = {"old", "valid"} /\ fm.previous[f].valid \in BOOLEAN
  /\ fm.asked[f] # NoRequest =>
       /\ DOMAIN fm.asked[f] = {"data", "own"} /\ fm.asked[f].own \in BOOLEAN
       /\ fm.asked[f].own =>
            f \in fm.pending /\ fm.previous[f].old = fm.asked[f].data
       /\ ~fm.asked[f].own => fm.previous[f].old = NoRequest
  /\ f \notin fm.pending =>
       \/ fm.previous[f].old = NoRequest
       \/ fm.previous[f].valid => fm.previous[f].old \in Free
Requests(fm) == \A f \in Field : Request(fm, f)

(* A form of which the parts about requests are the same. *)
SameRequests(fm, now) ==
  fm.previous = now.previous /\ fm.asked = now.asked /\ fm.pending = now.pending

(* Requests looks at those parts only. *)
LEMMA SameRequestsOK ==
  ASSUME NEW fm, NEW now, Requests(fm), SameRequests(fm, now)
  PROVE  Requests(now)
  BY DEF Requests, Request, SameRequests

(* A check shows its verdicts after it has asked. *)
LEMMA CheckedFields ==
  ASSUME NEW fm, Shaped(fm), NEW S
  PROVE  /\ Shaped(Checked(fm, S)) /\ SameRequests(Tried(fm, S), Checked(fm, S))
         /\ Checked(fm, S).errorMap = Tried(fm, S).errorMap
<1>1. Shaped(Tried(fm, S))
  BY TriedFields
<1>2. LET now == Show(Tried(fm, S), Out(fm, S)) IN
      /\ Shaped(now) /\ now.errorMap = Tried(fm, S).errorMap
      /\ now.previous = Tried(fm, S).previous /\ now.asked = Tried(fm, S).asked
      /\ now.pending = Tried(fm, S).pending
  BY <1>1, ShowFields
<1> QED
  BY <1>1, <1>2, CheckedIs DEF SameRequests

(* A check asks the server only about fields it leaves pending. *)
LEMMA CheckedRequests ==
  ASSUME NEW fm, Shaped(fm), Requests(fm), NEW S
  PROVE  Requests(Checked(fm, S))
<1> DEFINE now == Tried(fm, S)
<1>1. /\ now.previous = [f \in Field |->
           IF f \in Asks(fm, S) THEN [fm.previous[f] EXCEPT !.old = Data(f)]
                                ELSE fm.previous[f]]
      /\ now.asked = [f \in Field |->
           IF f \in Asks(fm, S) THEN [data |-> Data(f), own |-> TRUE]
                                ELSE fm.asked[f]]
      /\ now.pending = fm.pending \cup Asks(fm, S)
  BY TriedFields
<1> HIDE DEF now
<1>2. ASSUME NEW f \in Field PROVE Request(now, f)
  <2>1. Request(fm, f)
    BY DEF Requests
  <2>2. CASE f \in Asks(fm, S)
    <3>1. /\ now.previous[f] = [fm.previous[f] EXCEPT !.old = Data(f)]
          /\ now.asked[f] = [data |-> Data(f), own |-> TRUE] /\ f \in now.pending
      BY <1>1, <2>2
    <3>2. /\ DOMAIN now.previous[f] = {"old", "valid"}
          /\ now.previous[f].old = Data(f)
          /\ now.previous[f].valid = fm.previous[f].valid
      BY <2>1, <3>1 DEF Request
    <3>3. /\ DOMAIN now.asked[f] = {"data", "own"} /\ now.asked[f].own = TRUE
          /\ now.asked[f].data = Data(f)
      BY <3>1
    <3>4. fm.previous[f].valid \in BOOLEAN
      BY <2>1 DEF Request
    <3> QED
      BY <3>1, <3>2, <3>3, <3>4 DEF Request
  <2>3. CASE f \notin Asks(fm, S)
    <3>1. /\ now.previous[f] = fm.previous[f] /\ now.asked[f] = fm.asked[f]
          /\ f \in now.pending <=> f \in fm.pending
      BY <1>1, <2>3
    <3> QED
      BY <2>1, <3>1 DEF Request
  <2> QED
    BY <2>2, <2>3
<1>3. Requests(now)
  BY <1>2 DEF Requests
<1>4. SameRequests(now, Checked(fm, S))
  BY CheckedFields DEF now
<1> QED
  BY <1>3, <1>4, SameRequestsOK

(* So does the check of the whole form, whatever its summary says. *)
LEMMA FormRequests ==
  ASSUME NEW fm, Shaped(fm), Requests(fm)
  PROVE  Shaped(Form(fm)) /\ Requests(Form(fm))
<1> DEFINE now == Checked(fm, Elements)
<1>1. Shaped(now) /\ Requests(now)
  BY CheckedFields, CheckedRequests
<1> HIDE DEF now
<1>2. Shaped(OnErrors(now)) /\ SameRequests(now, OnErrors(now))
  BY <1>1, OnErrorsFields DEF SameRequests
<1>3. Requests(OnErrors(now))
  BY <1>1, <1>2, SameRequestsOK
<1> QED
  BY <1>1, <1>2, <1>3 DEF Form, now

(* The answer to a request the validator waits for is about the data it    *)
(* remembers.                                                              *)
LEMMA AnsweredRequests ==
  ASSUME Shaped(form), Requests(form), NEW f \in Field, form.asked[f] # NoRequest
  PROVE  Shaped(Answered(f)) /\ Requests(Answered(f))
<1> DEFINE now == Answered(f)
<1>1. /\ Shaped(now)
      /\ now.previous = [form.previous EXCEPT ![f].valid =
           IF form.asked[f].own THEN form.asked[f].data \in Free ELSE @]
      /\ now.asked = [form.asked EXCEPT ![f] = NoRequest]
      /\ now.pending = form.pending \ {f}
  BY AnsweredFields
<1>2. DOMAIN form.previous = Field /\ DOMAIN form.asked = Field
  BY DEF Shaped
<1> HIDE DEF now
<1>3. ASSUME NEW g \in Field PROVE Request(now, g)
  <2>1. Request(form, g)
    BY DEF Requests
  <2>2. CASE g = f
    <3> DEFINE accepted == form.asked[f].data \in Free
    <3>1. /\ now.previous[f] = [form.previous[f] EXCEPT !.valid =
                IF form.asked[f].own THEN accepted ELSE @]
          /\ now.asked[f] = NoRequest /\ f \notin now.pending
      BY <1>1, <1>2
    <3>2. accepted \in BOOLEAN
      OBVIOUS
    <3>3. CASE form.asked[f].own
      <4>1. form.previous[f].old = form.asked[f].data
            /\ DOMAIN form.previous[f] = {"old", "valid"}
        BY <2>1, <2>2, <3>3 DEF Request
      <4>2. now.previous[f] = [form.previous[f] EXCEPT !.valid = accepted]
        BY <3>1, <3>3
      <4>3. now.previous[f].valid <=> accepted
        BY <4>1, <4>2
      <4>4. /\ DOMAIN now.previous[f] = {"old", "valid"}
            /\ now.previous[f].valid \in BOOLEAN
            /\ now.previous[f].old = form.asked[f].data
        BY <3>2, <4>1, <4>2
      <4> QED
        BY <2>2, <3>1, <4>3, <4>4 DEF Request
    <3>4. CASE ~form.asked[f].own
      <4>1. /\ form.previous[f].old = NoRequest
            /\ DOMAIN form.previous[f] = {"old", "valid"}
            /\ form.previous[f].valid \in BOOLEAN
        BY <2>1, <2>2, <3>4 DEF Request
      <4>2. now.previous[f] = [form.previous[f] EXCEPT !.valid = @]
        BY <3>1, <3>4
      <4>3. /\ DOMAIN now.previous[f] = {"old", "valid"}
            /\ now.previous[f].valid \in BOOLEAN
            /\ now.previous[f].old = NoRequest
        BY <4>1, <4>2
      <4> QED
        BY <2>2, <3>1, <4>3 DEF Request
    <3> QED
      BY <3>3, <3>4
  <2>3. CASE g # f
    <3>1. /\ now.previous[g] = form.previous[g] /\ now.asked[g] = form.asked[g]
          /\ g \in now.pending <=> g \in form.pending
      BY <1>1, <1>2, <2>3
    <3> QED
      BY <2>1, <3>1 DEF Request
  <2> QED
    BY <2>2, <2>3
<1> QED
  BY <1>1, <1>3 DEF Requests, now

(* What a form is asked that is sent after a check: all rules of a field   *)
(* accept what it holds, and the server what the fields hold together.     *)
Accepted(f) ==
  \A r \in DOMAIN settings[f] :
    LET val == settings[f][r].val IN
    /\ Accepts(r, val, value[f])
    /\ r = "remote" /\ value[f] # 0 =>
         [n \in {f} \cup val |-> IF n \in Inputs THEN value[n] ELSE 0] \in Free

(* No method rejects in the place of the remote one. *)
LEMMA RemoteAlwaysAccepts ==
  ASSUME NEW val, NEW v PROVE Accepts("remote", val, v)
  BY DEF Accepts, AcceptsOwn

(* A verdict that lets a field pass, and that waits for no answer, speaks  *)
(* of what the page holds now.                                             *)
LEMMA OkIsAccepted ==
  ASSUME NEW fm, NEW f, Request(fm, f), f \notin fm.pending, Outcome(fm, f) = Ok
  PROVE  Accepted(f)
<1> DEFINE rules == settings[f]
           bad == {r \in DOMAIN rules \ {"remote"} :
                     r \notin Methods \/ ~Accepts(r, rules[r].val, value[f])}
           first == FirstOf(rules, bad)
           last == IF "remote" \notin DOMAIN rules \/ value[f] = 0 THEN Ok
                   ELSE IF fm.previous[f].old # Data(f) THEN Pending
                   ELSE IF fm.previous[f].valid THEN Ok ELSE Error(Remote(f).message)
<1>1. Outcome(fm, f) =
        IF bad # {}
        THEN IF first \in Methods THEN Error(rules[first].message) ELSE Thrown
        ELSE last
  BY DEF Outcome
<1> HIDE DEF last, first
<1>2. bad = {} /\ last = Ok
  <2>1. Thrown # Ok /\ \A t : Error(t) # Ok
    BY Verdicts
  <2> HIDE DEF bad
  <2> QED
    BY <1>1, <2>1
<1>3. \A r \in DOMAIN rules : Accepts(r, rules[r].val, value[f])
  <2> SUFFICES ASSUME NEW r \in DOMAIN rules PROVE Accepts(r, rules[r].val, value[f])
    OBVIOUS
  <2>1. CASE r = "remote"
    BY <2>1, RemoteAlwaysAccepts
  <2>2. CASE r # "remote"
    BY <1>2, <2>2
  <2> QED
    BY <2>1, <2>2
<1>4. ASSUME "remote" \in DOMAIN rules, value[f] # 0 PROVE Data(f) \in Free
  <2>1. fm.previous[f].old = Data(f) /\ fm.previous[f].valid
    <3>1. last = IF fm.previous[f].old # Data(f) THEN Pending
                 ELSE IF fm.previous[f].valid THEN Ok ELSE Error(Remote(f).message)
      BY <1>4 DEF last
    <3>2. Pending # Ok /\ \A t : Error(t) # Ok
      BY Verdicts
    <3>3. fm.previous[f].old = Data(f)
      BY <1>2, <3>1, <3>2
    <3>4. fm.previous[f].valid
      BY <1>2, <3>1, <3>2, <3>3
    <3> QED
      BY <3>3, <3>4
  <2>2. Data(f) # NoRequest
    <3>1. f \in DOMAIN Data(f)
      BY DEF Data
    <3>2. DOMAIN <<>> = {}
      OBVIOUS
    <3> QED
      BY <3>1, <3>2 DEF NoRequest
  <2> QED
    BY <2>1, <2>2 DEF Request
<1>5. Data(f) = [n \in {f} \cup settings[f]["remote"].val |->
                   IF n \in Inputs THEN value[n] ELSE 0]
  BY DEF Data, Remote
<1> QED
  BY <1>3, <1>4, <1>5 DEF Accepted

(* A form that a check of all its elements finds valid, and that waits for *)
(* no answer after it, has such values.                                    *)
LEMMA Passed ==
  ASSUME PageOne, NEW fm, Shaped(fm), Requests(fm), ~Throws(fm, Elements),
         Valid(Form(fm)), Form(fm).pending = {}
  PROVE  \A f \in Elements : Accepted(f)
<1> DEFINE S == Elements
           now == Checked(fm, S)
<1>1. Shaped(now) /\ now.errorMap = Tried(fm, S).errorMap
      /\ now.pending = Tried(fm, S).pending
  BY CheckedFields DEF SameRequests
<1>2. Form(fm).errorMap = now.errorMap /\ Form(fm).pending = now.pending
  <2> HIDE DEF now
  <2>1. OnErrors(now).errorMap = now.errorMap /\ OnErrors(now).pending = now.pending
    BY <1>1, OnErrorsFields
  <2> QED
    BY <2>1 DEF Form, now
<1>3. /\ Tried(fm, S).pending = fm.pending \cup Asks(fm, S)
      /\ DOMAIN Tried(fm, S).errorMap = {g \in Done(fm, S) : IsError(Out(fm, S)[g])}
  BY TriedFields
<1>4. fm.pending = {} /\ Asks(fm, S) = {}
  BY <1>1, <1>2, <1>3
<1>5. \A g \in Done(fm, S) : ~IsError(Out(fm, S)[g])
  BY <1>1, <1>2, <1>3 DEF Valid
<1>6. Done(fm, S) = S /\ \A f \in S : Out(fm, S)[f] = Outcome(fm, f)
  BY DEF Done, Out, Throws
<1> SUFFICES ASSUME NEW f \in S PROVE Accepted(f)
  OBVIOUS
<1>7. f \in Field
  BY PagesAssumption DEF PageOne, PageOK, Elements, Inputs
<1>8. Outcome(fm, f) # Pending /\ Outcome(fm, f) # Thrown /\ ~IsError(Outcome(fm, f))
  BY <1>4, <1>5, <1>6 DEF Asks, Throws
<1>9. Outcome(fm, f) = Ok
  BY <1>8, Outcomes, Verdicts DEF IsOutcome
<1> QED
  BY <1>4, <1>7, <1>9, OkIsAccepted DEF Requests

(* Inductive, with the invariants of resets and of the form. *)
SentOK == sent = "checked" => stack = <<>> /\ \A f \in Elements : Accepted(f)
RequestInv == Requests(form) /\ SentOK

(* Nothing has been asked or sent at first. *)
LEMMA RequestInit ==
  ASSUME Init PROVE RequestInv
<1>1. \A f \in Field : /\ form.previous[f] = [old |-> NoRequest, valid |-> TRUE]
                       /\ form.asked[f] = NoRequest
  BY DEF Init, FreshForm
<1>2. \A f \in Field : Request(form, f)
  <2> SUFFICES ASSUME NEW f \in Field PROVE Request(form, f)
    OBVIOUS
  <2>1. /\ DOMAIN form.previous[f] = {"old", "valid"}
        /\ form.previous[f].old = NoRequest /\ form.previous[f].valid = TRUE
    BY <1>1
  <2> QED
    BY <1>1, <2>1 DEF Request
<1>3. sent = "no"
  BY DEF Init
<1> QED
  BY <1>2, <1>3 DEF RequestInv, Requests, SentOK

(* Every handler keeps what is remembered of requests, and sends only what *)
(* has passed.                                                             *)
LEMMA RequestStep ==
  ASSUME PageOne, FormInv, RequestInv, [Next]_vars PROVE RequestInv'
<1> DEFINE Good(fm) == Shaped(fm) /\ Requests(fm)
<1>1. Good(form) /\ \A S : Good(Checked(form, S))
  BY CheckedFields, CheckedRequests DEF FormInv, RequestInv
<1>2. \A fm : Good(fm) => Good(Form(fm))
  BY FormRequests
<1>3. \A f \in Field : form.asked[f] # NoRequest => Good(Answered(f))
  BY <1>1, AnsweredRequests
<1>4. \A fm : Good(fm) => Good(OnErrors(fm))
  BY OnErrorsFields, SameRequestsOK DEF SameRequests
<1>5. \A fm : /\ Good(fm) /\ ~Throws(fm, Elements) /\ Valid(Form(fm))
              /\ Form(fm).pending = {}
              => \A f \in Elements : Accepted(f)
  BY Passed
<1>6. ASSUME Good(form'), sent' # "checked" PROVE RequestInv'
  BY <1>6 DEF RequestInv, SentOK, Requests, Request
<1>7. ASSUME Good(form'), UNCHANGED <<pageVars, value>>, stack' = <<>>,
             \A f \in Elements : Accepted(f)
      PROVE  RequestInv'
  <2>1. Requests(form)'
    BY <1>7 DEF Requests, Request
  <2>2. Elements' = Elements
    BY <1>7 DEF pageVars, Elements, Inputs
  <2>3. ASSUME NEW f \in Elements PROVE Accepted(f)'
    <3>1. Accepted(f)
      BY <1>7
    <3>2. UNCHANGED <<page, dom, settings, value>>
      BY <1>7 DEF pageVars
    <3> QED
      BY <3>1, <3>2 DEF Accepted, Accepts, AcceptsOwn, Inputs
  <2> QED
    BY <1>7, <2>1, <2>2, <2>3 DEF RequestInv, SentOK
<1> HIDE DEF Good
<1>8. CASE UNCHANGED vars
  <2>1. UNCHANGED <<pageVars, value, form, stack, sent>>
    BY <1>8 DEF vars, pageVars
  <2>2. CASE sent = "checked"
    BY <1>1, <1>7, <2>1, <2>2 DEF RequestInv, SentOK
  <2>3. CASE sent # "checked"
    BY <1>1, <1>6, <2>1, <2>3
  <2> QED
    BY <2>2, <2>3
<1>9. CASE \/ Parse \/ ResetPressed
           \/ \E f \in Field, skipAttach \in BOOLEAN : ParseElement(f, skipAttach)
           \/ \E f \in Field : AddField(f)
           \/ \E f \in Field, v \in Value : Edit(f, v)
  <2>1. form' = form /\ sent' = "no"
    BY <1>9 DEF Parse, ParseElement, AddField, Edit, ResetPressed
  <2> QED
    BY <1>1, <1>6, <2>1
<1>10. CASE OnReset \/ PluginResets \/ PluginThrows
  <2>1. form' = form /\ sent' = sent /\ stack # <<>>
    BY <1>10 DEF OnReset, PluginResets, PluginThrows, Idle
  <2>2. sent # "checked"
    BY <2>1 DEF RequestInv, SentOK
  <2> QED
    BY <1>1, <1>6, <2>1, <2>2
<1>11. CASE ResetForm
  <2>1. sent' # "checked"
    BY <1>11 DEF ResetForm, Idle, RequestInv, SentOK
  <2>2. /\ Shaped(form')
        /\ form'.previous = FreshForm.previous /\ form'.pending = form.pending
        /\ form'.asked = [f \in Field |->
             IF form.asked[f] = NoRequest THEN form.asked[f]
             ELSE [form.asked[f] EXCEPT !.own = FALSE]]
    BY <1>11, ResetFields DEF FormInv
  <2>3. ASSUME NEW f \in Field PROVE Request(form', f)
    <3>1. form'.previous[f] = [old |-> NoRequest, valid |-> TRUE]
      BY <2>2 DEF FreshForm
    <3>2. Request(form, f)
      BY DEF RequestInv, Requests
    <3>0. /\ DOMAIN form'.previous[f] = {"old", "valid"}
          /\ form'.previous[f].old = NoRequest /\ form'.previous[f].valid = TRUE
      BY <3>1
    <3>3. CASE form.asked[f] = NoRequest
      <4>1. form'.asked[f] = NoRequest
        BY <2>2, <3>3
      <4> QED
        BY <3>0, <4>1 DEF Request
    <3>4. CASE form.asked[f] # NoRequest
      <4>1. form'.asked[f] = [form.asked[f] EXCEPT !.own = FALSE]
            /\ DOMAIN form.asked[f] = {"data", "own"}
        BY <2>2, <3>2, <3>4 DEF Request
      <4>2. DOMAIN form'.asked[f] = {"data", "own"} /\ form'.asked[f].own = FALSE
        BY <4>1
      <4> QED
        BY <3>0, <4>2 DEF Request
    <3> QED
      BY <3>3, <3>4
  <2>4. Good(form')
    BY <2>2, <2>3 DEF Good, Requests
  <2> QED
    BY <1>6, <2>1, <2>4
<1>12. CASE \E f \in Field : CheckElement(f)
  BY <1>1, <1>6, <1>12 DEF CheckElement
<1>13. CASE Validate
  BY <1>1, <1>2, <1>6, <1>13 DEF Validate
<1>14. CASE Submit
  <2>1. form' = Form(form) /\ Good(form') /\ stack' = <<>>
    BY <1>1, <1>2, <1>14 DEF Submit, Idle, resetVars
  <2>2. CASE sent' # "checked"
    BY <1>6, <2>1, <2>2
  <2>3. CASE sent' = "checked"
    <3>1. ~Throws(form, Elements) /\ Valid(form') /\ form'.pending = {}
      BY <1>14, <2>3 DEF Submit
    <3>2. \A f \in Elements : Accepted(f)
      BY <1>1, <1>5, <2>1, <3>1
    <3>3. UNCHANGED <<pageVars, value>>
      BY <1>14 DEF Submit
    <3> QED
      BY <1>7, <2>1, <3>2, <3>3
  <2> QED
    BY <2>2, <2>3
<1>15. CASE \E f \in Field : RemoteAccepts(f)
  <2>1. PICK f \in Field : RemoteAccepts(f)
    BY <1>15
  <2> DEFINE now == Answered(f)
             again == Form(now)
             goes == Valid(again) /\ again.pending = {} /\ ~Throws(now, Elements)
  <2>2. /\ form.asked[f] # NoRequest /\ stack' = <<>> /\ UNCHANGED <<pageVars, value>>
        /\ \/ form' = Form(again) /\ goes
           \/ form' \in {again, now} /\ sent' = "no"
    BY <2>1 DEF RemoteAccepts, Idle, resetVars
  <2>3. Good(now)
    BY <1>3, <2>2
  <2> HIDE DEF now
  <2>4. Good(again)
    BY <1>2, <2>3
  <2>5. CASE form' \in {again, now} /\ sent' = "no"
    BY <1>6, <2>3, <2>4, <2>5
  <2>6. CASE form' = Form(again) /\ goes
    <3>1. \A g \in Elements : Accepted(g)
      BY <1>5, <2>3, <2>6
    <3>2. Good(form')
      BY <1>2, <2>4, <2>6
    <3> QED
      BY <1>7, <2>2, <3>1, <3>2
  <2> QED
    BY <2>2, <2>5, <2>6
<1>16. CASE \E f \in Field : RemoteRejects(f)
  <2>1. PICK f \in Field : RemoteRejects(f)
    BY <1>16
  <2>2. /\ form.asked[f] # NoRequest /\ sent' = "no"
        /\ form' \in {Answered(f), OnErrors(Answered(f))}
    BY <2>1 DEF RemoteRejects
  <2> QED
    BY <1>3, <1>4, <1>6, <2>2
<1>17. CASE \E f \in Field : RequestFails(f)
  <2>1. PICK f \in Field : RequestFails(f)
    BY <1>17
  <2>2. sent' = "no" /\ form' = [form EXCEPT !.asked[f] = NoRequest]
    BY <2>1 DEF RequestFails
  <2>3. Shaped(form) /\ Requests(form)
    BY <1>1 DEF Good
  <2>4. Shaped(form') /\ form'.previous = form.previous /\ form'.pending = form.pending
        /\ form'.asked = [form.asked EXCEPT ![f] = NoRequest]
    BY <2>2, <2>3 DEF Shaped
  <2>5. Requests(form')
    BY <2>3, <2>4 DEF Requests, Request, Shaped
  <2> QED
    BY <1>6, <2>2, <2>4, <2>5 DEF Good
<1> QED
  BY <1>8, <1>9, <1>10, <1>11, <1>12, <1>13, <1>14, <1>15, <1>16, <1>17 DEF Next

(* A form that passed the validator is sent with values that all its rules *)
(* accept, and that the server accepted together with what the additional  *)
(* fields hold when it is sent: no verdict for earlier values is used (the *)
(* functions of value.data, 398-411).                                      *)
THEOREM SubmitsAreAccepted ==
  Spec => []SubmittedWasAccepted
<1> DEFINE IInv == PageOne /\ FormInv /\ RequestInv
<1>1. Init => IInv
  BY FormInit, RequestInit
<1>2. IInv /\ [Next]_vars => IInv'
  BY FormStep, RequestStep
<1>3. IInv => SubmittedWasAccepted
  BY DEF RequestInv, SentOK, SubmittedWasAccepted, Accepted
<1> HIDE DEF IInv
<1> QED
  BY <1>1, <1>2, <1>3, PTL DEF Spec

===============================================================================
