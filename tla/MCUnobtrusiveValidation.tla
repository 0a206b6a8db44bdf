----------------------- MODULE MCUnobtrusiveValidation -----------------------
(* Small instances of UnobtrusiveValidation for TLC: pages of two fields.  *)
EXTENDS UnobtrusiveValidation

user == <<"u", "name">>
mail == <<"u", "mail">>

TwoFields == <<user, mail>>
\* jquery.validate.min.js and the script's own, without additional-methods.js
CoreMethods == {"required", "email", "url", "date", "dateISO", "number",
  "digits", "minlength", "maxlength", "rangelength", "min", "max", "range",
  "step", "equalTo", "remote", "__dummy__", "regex", "nonalphamin"}
OneNonAlpha == [v \in {0, 2, 10} |-> IF v = 10 THEN 1 ELSE 0]

\* A name is free if it is 10, or 2 with the mail blank or not in the page.
FreeNames ==
  {d \in [{user, mail} -> {0, 2, 10}] :
     d[user] = 10 \/ (d[user] = 2 /\ d[mail] = 0)}

PageWith(onUser, onMail) ==
  [attrs |-> [f \in {user, mail} |-> IF f = user THEN onUser ELSE onMail],
   type |-> [f \in {user, mail} |-> "text"],
   place |-> [f \in {user, mail} |-> "replace"],
   late |-> {}, inForm |-> {user, mail}, summary |-> TRUE, ownClass |-> FALSE,
   plugin |-> TRUE]

Required == [message |-> "required"]
NameRemote ==
  [message |-> "taken", url |-> "/name", additionalfields |-> {<<"*", "mail">>}]

\* a remote name beside a mail with a range, with every way of showing verdicts
RemotePage ==
  PageWith([required |-> Required, remote |-> NameRemote],
           [range |-> [message |-> Empty, min |-> 10, max |-> 10]])
\* the mail must repeat the name; a label keeps its class
OwnClassPage ==
  [PageWith([remote |-> NameRemote, length |-> [message |-> "length", max |-> 2]],
            [equalto |-> [message |-> "equal", other |-> <<"*", "name">>]])
     EXCEPT !.ownClass = TRUE, !.summary = FALSE]
\* the name must repeat the mail, which comes later and is required
LatePage ==
  [PageWith([length |-> [message |-> "length", max |-> 2],
             equalto |-> [message |-> Empty, other |-> <<"*", "mail">>]],
            [required |-> Required])
     EXCEPT !.late = {mail}, !.plugin = FALSE]
\* a password, a check box; messages in place, and a field outside the form
PlainPage ==
  [PageWith([password |-> [message |-> "password", min |-> 2, nonalphamin |-> 1,
                           regex |-> {2, 10}],
             minlength |-> [message |-> "short", min |-> 2],
             maxlength |-> [message |-> "long", max |-> 10]],
            [required |-> Required,
             regex |-> [message |-> "pattern", pattern |-> {2}],
             email |-> [message |-> "email"]])
     EXCEPT !.type[mail] = "checkbox", !.place[user] = "keep", !.place[mail] = "none"]
\* a card number: the method is in additional-methods.js; two lengths for
\* a name, and one bound, which is compared as text: 10 is refused
CardPage ==
  PageWith([range |-> [message |-> "range", min |-> 2],
            length |-> [message |-> "length", min |-> 10],
            minlength |-> [message |-> Empty, min |-> 2]],
            [creditcard |-> [message |-> "card"]])
\* the mail is outside the form, or comes later
OutsidePage == [RemotePage EXCEPT !.inForm = {user}, !.plugin = FALSE]
LateMailPage ==
  [PageWith([remote |-> NameRemote], <<>>) EXCEPT !.late = {mail}, !.plugin = FALSE]

AllPages == {RemotePage, OwnClassPage, LatePage, PlainPage, CardPage, OutsidePage,
             LateMailPage}
=============================================================================
