------------------------ MODULE UnobtrusiveRulesProofs ------------------------
(* Proofs about the rules that the adapters of UnobtrusiveValidation make  *)
(* of a field's attributes.                                                *)
EXTENDS UnobtrusiveValidation, WellFoundedInduction, TLAPS

(***************************************************************************)
(* The adapters.                                                           *)
(***************************************************************************)
Files ==
  IF "extension" \in Methods
  THEN <<AddSingleVal("accept", "mimtype", "accept"),
         AddSingleVal("extension", "extension", "extension")>>
  ELSE <<AddSingleVal("extension", "extension", "accept")>>

Others ==
  <<AddSingleVal("regex", "pattern", "regex"),
    AddBool("creditcard"), AddBool("date"), AddBool("digits"),
    AddBool("email"), AddBool("number"), AddBool("url"),
    AddMinMax("length", "minlength", "maxlength", "rangelength"),
    AddMinMax("range", "min", "max", "range"),
    AddMinMax("minlength", "minlength", "undefined", "undefined"),
    AddMinMax("maxlength", "minlength", "maxlength", "undefined"),
    AdapterOf("equalto", {"other"}, "equalto", <<>>),
    AdapterOf("required", {}, "required", <<>>),
    AdapterOf("remote", {"url", "type", "additionalfields"}, "remote", <<>>),
    Password("min", "minlength"), Password("nonalphamin", "nonalphamin"),
    Password("regex", "regex"),
    AdapterOf("fileextensions", {"extensions"}, "single",
              <<"extension", "extensions">>)>>

Join(s, t) == s \o t

(* Every element of two joined sequences is one of theirs. *)
LEMMA Joined ==
  ASSUME NEW A, NEW s \in Seq(A), NEW t \in Seq(A), NEW u, u = Join(s, t)
  PROVE  /\ DOMAIN u = 1 .. (Len(s) + Len(t))
         /\ \A i \in DOMAIN u : \/ \E j \in 1 .. Len(s) : u[i] = s[j]
                                \/ \E j \in 1 .. Len(t) : u[i] = t[j]
         /\ \A j \in 1 .. Len(t) : \E i \in DOMAIN u : u[i] = t[j]
<1>0. u = s \o t
  BY DEF Join
<1>1. Len(s) \in Nat /\ Len(t) \in Nat /\ DOMAIN u = 1 .. (Len(s) + Len(t))
  BY <1>0
<1>2. ASSUME NEW i \in DOMAIN u
      PROVE  \/ \E j \in 1 .. Len(s) : u[i] = s[j]
             \/ \E j \in 1 .. Len(t) : u[i] = t[j]
  <2>1. CASE i <= Len(s)
    <3>1. i \in 1 .. Len(s) /\ u[i] = s[i]
      BY <1>0, <1>1, <2>1
    <3> QED
      BY <3>1
  <2>2. CASE i > Len(s)
    <3>1. i - Len(s) \in 1 .. Len(t) /\ u[i] = t[i - Len(s)]
      BY <1>0, <1>1, <2>2
    <3> QED
      BY <3>1
  <2> QED
    BY <1>1, <2>1, <2>2
<1>3. ASSUME NEW j \in 1 .. Len(t)
      PROVE  \E i \in DOMAIN u : u[i] = t[j]
  <2>1. Len(s) + j \in 1 .. (Len(s) + Len(t)) /\ (Len(s) + j) - Len(s) = j
        /\ Len(s) + j > Len(s)
    BY <1>1
  <2>2. u[Len(s) + j] = t[j]
    BY <1>0, <1>1, <2>1
  <2> QED
    BY <1>1, <2>1, <2>2
<1> QED
  BY <1>1, <1>2, <1>3

(* The adapters are those of the files, then the others. *)
LEMMA AdaptersAre ==
  /\ \A i \in DOMAIN Adapters :
       \/ \E j \in {1, 2} : j <= Len(Files) /\ Adapters[i] = Files[j]
       \/ \E j \in 1 .. 18 : Adapters[i] = Others[j]
  /\ \A j \in 1 .. 18 : \E i \in DOMAIN Adapters : Adapters[i] = Others[j]
  /\ DOMAIN Adapters \subseteq 1 .. 20
<1> DEFINE A == {Files[i] : i \in DOMAIN Files} \cup {Others[i] : i \in DOMAIN Others}
<1>1. Len(Files) \in {1, 2}
  BY DEF Files
<1>2. Files \in Seq(A)
  <2>1. CASE "extension" \in Methods
    <3>1. Files = <<Files[1], Files[2]>> /\ Files[1] \in A /\ Files[2] \in A
      BY <2>1 DEF Files
    <3> HIDE DEF A
    <3> QED
      BY <3>1
  <2>2. CASE "extension" \notin Methods
    <3> DEFINE only == AddSingleVal("extension", "extension", "accept")
    <3>1. Files = <<only>> /\ only \in A
      BY <2>2 DEF Files
    <3> HIDE DEF A, only
    <3>2. <<only>> \in Seq(A)
      BY <3>1
    <3> QED
      BY <3>1, <3>2
  <2> QED
    BY <2>1, <2>2
<1>3. Len(Others) = 18
  BY DEF Others
<1>4. Others \in Seq(A)
  BY DEF Others
<1>5. Adapters = Join(Files, Others)
  BY DEF Adapters, Files, Others, Join
<1> HIDE DEF A
<1>6. /\ DOMAIN Adapters = 1 .. (Len(Files) + Len(Others))
      /\ \A i \in DOMAIN Adapters : \/ \E j \in 1 .. Len(Files) : Adapters[i] = Files[j]
                                    \/ \E j \in 1 .. Len(Others) : Adapters[i] = Others[j]
      /\ \A j \in 1 .. Len(Others) : \E i \in DOMAIN Adapters : Adapters[i] = Others[j]
  <2>1. DOMAIN Adapters = 1 .. (Len(Files) + Len(Others))
    BY <1>2, <1>4, <1>5, Joined
  <2>2. ASSUME NEW i \in DOMAIN Adapters
        PROVE  \/ \E j \in 1 .. Len(Files) : Adapters[i] = Files[j]
               \/ \E j \in 1 .. Len(Others) : Adapters[i] = Others[j]
    BY <1>2, <1>4, <1>5, Joined
  <2>3. \A j \in 1 .. Len(Others) : \E i \in DOMAIN Adapters : Adapters[i] = Others[j]
    BY <1>2, <1>4, <1>5, Joined
  <2> QED
    BY <2>1, <2>2, <2>3
<1> DEFINE n == Len(Files)
<1>7. n \in {1, 2}
  BY <1>1
<1> HIDE DEF n
<1>8. /\ 1 .. n \subseteq {1, 2} /\ \A j \in 1 .. n : j <= n
      /\ 1 .. (n + 18) \subseteq 1 .. 20
  BY <1>7
<1>9. /\ 1 .. Len(Files) \subseteq {1, 2} /\ \A j \in 1 .. Len(Files) : j <= Len(Files)
      /\ 1 .. (Len(Files) + 18) \subseteq 1 .. 20
  BY <1>8 DEF n
<1> QED
  BY <1>3, <1>6, <1>9

(***************************************************************************)
(* The calls the adapters make for a field.                                *)
(***************************************************************************)
PageOne == page \in Pages

Has(f, n, p) == n \in DOMAIN page.attrs[f] /\ p \in DOMAIN page.attrs[f][n]
At(f, n, p) == page.attrs[f][n][p]

(* A bound or a pattern that an attribute gives is there, and is no blank. *)
LEMMA Given ==
  ASSUME PageOne, NEW f \in Field
  PROVE  /\ \A n \in {"length", "range", "minlength", "maxlength", "password"},
               p \in {"min", "max"} : Has(f, n, p) => At(f, n, p) \in Nat
         /\ ~Has(f, "minlength", "max") /\ ~Has(f, "maxlength", "min")
         /\ Has(f, "password", "nonalphamin") =>
              At(f, "password", "nonalphamin") \in Nat \ {0}
         /\ Has(f, "password", "regex") => At(f, "password", "regex") \subseteq Value
         /\ "regex" \in DOMAIN page.attrs[f] =>
              Has(f, "regex", "pattern") /\ At(f, "regex", "pattern") \subseteq Value
         /\ "equalto" \in DOMAIN page.attrs[f] => Has(f, "equalto", "other")
         /\ \A n \in Nat : Truthy(n) /\ n # Undefined
         /\ \A S \in SUBSET Value : Truthy(S) /\ S # Undefined
         /\ ~Truthy(Undefined)
<1>1. AttributesOK(page.attrs[f])
  BY PagesAssumption DEF PageOne, PageOK
<1> QED
  BY <1>1, NoValuesAssumption DEF AttributesOK, Has, At, Truthy

(* An adapter reads the parameters it names. *)
LEMMA ParamsAre ==
  ASSUME NEW f, NEW a, NEW n \in a.params
  PROVE  Params(f, a)[n] = IF n \in DOMAIN page.attrs[f][a.name]
                           THEN At(f, a.name, n) ELSE Undefined
  BY DEF Params, At

(* The call of an adapter with bounds. *)
LEMMA MinMaxCall ==
  ASSUME PageOne, NEW f \in Field,
         NEW n \in {"length", "range", "minlength", "maxlength"},
         n \in DOMAIN page.attrs[f], NEW lo, NEW hi, NEW both
  PROVE  Adapt(AddMinMax(n, lo, hi, both), f) =
           IF Has(f, n, "min") /\ Has(f, n, "max")
           THEN RuleCall(both, <<At(f, n, "min"), At(f, n, "max")>>)
           ELSE IF Has(f, n, "min") THEN RuleCall(lo, At(f, n, "min"))
           ELSE IF Has(f, n, "max") THEN RuleCall(hi, At(f, n, "max")) ELSE NoCall
<1> DEFINE a == AddMinMax(n, lo, hi, both)
           p == Params(f, a)
<1>1. a.params = {"min", "max"} /\ a.name = n /\ a.kind = "minmax"
      /\ a.rules = <<lo, hi, both>>
  BY DEF AddMinMax, AdapterOf
<1>2. Adapt(a, f) = MinMax(a, p)
  BY <1>1 DEF Adapt
<1> HIDE DEF a
<1>3. /\ p["min"] = IF Has(f, n, "min") THEN At(f, n, "min") ELSE Undefined
      /\ p["max"] = IF Has(f, n, "max") THEN At(f, n, "max") ELSE Undefined
  BY <1>1, ParamsAre DEF Has
<1> HIDE DEF p
<1>4. /\ Truthy(p["min"]) <=> Has(f, n, "min")
      /\ Truthy(p["max"]) <=> Has(f, n, "max")
  BY <1>3, Given
<1> QED
  BY <1>1, <1>2, <1>3, <1>4 DEF MinMax, a

(* The calls of the other adapters whose rules the attributes bound. *)
LEMMA BoolCall ==
  ASSUME NEW f, NEW n
  PROVE  Adapt(AddBool(n), f) = RuleCall(n, TRUE) /\ AddBool(n).name = n
  BY DEF Adapt, AddBool, AdapterOf

(* An adapter with one parameter sets its rule, whatever that is. *)
LEMMA SingleCall ==
  ASSUME NEW f, NEW n, NEW at, NEW r, NEW a, a = AddSingleVal(n, at, r)
  PROVE  /\ Adapt(a, f) = RuleCall(r, Params(f, a)[at]) /\ Adapt(a, f).rule = r
         /\ a.name = n /\ a.params = {at}
  BY DEF Adapt, AddSingleVal, AdapterOf, RuleCall

(* The pattern of regex. *)
LEMMA RegexCall ==
  ASSUME PageOne, NEW f \in Field, "regex" \in DOMAIN page.attrs[f],
         NEW a, a = AddSingleVal("regex", "pattern", "regex")
  PROVE  Adapt(a, f) = RuleCall("regex", At(f, "regex", "pattern"))
<1>1. a.params = {"pattern"} /\ a.name = "regex"
      /\ Adapt(a, f) = RuleCall("regex", Params(f, a)["pattern"])
  BY SingleCall
<1>2. Params(f, a)["pattern"] = At(f, "regex", "pattern")
  BY <1>1, ParamsAre, Given DEF Has
<1> QED
  BY <1>1, <1>2

(* A box that may be ticked is not required. *)
LEMMA RequiredCall ==
  ASSUME NEW f, NEW a, a = AdapterOf("required", {}, "required", <<>>)
  PROVE  /\ a.name = "required"
         /\ Adapt(a, f) =
              IF page.type[f] = "checkbox" THEN NoCall ELSE RuleCall("required", TRUE)
  BY DEF Adapt, AdapterOf

(* A part of the rules for passwords. *)
LEMMA PasswordCall ==
  ASSUME PageOne, NEW f \in Field, "password" \in DOMAIN page.attrs[f],
         NEW n \in {"min", "nonalphamin", "regex"}, NEW r, NEW a, a = Password(n, r)
  PROVE  Adapt(a, f) =
           IF Has(f, "password", n) THEN RuleCall(r, At(f, "password", n)) ELSE NoCall
<1> DEFINE p == Params(f, a)[n]
<1>1. a.params = {n} /\ a.name = "password"
      /\ Adapt(a, f) = IF Truthy(p) THEN RuleCall(r, p) ELSE NoCall
  BY DEF Password, AdapterOf, Adapt
<1>2. p = IF Has(f, "password", n) THEN At(f, "password", n) ELSE Undefined
  BY <1>1, ParamsAre DEF Has
<1>3. Truthy(p) <=> Has(f, "password", n)
  BY <1>2, Given
<1> QED
  BY <1>1, <1>2, <1>3

(* The adapters one by one. *)
LEMMA OthersAre ==
  /\ Others[1] = AddSingleVal("regex", "pattern", "regex")
  /\ Others[2] = AddBool("creditcard") /\ Others[3] = AddBool("date")
  /\ Others[4] = AddBool("digits") /\ Others[5] = AddBool("email")
  /\ Others[6] = AddBool("number") /\ Others[7] = AddBool("url")
  /\ Others[8] = AddMinMax("length", "minlength", "maxlength", "rangelength")
  /\ Others[9] = AddMinMax("range", "min", "max", "range")
  /\ Others[10] = AddMinMax("minlength", "minlength", "undefined", "undefined")
  /\ Others[11] = AddMinMax("maxlength", "minlength", "maxlength", "undefined")
  /\ Others[12] = AdapterOf("equalto", {"other"}, "equalto", <<>>)
  /\ Others[13] = AdapterOf("required", {}, "required", <<>>)
  /\ Others[14] =
       AdapterOf("remote", {"url", "type", "additionalfields"}, "remote", <<>>)
  /\ Others[15] = Password("min", "minlength")
  /\ Others[16] = Password("nonalphamin", "nonalphamin")
  /\ Others[17] = Password("regex", "regex")
  /\ Others[18] = AdapterOf("fileextensions", {"extensions"}, "single",
                            <<"extension", "extensions">>)
  BY DEF Others

(* An adapter has the name it was added under. *)
LEMMA AdapterNames ==
  /\ \A n : AddBool(n).name = n
  /\ \A n, lo, hi, both : AddMinMax(n, lo, hi, both).name = n
  /\ \A n, at, r : AddSingleVal(n, at, r).name = n
  /\ \A n, r : Password(n, r).name = "password"
  /\ \A n, p, k, r : AdapterOf(n, p, k, r).name = n
  BY DEF AddBool, AddMinMax, AddSingleVal, Password, AdapterOf

WellFormedRules == {"creditcard", "date", "digits", "email", "number", "url"}

(* The calls for a field: by the adapters of files and those whose value is *)
(* an element or a request, of which the attributes ask no more ...        *)
Vague == {"accept", "extension", "equalTo", "remote"}
(* ... and one for each bound, pattern or mark among the attributes.       *)
Named(f) == AppendModelPrefix(At(f, "equalto", "other"), Front(f))
Bounded(f, n, lo, hi, both, c) ==
  \/ Has(f, n, "min") /\ Has(f, n, "max")
     /\ c = RuleCall(both, <<At(f, n, "min"), At(f, n, "max")>>)
  \/ Has(f, n, "min") /\ ~Has(f, n, "max") /\ c = RuleCall(lo, At(f, n, "min"))
  \/ ~Has(f, n, "min") /\ Has(f, n, "max") /\ c = RuleCall(hi, At(f, n, "max"))
Passwords(f, n, r, c) == Has(f, "password", n) /\ c = RuleCall(r, At(f, "password", n))
Marks(f, c) ==
  \/ \E n \in WellFormedRules : n \in DOMAIN page.attrs[f] /\ c = RuleCall(n, TRUE)
  \/ "required" \in DOMAIN page.attrs[f] /\ page.type[f] # "checkbox"
     /\ c = RuleCall("required", TRUE)
  \/ "regex" \in DOMAIN page.attrs[f] /\ c = RuleCall("regex", At(f, "regex", "pattern"))
Sharp(f, c) ==
  \/ Marks(f, c)
  \/ Bounded(f, "length", "minlength", "maxlength", "rangelength", c)
  \/ Bounded(f, "range", "min", "max", "range", c)
  \/ Bounded(f, "minlength", "minlength", "undefined", "undefined", c)
  \/ Bounded(f, "maxlength", "minlength", "maxlength", "undefined", c)
  \/ Passwords(f, "min", "minlength", c)
  \/ Passwords(f, "nonalphamin", "nonalphamin", c)
  \/ Passwords(f, "regex", "regex", c)

(* An adapter with bounds calls for what is there of them. *)
LEMMA BoundsCall ==
  ASSUME PageOne, NEW f \in Field,
         NEW n \in {"length", "range", "minlength", "maxlength"},
         n \in DOMAIN page.attrs[f], NEW lo, NEW hi, NEW both,
         NEW c, c = Adapt(AddMinMax(n, lo, hi, both), f)
  PROVE  c = NoCall \/ Bounded(f, n, lo, hi, both, c)
<1>1. c = IF Has(f, n, "min") /\ Has(f, n, "max")
           THEN RuleCall(both, <<At(f, n, "min"), At(f, n, "max")>>)
           ELSE IF Has(f, n, "min") THEN RuleCall(lo, At(f, n, "min"))
           ELSE IF Has(f, n, "max") THEN RuleCall(hi, At(f, n, "max")) ELSE NoCall
  BY MinMaxCall
<1> QED
  BY <1>1 DEF Bounded

(* Every call is of these. *)
LEMMA CallsAre ==
  ASSUME PageOne, NEW f \in Field, NEW i \in Adapted(f)
  PROVE  \/ CallOf(f, i).rule \in Vague \ {"equalTo"}
         \/ "equalto" \in DOMAIN page.attrs[f]
            /\ CallOf(f, i) = RuleCall("equalTo", Lookup(Named(f)))
         \/ Sharp(f, CallOf(f, i))
<1> DEFINE a == Adapters[i]
           c == CallOf(f, i)
           names == DOMAIN page.attrs[f]
<1>1. i \in DOMAIN Adapters /\ a.name \in names /\ c # NoCall /\ c = Adapt(a, f)
  BY DEF Adapted, CallOf
<1>13. \/ \E j \in {1, 2} : j <= Len(Files) /\ a = Files[j]
       \/ \E j \in 1 .. 18 : a = Others[j]
  BY <1>1, AdaptersAre
<1> HIDE DEF a, c
<1>2. CASE \E j \in {1, 2} : j <= Len(Files) /\ a = Files[j]
  <2>1. a \in {AddSingleVal("accept", "mimtype", "accept"),
               AddSingleVal("extension", "extension", "extension"),
               AddSingleVal("extension", "extension", "accept")}
    BY <1>2 DEF Files
  <2>2. PICK n, at, r : a = AddSingleVal(n, at, r) /\ r \in {"accept", "extension"}
    BY <2>1
  <2>3. c.rule = r
    BY <1>1, <2>2, SingleCall
  <2> QED
    BY <2>2, <2>3 DEF Vague, c
<1>3. CASE \E n \in WellFormedRules : a = AddBool(n)
  <2>1. PICK n \in WellFormedRules : a = AddBool(n)
    BY <1>3
  <2>2. n \in names /\ c = RuleCall(n, TRUE)
    BY <1>1, <2>1, BoolCall
  <2> QED
    BY <2>2 DEF Sharp, Marks, c
<1>4. CASE a = Others[1]
  <2>1. a = AddSingleVal("regex", "pattern", "regex")
    BY <1>4, OthersAre
  <2>2. "regex" \in names
    BY <1>1, <2>1, AdapterNames
  <2>3. c = RuleCall("regex", At(f, "regex", "pattern"))
    BY <1>1, <2>1, <2>2, RegexCall
  <2> QED
    BY <2>2, <2>3 DEF Sharp, Marks, c
<1>5. CASE a = Others[13]
  <2>1. a = AdapterOf("required", {}, "required", <<>>)
    BY <1>5, OthersAre
  <2>2. "required" \in names
    BY <1>1, <2>1, AdapterNames
  <2>3. page.type[f] # "checkbox" /\ c = RuleCall("required", TRUE)
    BY <1>1, <2>1, RequiredCall
  <2> QED
    BY <2>2, <2>3 DEF Sharp, Marks, c
<1>6. ASSUME NEW n \in {"length", "range", "minlength", "maxlength"},
             NEW lo, NEW hi, NEW both, a = AddMinMax(n, lo, hi, both)
      PROVE  Bounded(f, n, lo, hi, both, c)
  <2>1. n \in names
    BY <1>1, <1>6, AdapterNames
  <2> QED
    BY <1>1, <1>6, <2>1, BoundsCall
<1>7. CASE a \in {Others[8], Others[9], Others[10], Others[11]}
  <2>1. \/ a = AddMinMax("length", "minlength", "maxlength", "rangelength")
        \/ a = AddMinMax("range", "min", "max", "range")
        \/ a = AddMinMax("minlength", "minlength", "undefined", "undefined")
        \/ a = AddMinMax("maxlength", "minlength", "maxlength", "undefined")
    BY <1>7, OthersAre
  <2>2. \/ Bounded(f, "length", "minlength", "maxlength", "rangelength", c)
        \/ Bounded(f, "range", "min", "max", "range", c)
        \/ Bounded(f, "minlength", "minlength", "undefined", "undefined", c)
        \/ Bounded(f, "maxlength", "minlength", "maxlength", "undefined", c)
    BY <1>6, <2>1
  <2> QED
    BY <2>2 DEF Sharp, c
<1>8. ASSUME NEW n \in {"min", "nonalphamin", "regex"}, NEW r, a = Password(n, r)
      PROVE  Passwords(f, n, r, c)
  <2>1. "password" \in names
    BY <1>1, <1>8, AdapterNames
  <2>2. c = IF Has(f, "password", n) THEN RuleCall(r, At(f, "password", n)) ELSE NoCall
    BY <1>1, <1>8, <2>1, PasswordCall
  <2> QED
    BY <1>1, <2>2 DEF Passwords
<1>9. CASE a \in {Others[15], Others[16], Others[17]}
  <2>1. \/ a = Password("min", "minlength")
        \/ a = Password("nonalphamin", "nonalphamin")
        \/ a = Password("regex", "regex")
    BY <1>9, OthersAre
  <2>2. \/ Passwords(f, "min", "minlength", c)
        \/ Passwords(f, "nonalphamin", "nonalphamin", c)
        \/ Passwords(f, "regex", "regex", c)
    BY <1>8, <2>1
  <2> QED
    BY <2>2 DEF Sharp, c
<1>10. CASE a = Others[12]
  <2>1. a = AdapterOf("equalto", {"other"}, "equalto", <<>>)
    BY <1>10, OthersAre
  <2>2. a.name = "equalto" /\ a.params = {"other"}
        /\ c = RuleCall("equalTo", Lookup(AppendModelPrefix(Params(f, a)["other"], Front(f))))
    BY <1>1, <2>1 DEF Adapt, AdapterOf, GetModelPrefix
  <2>3. Params(f, a)["other"] = At(f, "equalto", "other")
    BY <1>1, <2>2, ParamsAre, Given DEF Has
  <2> QED
    BY <1>1, <2>2, <2>3 DEF c, Named
<1>11. CASE a = Others[14]
  <2>1. a = AdapterOf("remote", {"url", "type", "additionalfields"}, "remote", <<>>)
    BY <1>11, OthersAre
  <2>2. c.rule = "remote"
    BY <1>1, <2>1 DEF Adapt, AdapterOf, RuleCall
  <2> QED
    BY <2>2 DEF Vague, c
<1>12. CASE a = Others[18]
  <2>1. a = AdapterOf("fileextensions", {"extensions"}, "single",
                      <<"extension", "extensions">>)
    BY <1>12, OthersAre
  <2>2. c.rule = "extension"
    BY <1>1, <2>1 DEF Adapt, AdapterOf, RuleCall
  <2> QED
    BY <2>2 DEF Vague, c
<1>14. ASSUME NEW j \in 2 .. 7, a = Others[j]
       PROVE  \E n \in WellFormedRules : a = AddBool(n)
  BY <1>14, OthersAre DEF WellFormedRules
<1> QED
  BY <1>2, <1>3, <1>4, <1>5, <1>7, <1>9, <1>10, <1>11, <1>12, <1>13, <1>14

(* And of each kind that the attributes ask for there is a call. *)
LEMMA CallsAreMade ==
  ASSUME PageOne, NEW f \in Field, NEW c, Sharp(f, c)
  PROVE  \E i \in Adapted(f) : CallOf(f, i) = c
<1> DEFINE names == DOMAIN page.attrs[f]
<1>1. SUFFICES \E j \in 1 .. 18 : Others[j].name \in names /\ Adapt(Others[j], f) = c
                                  /\ c # NoCall
  <2>1. PICK j \in 1 .. 18 : Others[j].name \in names /\ Adapt(Others[j], f) = c
                             /\ c # NoCall
    BY <1>1
  <2>2. PICK i \in DOMAIN Adapters : Adapters[i] = Others[j]
    BY AdaptersAre
  <2> QED
    BY <2>1, <2>2 DEF Adapted, CallOf
<1>2. \A r, v : r # "none" => RuleCall(r, v) # NoCall
  BY DEF RuleCall, NoCall
<1>3. CASE Marks(f, c)
  <2>1. CASE \E n \in WellFormedRules : n \in names /\ c = RuleCall(n, TRUE)
    <3>1. PICK n \in WellFormedRules : n \in names /\ c = RuleCall(n, TRUE)
      BY <2>1
    <3>2. n # "none" /\ \E j \in 2 .. 7 : Others[j] = AddBool(n)
      BY OthersAre DEF WellFormedRules
    <3>3. PICK j \in 2 .. 7 : Others[j] = AddBool(n)
      BY <3>2
    <3>4. Others[j].name \in names /\ Adapt(Others[j], f) = c /\ c # NoCall
      BY <1>2, <3>1, <3>2, <3>3, BoolCall
    <3> QED
      BY <3>4
  <2>2. CASE "required" \in names /\ page.type[f] # "checkbox" /\ c = RuleCall("required", TRUE)
    <3>1. Others[13] = AdapterOf("required", {}, "required", <<>>)
      BY OthersAre
    <3>2. Others[13].name \in names /\ Adapt(Others[13], f) = c /\ c # NoCall
      BY <1>2, <2>2, <3>1, RequiredCall
    <3> QED
      BY <3>2
  <2>3. CASE "regex" \in names /\ c = RuleCall("regex", At(f, "regex", "pattern"))
    <3>1. Others[1] = AddSingleVal("regex", "pattern", "regex")
      BY OthersAre
    <3>2. Others[1].name = "regex"
      BY <3>1, AdapterNames
    <3>3. Adapt(Others[1], f) = c /\ c # NoCall
      BY <1>2, <2>3, <3>1, RegexCall
    <3> QED
      BY <2>3, <3>2, <3>3
  <2> QED
    BY <1>3, <2>1, <2>2, <2>3 DEF Marks
<1>4. ASSUME NEW n \in {"length", "range", "minlength", "maxlength"},
             NEW lo, NEW hi, NEW both, lo # "none", hi # "none", both # "none",
             Bounded(f, n, lo, hi, both, c),
             NEW j \in 1 .. 18, Others[j] = AddMinMax(n, lo, hi, both)
      PROVE  Others[j].name \in names /\ Adapt(Others[j], f) = c /\ c # NoCall
  <2>1. n \in names
    BY <1>4 DEF Bounded, Has
  <2>2. Adapt(Others[j], f) =
           IF Has(f, n, "min") /\ Has(f, n, "max")
           THEN RuleCall(both, <<At(f, n, "min"), At(f, n, "max")>>)
           ELSE IF Has(f, n, "min") THEN RuleCall(lo, At(f, n, "min"))
           ELSE IF Has(f, n, "max") THEN RuleCall(hi, At(f, n, "max")) ELSE NoCall
    BY <1>4, <2>1, MinMaxCall
  <2>3. Adapt(Others[j], f) = c /\ c # NoCall
    BY <1>2, <1>4, <2>2 DEF Bounded
  <2>4. Others[j].name = n
    BY <1>4, AdapterNames
  <2> QED
    BY <2>1, <2>3, <2>4
<1>5. CASE \/ Bounded(f, "length", "minlength", "maxlength", "rangelength", c)
           \/ Bounded(f, "range", "min", "max", "range", c)
           \/ Bounded(f, "minlength", "minlength", "undefined", "undefined", c)
           \/ Bounded(f, "maxlength", "minlength", "maxlength", "undefined", c)
  <2>1. CASE Bounded(f, "length", "minlength", "maxlength", "rangelength", c)
    <3>1. Others[8] = AddMinMax("length", "minlength", "maxlength", "rangelength")
      BY OthersAre
    <3>2. Others[8].name \in names /\ Adapt(Others[8], f) = c /\ c # NoCall
      BY <1>4, <2>1, <3>1
    <3> QED
      BY <3>2
  <2>2. CASE Bounded(f, "range", "min", "max", "range", c)
    <3>1. Others[9] = AddMinMax("range", "min", "max", "range")
      BY OthersAre
    <3>2. Others[9].name \in names /\ Adapt(Others[9], f) = c /\ c # NoCall
      BY <1>4, <2>2, <3>1
    <3> QED
      BY <3>2
  <2>3. CASE Bounded(f, "minlength", "minlength", "undefined", "undefined", c)
    <3>1. Others[10] = AddMinMax("minlength", "minlength", "undefined", "undefined")
      BY OthersAre
    <3>2. Others[10].name \in names /\ Adapt(Others[10], f) = c /\ c # NoCall
      BY <1>4, <2>3, <3>1
    <3> QED
      BY <3>2
  <2>4. CASE Bounded(f, "maxlength", "minlength", "maxlength", "undefined", c)
    <3>1. Others[11] = AddMinMax("maxlength", "minlength", "maxlength", "undefined")
      BY OthersAre
    <3>2. Others[11].name \in names /\ Adapt(Others[11], f) = c /\ c # NoCall
      BY <1>4, <2>4, <3>1
    <3> QED
      BY <3>2
  <2> QED
    BY <1>5, <2>1, <2>2, <2>3, <2>4
<1>6. ASSUME NEW n \in {"min", "nonalphamin", "regex"}, NEW r, r # "none",
             Passwords(f, n, r, c), NEW j \in 1 .. 18, Others[j] = Password(n, r)
      PROVE  Others[j].name \in names /\ Adapt(Others[j], f) = c /\ c # NoCall
  <2>1. "password" \in names /\ Others[j].name = "password"
    BY <1>6, AdapterNames DEF Passwords, Has
  <2>2. Adapt(Others[j], f) = RuleCall(r, At(f, "password", n))
    BY <1>6, <2>1, PasswordCall DEF Passwords
  <2> QED
    BY <1>2, <1>6, <2>1, <2>2 DEF Passwords
<1>7. CASE \/ Passwords(f, "min", "minlength", c)
           \/ Passwords(f, "nonalphamin", "nonalphamin", c)
           \/ Passwords(f, "regex", "regex", c)
  BY <1>6, <1>7, OthersAre
<1> QED
  BY <1>3, <1>5, <1>7 DEF Sharp

(***************************************************************************)
(* The calls and what the attributes ask for.                              *)
(***************************************************************************)
(* What a range asks for: an order of numbers, or of texts if it has one   *)
(* bound only.                                                             *)
InRange(f, v) ==
  LET lo == At(f, "range", "min")
      hi == At(f, "range", "max")
  IN  IF Has(f, "range", "min") /\ Has(f, "range", "max") THEN v >= lo /\ v <= hi
      ELSE /\ Has(f, "range", "min") => TextAtMost(lo, v)
           /\ Has(f, "range", "max") => TextAtMost(v, hi)

(* What the attributes mean, with the names used here. *)
LEMMA MeantIs ==
  ASSUME PageOne, NEW f \in Field, NEW v
  PROVE  Meant(f, v) <=>
    /\ "required" \in DOMAIN page.attrs[f] /\ page.type[f] # "checkbox" => v # 0
    /\ Has(f, "equalto", "other") => v = value[Named(f)]
    /\ Has(f, "password", "nonalphamin") =>
         NonAlpha[v] >= At(f, "password", "nonalphamin")
    /\ v # 0 =>
         /\ InRange(f, v)
         /\ \A n \in {"length", "minlength", "password"} :
              Has(f, n, "min") => v >= At(f, n, "min")
         /\ \A n \in {"length", "maxlength"} :
              Has(f, n, "max") => v <= At(f, n, "max")
         /\ Has(f, "regex", "pattern") => v \in At(f, "regex", "pattern")
         /\ Has(f, "password", "regex") => v \in At(f, "password", "regex")
         /\ DOMAIN page.attrs[f] \cap WellFormedRules # {} => v \in WellFormed
  BY DEF Meant, InRange, Has, At, Named, WellFormedRules

(* A value that meets the attributes is accepted by the rule of every call.*)
LEMMA MeantAccepted ==
  ASSUME PageOne, NEW f \in Field, NEW v \in Value, Meant(f, v), NEW c, Sharp(f, c)
  PROVE  Accepts(c.rule, c.val, v)
<1>1. v \in Nat /\ NonAlpha[v] \in Nat
  BY PagesAssumption
<1>2. \A r, w : RuleCall(r, w).rule = r /\ RuleCall(r, w).val = w
  BY DEF RuleCall
<1>3. CASE Marks(f, c)
  <2>1. CASE \E n \in WellFormedRules : n \in DOMAIN page.attrs[f] /\ c = RuleCall(n, TRUE)
    <3>1. PICK n \in WellFormedRules : n \in DOMAIN page.attrs[f] /\ c = RuleCall(n, TRUE)
      BY <2>1
    <3>2. v # 0 => v \in WellFormed
      BY <3>1, MeantIs
    <3>3. Accepts(n, TRUE, v)
      BY <3>2 DEF Accepts, WellFormedRules
    <3> QED
      BY <1>2, <3>1, <3>3
  <2>2. CASE /\ "required" \in DOMAIN page.attrs[f] /\ page.type[f] # "checkbox"
             /\ c = RuleCall("required", TRUE)
    <3>1. v # 0
      BY <2>2, MeantIs
    <3>2. c.rule = "required"
      BY <1>2, <2>2
    <3> QED
      BY <3>1, <3>2 DEF Accepts
  <2>3. CASE /\ "regex" \in DOMAIN page.attrs[f]
             /\ c = RuleCall("regex", At(f, "regex", "pattern"))
    <3>1. v # 0 => v \in At(f, "regex", "pattern")
      BY <2>3, MeantIs, Given
    <3> QED
      BY <1>2, <2>3, <3>1 DEF Accepts, AcceptsOwn
  <2> QED
    BY <1>3, <2>1, <2>2, <2>3 DEF Marks
<1>4. ASSUME NEW n \in {"length", "minlength"}, Has(f, n, "min"), v # 0
      PROVE  v >= At(f, n, "min")
  BY <1>4, MeantIs
<1>5. ASSUME NEW n \in {"length", "maxlength"}, Has(f, n, "max"), v # 0
      PROVE  v <= At(f, n, "max")
  BY <1>5, MeantIs
<1>6. ASSUME NEW lo, NEW hi, lo <= v, v <= hi
      PROVE  /\ Accepts("rangelength", <<lo, hi>>, v) /\ Accepts("range", <<lo, hi>>, v)
  BY <1>6 DEF Accepts
<1>7. ASSUME NEW w
      PROVE  /\ v >= w => Accepts("minlength", w, v)
             /\ v <= w => Accepts("maxlength", w, v)
             /\ TextAtMost(w, v) => Accepts("min", w, v)
             /\ TextAtMost(v, w) => Accepts("max", w, v)
  BY DEF Accepts
<1>8. v = 0 => \A r, w : r \notin {"required", "equalTo", "nonalphamin"} => Accepts(r, w, v)
  BY DEF Accepts, AcceptsOwn
<1>9. CASE Bounded(f, "length", "minlength", "maxlength", "rangelength", c)
  <2>1. \/ c = RuleCall("rangelength", <<At(f, "length", "min"), At(f, "length", "max")>>)
           /\ Has(f, "length", "min") /\ Has(f, "length", "max")
        \/ c = RuleCall("minlength", At(f, "length", "min")) /\ Has(f, "length", "min")
        \/ c = RuleCall("maxlength", At(f, "length", "max")) /\ Has(f, "length", "max")
    BY <1>9 DEF Bounded
  <2>2. CASE v = 0
    BY <1>2, <1>8, <2>1, <2>2
  <2>3. CASE v # 0
    <3>1. /\ Has(f, "length", "min") => v >= At(f, "length", "min")
          /\ Has(f, "length", "max") => v <= At(f, "length", "max")
          /\ Has(f, "length", "min") => At(f, "length", "min") \in Nat
      BY <1>4, <1>5, <2>3, Given
    <3> QED
      BY <1>1, <1>2, <1>6, <1>7, <2>1, <3>1
  <2> QED
    BY <2>2, <2>3
<1>10. CASE Bounded(f, "range", "min", "max", "range", c)
  <2> DEFINE lo == At(f, "range", "min")
             hi == At(f, "range", "max")
  <2>1. CASE v = 0
    <3>1. c.rule \in {"min", "max", "range"}
      BY <1>2, <1>10 DEF Bounded
    <3> QED
      BY <1>8, <2>1, <3>1
  <2>2. CASE v # 0
    <3>0. InRange(f, v)
      BY <2>2, MeantIs
    <3>1. CASE Has(f, "range", "min") /\ Has(f, "range", "max")
      <4>1. v >= lo /\ v <= hi /\ lo \in Nat
        BY <3>0, <3>1, Given DEF InRange
      <4>2. c = RuleCall("range", <<lo, hi>>)
        BY <1>10, <3>1 DEF Bounded
      <4>3. Accepts("range", <<lo, hi>>, v)
        BY <1>1, <1>6, <4>1
      <4> QED
        BY <1>2, <4>2, <4>3
    <3>2. CASE ~(Has(f, "range", "min") /\ Has(f, "range", "max"))
      <4>1. \/ c = RuleCall("min", lo) /\ TextAtMost(lo, v)
            \/ c = RuleCall("max", hi) /\ TextAtMost(v, hi)
        BY <1>10, <3>0, <3>2 DEF Bounded, InRange
      <4> QED
        BY <1>2, <1>7, <4>1
    <3> QED
      BY <3>1, <3>2
  <2> QED
    BY <2>1, <2>2
<1>11. CASE \/ Bounded(f, "minlength", "minlength", "undefined", "undefined", c)
            \/ Bounded(f, "maxlength", "minlength", "maxlength", "undefined", c)
  <2>1. \/ c = RuleCall("minlength", At(f, "minlength", "min")) /\ Has(f, "minlength", "min")
        \/ c = RuleCall("maxlength", At(f, "maxlength", "max")) /\ Has(f, "maxlength", "max")
    BY <1>11, Given DEF Bounded
  <2>2. CASE v = 0
    BY <1>2, <1>8, <2>1, <2>2
  <2>3. CASE v # 0
    BY <1>2, <1>4, <1>5, <1>7, <2>1, <2>3
  <2> QED
    BY <2>2, <2>3
<1>12. CASE Passwords(f, "min", "minlength", c)
  <2>1. v # 0 => v >= At(f, "password", "min")
    BY <1>12, MeantIs DEF Passwords
  <2> QED
    BY <1>2, <1>7, <1>8, <1>12, <2>1 DEF Passwords
<1>13. CASE Passwords(f, "nonalphamin", "nonalphamin", c)
  <2>1. NonAlpha[v] >= At(f, "password", "nonalphamin")
        /\ At(f, "password", "nonalphamin") \in Nat \ {0}
    BY <1>13, MeantIs, Given DEF Passwords
  <2>2. NonAlpha[v] > 0
    BY <1>1, <2>1
  <2> QED
    BY <1>2, <1>13, <2>1, <2>2 DEF Passwords, Accepts, AcceptsOwn
<1>14. CASE Passwords(f, "regex", "regex", c)
  <2>1. v # 0 => v \in At(f, "password", "regex")
    BY <1>14, MeantIs DEF Passwords
  <2> QED
    BY <1>2, <1>14, <2>1 DEF Passwords, Accepts, AcceptsOwn
<1> QED
  BY <1>3, <1>9, <1>10, <1>11, <1>12, <1>13, <1>14 DEF Sharp

(* A value that the rule of every call accepts meets the attributes.       *)
LEMMA AcceptedMeant ==
  ASSUME PageOne, NEW f \in Field, NEW v \in Value,
         \A c : Sharp(f, c) => Accepts(c.rule, c.val, v),
         "equalto" \in DOMAIN page.attrs[f] => v = value[Named(f)]
  PROVE  Meant(f, v)
<1>1. v \in Nat
  BY PagesAssumption
<1>2. \A r, w : RuleCall(r, w).rule = r /\ RuleCall(r, w).val = w
  BY DEF RuleCall
<1>3. ASSUME NEW r, NEW w, Sharp(f, RuleCall(r, w)) PROVE Accepts(r, w, v)
  BY <1>2, <1>3
<1>4. ASSUME "required" \in DOMAIN page.attrs[f], page.type[f] # "checkbox" PROVE v # 0
  <2>1. Sharp(f, RuleCall("required", TRUE))
    BY <1>4 DEF Sharp, Marks
  <2> QED
    BY <1>3, <2>1 DEF Accepts
<1>5. ASSUME Has(f, "equalto", "other") PROVE v = value[Named(f)]
  BY <1>5 DEF Has
<1>6. ASSUME Has(f, "password", "nonalphamin")
      PROVE  NonAlpha[v] >= At(f, "password", "nonalphamin")
  <2>1. Sharp(f, RuleCall("nonalphamin", At(f, "password", "nonalphamin")))
    BY <1>6 DEF Sharp, Passwords
  <2> QED
    BY <1>3, <2>1 DEF Accepts, AcceptsOwn
<1>7. ASSUME v # 0
      PROVE  /\ Has(f, "length", "min") => v >= At(f, "length", "min")
             /\ Has(f, "length", "max") => v <= At(f, "length", "max")
  <2> DEFINE lo == At(f, "length", "min")
             hi == At(f, "length", "max")
  <2>1. \A c : Bounded(f, "length", "minlength", "maxlength", "rangelength", c)
                => Sharp(f, c)
    BY DEF Sharp
  <2>2. CASE Has(f, "length", "min") /\ Has(f, "length", "max")
    <3>1. Accepts("rangelength", <<lo, hi>>, v)
      BY <1>3, <2>1, <2>2 DEF Bounded
    <3> QED
      BY <1>7, <3>1 DEF Accepts
  <2>3. CASE Has(f, "length", "min") /\ ~Has(f, "length", "max")
    <3>1. Accepts("minlength", lo, v)
      BY <1>3, <2>1, <2>3 DEF Bounded
    <3> QED
      BY <1>7, <2>3, <3>1 DEF Accepts
  <2>4. CASE ~Has(f, "length", "min") /\ Has(f, "length", "max")
    <3>1. Accepts("maxlength", hi, v)
      BY <1>3, <2>1, <2>4 DEF Bounded
    <3> QED
      BY <1>7, <2>4, <3>1 DEF Accepts
  <2> QED
    BY <2>2, <2>3, <2>4
<1>8. ASSUME v # 0, Has(f, "minlength", "min") PROVE v >= At(f, "minlength", "min")
  <2>1. Sharp(f, RuleCall("minlength", At(f, "minlength", "min")))
    BY <1>8, Given DEF Sharp, Bounded
  <2> QED
    BY <1>3, <1>8, <2>1 DEF Accepts
<1>9. ASSUME v # 0, Has(f, "maxlength", "max") PROVE v <= At(f, "maxlength", "max")
  <2>1. Sharp(f, RuleCall("maxlength", At(f, "maxlength", "max")))
    BY <1>9, Given DEF Sharp, Bounded
  <2> QED
    BY <1>3, <1>9, <2>1 DEF Accepts
<1>10. ASSUME v # 0, Has(f, "password", "min") PROVE v >= At(f, "password", "min")
  <2>1. Sharp(f, RuleCall("minlength", At(f, "password", "min")))
    BY <1>10 DEF Sharp, Passwords
  <2> QED
    BY <1>3, <1>10, <2>1 DEF Accepts
<1>11. ASSUME v # 0, Has(f, "regex", "pattern") PROVE v \in At(f, "regex", "pattern")
  <2>1. Sharp(f, RuleCall("regex", At(f, "regex", "pattern")))
    BY <1>11 DEF Sharp, Marks, Has
  <2> QED
    BY <1>3, <1>11, <2>1 DEF Accepts, AcceptsOwn
<1>12. ASSUME v # 0, Has(f, "password", "regex") PROVE v \in At(f, "password", "regex")
  <2>1. Sharp(f, RuleCall("regex", At(f, "password", "regex")))
    BY <1>12 DEF Sharp, Passwords
  <2> QED
    BY <1>3, <1>12, <2>1 DEF Accepts, AcceptsOwn
<1>13. ASSUME v # 0, DOMAIN page.attrs[f] \cap WellFormedRules # {} PROVE v \in WellFormed
  <2>1. PICK n \in WellFormedRules : n \in DOMAIN page.attrs[f]
    BY <1>13
  <2>2. Sharp(f, RuleCall(n, TRUE))
    BY <2>1 DEF Sharp, Marks
  <2> QED
    BY <1>3, <1>13, <2>2 DEF Accepts, WellFormedRules
<1>14. ASSUME v # 0 PROVE InRange(f, v)
  <2> DEFINE lo == At(f, "range", "min")
             hi == At(f, "range", "max")
  <2>1. \A c : Bounded(f, "range", "min", "max", "range", c) => Sharp(f, c)
    BY DEF Sharp
  <2>2. CASE Has(f, "range", "min") /\ Has(f, "range", "max")
    <3>1. Accepts("range", <<lo, hi>>, v)
      BY <1>3, <2>1, <2>2 DEF Bounded
    <3>2. v >= lo /\ v <= hi
      BY <1>14, <3>1 DEF Accepts
    <3> QED
      BY <2>2, <3>2 DEF InRange
  <2>3. CASE Has(f, "range", "min") /\ ~Has(f, "range", "max")
    <3>1. Accepts("min", lo, v)
      BY <1>3, <2>1, <2>3 DEF Bounded
    <3>2. TextAtMost(lo, v)
      BY <1>14, <3>1 DEF Accepts
    <3> QED
      BY <2>3, <3>2 DEF InRange
  <2>4. CASE ~Has(f, "range", "min") /\ Has(f, "range", "max")
    <3>1. Accepts("max", hi, v)
      BY <1>3, <2>1, <2>4 DEF Bounded
    <3>2. TextAtMost(v, hi)
      BY <1>14, <3>1 DEF Accepts
    <3> QED
      BY <2>4, <3>2 DEF InRange
  <2>5. CASE ~Has(f, "range", "min") /\ ~Has(f, "range", "max")
    BY <2>5 DEF InRange
  <2> QED
    BY <2>2, <2>3, <2>4, <2>5
<1> QED
  BY <1>4, <1>5, <1>6, <1>7, <1>8, <1>9, <1>10, <1>11, <1>12, <1>13, <1>14,
     MeantIs

(***************************************************************************)
(* The rules a field gets.                                                 *)
(***************************************************************************)
(* Every set of numbers has a least element. *)
LEMMA LeastNumber ==
  ASSUME NEW T, T \subseteq Nat, T # {}
  PROVE  \E x \in T : \A y \in T : x <= y
<1> DEFINE R == OpToRel(<, Nat)
<1>1. IsWellFoundedOn(R, Nat)
  BY NatLessThanWellFounded, Zenon
<1>2. PICK x \in T : \A y \in T : <<y, x>> \notin R
  <2> HIDE DEF R
  <2> QED
    BY <1>1, WFMin
<1>3. ASSUME NEW y \in T PROVE x <= y
  <2>1. <<y, x>> \notin R
    BY <1>2
  <2>2. ~(y < x)
    BY <2>1 DEF OpToRel
  <2> QED
    BY <2>2
<1> QED
  BY <1>3

(* A bounded set of numbers has a greatest element, which Max is. *)
LEMMA MaxOfNumbers ==
  ASSUME NEW S, S \subseteq Nat, S # {}, NEW n \in Nat, \A x \in S : x <= n
  PROVE  Max(S) \in S /\ \A x \in S : x <= Max(S)
<1> DEFINE Bounds == {b \in Nat : \A x \in S : x <= b}
<1>1. PICK b \in Bounds : \A c \in Bounds : b <= c
  <2>1. Bounds \subseteq Nat /\ n \in Bounds
    OBVIOUS
  <2> QED
    BY <2>1, LeastNumber
<1>2. b \in S
  <2>1. SUFFICES ASSUME b \notin S PROVE FALSE
    OBVIOUS
  <2>2. \A x \in S : x <= b /\ x # b
    BY <1>1, <2>1
  <2>3. b > 0
    <3>1. PICK x \in S : TRUE
      OBVIOUS
    <3>2. x \in Nat /\ x <= b /\ x # b
      BY <2>2
    <3> QED
      BY <3>2
  <2>4. b - 1 \in Bounds
    BY <2>2, <2>3
  <2> QED
    BY <1>1, <2>4
<1>3. \E m \in S : \A x \in S : m >= x
  BY <1>1, <1>2
<1> QED
  BY <1>3 DEF Max

(* Of calls there is a last one. *)
LEMMA LastCall ==
  ASSUME NEW S, S \subseteq 1 .. 20, S # {}
  PROVE  Max(S) \in S
<1>1. S \subseteq Nat /\ 20 \in Nat /\ \A x \in S : x <= 20
  OBVIOUS
<1> QED
  BY <1>1, MaxOfNumbers

(* Inductive: every rule is there because of a call, with the value of some *)
(* call for it, and every call that matters to the attributes has its rule. *)
Settled(f, rules) ==
  /\ \A r \in DOMAIN rules :
       \/ r = "__dummy__"
       \/ r = "equalTo" /\ "equalto" \in DOMAIN page.attrs[f]
          /\ rules[r].val \in {Named(f), Undefined}
       \/ r # "equalTo" /\ \E i \in Adapted(f) :
            CallOf(f, i).rule = r /\ CallOf(f, i).val = rules[r].val
  /\ \A i \in Adapted(f) : CallOf(f, i).rule \notin Vague =>
       CallOf(f, i).rule \in DOMAIN rules

(* Parsing sets a rule for each call. *)
LEMMA ParsedIs ==
  ASSUME NEW f
  PROVE  LET rules == Parsed(f) IN
         /\ DOMAIN rules = {CallOf(f, i).rule : i \in Adapted(f)} \cup {"__dummy__"}
         /\ \A r \in DOMAIN rules : r # "__dummy__" =>
              \E i \in Adapted(f) :
                CallOf(f, i).rule = r /\ rules[r].val = CallOf(f, i).val
<1> DEFINE By(r) == {i \in Adapted(f) : CallOf(f, i).rule = r}
           R == {CallOf(f, i).rule : i \in Adapted(f)}
<1>1. /\ DOMAIN Parsed(f) = R \cup {"__dummy__"}
      /\ \A r \in R : r # "__dummy__" => Parsed(f)[r] = SetValidationValues(f, By(r))
  BY DEF Parsed
<1>2. ASSUME NEW r \in R, r # "__dummy__"
      PROVE  \E i \in Adapted(f) :
               CallOf(f, i).rule = r /\ Parsed(f)[r].val = CallOf(f, i).val
  <2>1. By(r) # {} /\ By(r) \subseteq 1 .. 20
    BY AdaptersAre DEF Adapted
  <2>2. Max(By(r)) \in By(r)
    <3> HIDE DEF By
    <3> QED
      BY <2>1, LastCall
  <2>3. SetValidationValues(f, By(r)).val = CallOf(f, Max(By(r))).val
    <3> HIDE DEF By
    <3> QED
      BY DEF SetValidationValues
  <2> QED
    BY <1>1, <1>2, <2>2, <2>3
<1> QED
  BY <1>1, <1>2

(* A call for what an attribute asks has its own rule, and a value.        *)
LEMMA SharpRules ==
  ASSUME PageOne, NEW f \in Field, NEW c, Sharp(f, c)
  PROVE  c.rule \notin Vague /\ c.val # Undefined /\ c.rule # "__dummy__"
<1>1. \A r, w : RuleCall(r, w).rule = r /\ RuleCall(r, w).val = w
  BY DEF RuleCall
<1>2. CASE Marks(f, c)
  <2>1. "regex" \in DOMAIN page.attrs[f] => At(f, "regex", "pattern") # Undefined
    BY Given
  <2>2. TRUE # Undefined
    BY NoValuesAssumption
  <2>3. \/ c.rule \in WellFormedRules \cup {"required"} /\ c.val = TRUE
        \/ "regex" \in DOMAIN page.attrs[f] /\ c.rule = "regex"
           /\ c.val = At(f, "regex", "pattern")
    <3>1. CASE \E n \in WellFormedRules : c = RuleCall(n, TRUE)
      <4>1. PICK n \in WellFormedRules : c = RuleCall(n, TRUE)
        BY <3>1
      <4>2. c.rule = n /\ c.val = TRUE
        BY <1>1, <4>1
      <4> QED
        BY <4>2
    <3>2. CASE c = RuleCall("required", TRUE)
      BY <1>1, <3>2
    <3>3. CASE "regex" \in DOMAIN page.attrs[f]
               /\ c = RuleCall("regex", At(f, "regex", "pattern"))
      BY <1>1, <3>3
    <3> QED
      BY <1>2, <3>1, <3>2, <3>3 DEF Marks
  <2>4. c.val # Undefined
    BY <2>1, <2>2, <2>3
  <2>5. c.rule \in WellFormedRules \cup {"required", "regex"}
    BY <2>3
  <2> QED
    BY <2>4, <2>5 DEF Vague, WellFormedRules
<1>3. ASSUME NEW n \in {"length", "range", "minlength", "maxlength"},
             NEW lo, NEW hi, NEW both, Bounded(f, n, lo, hi, both, c)
      PROVE  c.rule \in {lo, hi, both} /\ c.val # Undefined
  <2>1. /\ Has(f, n, "min") => At(f, n, "min") \in Nat
        /\ Has(f, n, "max") => At(f, n, "max") \in Nat
    BY Given
  <2>2. Undefined \notin Nat /\ Undefined \notin Nat \X Nat
    BY NoValuesAssumption
  <2> QED
    BY <1>1, <1>3, <2>1, <2>2 DEF Bounded
<1>4. ASSUME NEW n \in {"min", "nonalphamin", "regex"}, NEW r, Passwords(f, n, r, c)
      PROVE  c.rule = r /\ c.val # Undefined
  BY <1>1, <1>4, Given DEF Passwords
<1>5. CASE Bounded(f, "length", "minlength", "maxlength", "rangelength", c)
  BY <1>3, <1>5 DEF Vague
<1>6. CASE Bounded(f, "range", "min", "max", "range", c)
  BY <1>3, <1>6 DEF Vague
<1>7. CASE Bounded(f, "minlength", "minlength", "undefined", "undefined", c)
  BY <1>3, <1>7 DEF Vague
<1>8. CASE Bounded(f, "maxlength", "minlength", "maxlength", "undefined", c)
  BY <1>3, <1>8 DEF Vague
<1>9. CASE \/ Passwords(f, "min", "minlength", c)
           \/ Passwords(f, "nonalphamin", "nonalphamin", c)
           \/ Passwords(f, "regex", "regex", c)
  BY <1>4, <1>9 DEF Vague
<1> QED
  BY <1>2, <1>5, <1>6, <1>7, <1>8, <1>9 DEF Sharp

(* Which call has which rule. *)
LEMMA CallRules ==
  ASSUME PageOne, NEW f \in Field, NEW i \in Adapted(f)
  PROVE  /\ CallOf(f, i).rule = "equalTo" =>
              "equalto" \in DOMAIN page.attrs[f] /\ CallOf(f, i).val = Lookup(Named(f))
         /\ CallOf(f, i).rule \notin Vague => Sharp(f, CallOf(f, i))
         /\ CallOf(f, i).rule # "__dummy__"
<1>1. \A r, w : RuleCall(r, w).rule = r /\ RuleCall(r, w).val = w
  BY DEF RuleCall
<1>2. CASE CallOf(f, i).rule \in Vague \ {"equalTo"}
  BY <1>2 DEF Vague
<1>3. CASE "equalto" \in DOMAIN page.attrs[f]
           /\ CallOf(f, i) = RuleCall("equalTo", Lookup(Named(f)))
  BY <1>1, <1>3 DEF Vague
<1>4. CASE Sharp(f, CallOf(f, i))
  <2>1. CallOf(f, i).rule \notin Vague /\ CallOf(f, i).rule # "__dummy__"
    BY <1>4, SharpRules
  <2> QED
    BY <1>4, <2>1 DEF Vague
<1> QED
  BY <1>2, <1>3, <1>4, CallsAre

(* What parsing leaves is settled. *)
LEMMA ParsedSettled ==
  ASSUME PageOne, NEW f \in Field
  PROVE  Settled(f, Parsed(f))
<1> DEFINE rules == Parsed(f)
<1>1. /\ DOMAIN rules = {CallOf(f, i).rule : i \in Adapted(f)} \cup {"__dummy__"}
      /\ \A r \in DOMAIN rules : r # "__dummy__" =>
           \E i \in Adapted(f) :
             CallOf(f, i).rule = r /\ rules[r].val = CallOf(f, i).val
  BY ParsedIs
<1> HIDE DEF rules
<1>2. ASSUME NEW r \in DOMAIN rules, r # "__dummy__"
      PROVE  \/ r = "equalTo" /\ "equalto" \in DOMAIN page.attrs[f]
                /\ rules[r].val \in {Named(f), Undefined}
             \/ r # "equalTo" /\ \E i \in Adapted(f) :
                  CallOf(f, i).rule = r /\ CallOf(f, i).val = rules[r].val
  <2>1. PICK i \in Adapted(f) : CallOf(f, i).rule = r /\ rules[r].val = CallOf(f, i).val
    BY <1>1, <1>2
  <2>2. CASE r = "equalTo"
    <3>1. "equalto" \in DOMAIN page.attrs[f] /\ CallOf(f, i).val = Lookup(Named(f))
      BY <2>1, <2>2, CallRules
    <3> QED
      BY <2>1, <2>2, <3>1 DEF Lookup
  <2> QED
    BY <2>1, <2>2
<1> QED
  BY <1>1, <1>2 DEF Settled, rules

(* Copying drops no rule that the attributes ask for, and an equalto rule  *)
(* that named no element.                                                  *)
LEMMA CopySettled ==
  ASSUME PageOne, NEW f \in Field, NEW rules, Settled(f, rules)
  PROVE  /\ Settled(f, Copied(rules))
         /\ \A r \in DOMAIN Copied(rules) : Copied(rules)[r].val # Undefined
<1> DEFINE copy == Copied(rules)
<1>1. /\ DOMAIN copy = {r \in DOMAIN rules : rules[r].val # Undefined}
      /\ \A r \in DOMAIN copy : copy[r] = rules[r]
  BY DEF Copied
<1> HIDE DEF copy
<1>2. ASSUME NEW i \in Adapted(f), CallOf(f, i).rule \notin Vague
      PROVE  CallOf(f, i).rule \in DOMAIN copy
  <2> DEFINE r == CallOf(f, i).rule
  <2>1. r \in DOMAIN rules /\ r # "equalTo" /\ r # "__dummy__"
    BY <1>2, CallRules DEF Settled, Vague
  <2>2. PICK j \in Adapted(f) : CallOf(f, j).rule = r /\ CallOf(f, j).val = rules[r].val
    BY <2>1 DEF Settled
  <2>3. Sharp(f, CallOf(f, j))
    BY <1>2, <2>2, CallRules
  <2>4. rules[r].val # Undefined
    BY <2>2, <2>3, SharpRules
  <2> QED
    BY <1>1, <2>1, <2>4
<1>3. Settled(f, copy)
  BY <1>1, <1>2 DEF Settled
<1> QED
  BY <1>1, <1>3 DEF copy

(* The calls for a field do not change, unless by what is in the page for  *)
(* the other field of equalto.                                             *)
LEMMA SameCall ==
  ASSUME page' = page, NEW f, NEW a
  PROVE  \/ Adapt(a, f)' = Adapt(a, f)
         \/ /\ a.kind = "equalto"
            /\ Adapt(a, f).rule = "equalTo" /\ Adapt(a, f).rule' = "equalTo"
<1>1. Params(f, a)' = Params(f, a)
  BY DEF Params
<1> QED
  BY <1>1 DEF Adapt, MinMax, RemoteFields, RuleCall

(* Nor do their rules. *)
LEMMA SameCalls ==
  ASSUME page' = page, NEW f
  PROVE  /\ Adapted(f)' = Adapted(f)
         /\ \A i \in Adapted(f) : CallOf(f, i).rule' = CallOf(f, i).rule
         /\ \A i \in Adapted(f) :
              CallOf(f, i).rule # "equalTo" => CallOf(f, i)' = CallOf(f, i)
<1>1. \A r : r.rule = "equalTo" => r # NoCall
  BY DEF NoCall, RuleCall
<1>2. ASSUME NEW i \in DOMAIN Adapters
      PROVE  \/ Adapt(Adapters[i], f)' = Adapt(Adapters[i], f)
             \/ /\ Adapt(Adapters[i], f).rule = "equalTo"
                /\ Adapt(Adapters[i], f).rule' = "equalTo"
  <2>1. PICK a : a = Adapters[i]
    OBVIOUS
  <2>2. \/ Adapt(a, f)' = Adapt(a, f)
        \/ Adapt(a, f).rule = "equalTo" /\ Adapt(a, f).rule' = "equalTo"
    BY SameCall
  <2> QED
    BY <2>1, <2>2
<1>3. ASSUME NEW i \in DOMAIN Adapters
      PROVE  Adapt(Adapters[i], f)' # NoCall <=> Adapt(Adapters[i], f) # NoCall
  BY <1>1, <1>2
<1>4. Adapted(f)' = Adapted(f)
  BY <1>3 DEF Adapted
<1> QED
  BY <1>2, <1>4 DEF Adapted, CallOf

(* So a field that is settled stays so. *)
LEMMA SettledKept ==
  ASSUME page' = page, NEW f, NEW rules, Settled(f, rules)
  PROVE  Settled(f, rules)'
<1>1. Named(f)' = Named(f) /\ DOMAIN page.attrs[f]' = DOMAIN page.attrs[f]
  BY DEF Named, At
<1>2. ASSUME NEW r \in DOMAIN rules
      PROVE  \/ r = "__dummy__"
             \/ r = "equalTo" /\ "equalto" \in DOMAIN page.attrs[f]'
                /\ rules[r].val \in {Named(f)', Undefined}
             \/ r # "equalTo" /\ \E i \in Adapted(f)' :
                  CallOf(f, i).rule' = r /\ CallOf(f, i).val' = rules[r].val
  <2>1. ASSUME r # "equalTo", NEW i \in Adapted(f),
               CallOf(f, i).rule = r, CallOf(f, i).val = rules[r].val
        PROVE  i \in Adapted(f)' /\ CallOf(f, i).rule' = r
               /\ CallOf(f, i).val' = rules[r].val
    <3>1. i \in Adapted(f)' /\ CallOf(f, i)' = CallOf(f, i)
      BY <2>1, SameCalls
    <3> QED
      BY <2>1, <3>1
  <2> QED
    BY <1>1, <2>1 DEF Settled
<1>3. ASSUME NEW i \in Adapted(f)', CallOf(f, i).rule' \notin Vague
      PROVE  CallOf(f, i).rule' \in DOMAIN rules
  BY <1>3, SameCalls DEF Settled
<1> QED
  BY <1>2, <1>3 DEF Settled, Vague

(***************************************************************************)
(* The rules of the form.                                                  *)
(***************************************************************************)
(* Inductive: whatever is parsed, in the page's options and in what the    *)
(* validator copied of them all fields are settled; and the copy has no    *)
(* rule without a value.                                                   *)
RulesInv ==
  /\ options # NoForm =>
       /\ DOMAIN options \subseteq Field
       /\ \A f \in DOMAIN options : Settled(f, options[f])
  /\ settings # NoForm =>
       /\ DOMAIN settings \subseteq Field
       /\ \A f \in DOMAIN settings :
            /\ Settled(f, settings[f])
            /\ \A r \in DOMAIN settings[f] : settings[f][r].val # Undefined

(* Parsing some fields keeps that for the others. *)
LEMMA ReparsedSettled ==
  ASSUME PageOne, RulesInv, NEW S \in SUBSET Field
  PROVE  /\ DOMAIN Reparsed(S) \subseteq Field
         /\ \A f \in DOMAIN Reparsed(S) : Settled(f, Reparsed(S)[f])
<1>1. DOMAIN Known \subseteq Field /\ \A f \in DOMAIN Known : Settled(f, Known[f])
  BY DEF Known, RulesInv
<1> QED
  BY <1>1, ParsedSettled DEF Reparsed

(* Every step keeps the rules settled. *)
LEMMA RulesStep ==
  ASSUME PageOne, RulesInv, [Next]_vars
  PROVE  PageOne' /\ RulesInv'
<1>1. page' = page
  BY DEF Next, vars, pageVars, Parse, ParseElement, AddField, Edit, CheckElement,
     Validate, Submit, RemoteAccepts, RemoteRejects, RequestFails, ResetPressed,
     OnReset, PluginResets, PluginThrows, ResetForm
<1>2. ASSUME NEW f, Settled(f, options[f]), options'[f] = options[f]
      PROVE  Settled(f, options[f])'
  <2>1. PICK rules : rules = options[f]
    OBVIOUS
  <2>2. Settled(f, rules)' /\ rules = options'[f]
    BY <1>1, <1>2, <2>1, SettledKept
  <2> QED
    BY <2>2 DEF Settled
<1>3. ASSUME NEW f, Settled(f, settings[f]), settings'[f] = settings[f]
      PROVE  Settled(f, settings[f])'
  <2>1. PICK rules : rules = settings[f]
    OBVIOUS
  <2>2. Settled(f, rules)' /\ rules = settings'[f]
    BY <1>1, <1>3, <2>1, SettledKept
  <2> QED
    BY <2>2 DEF Settled
<1>4. CASE UNCHANGED <<options, settings>>
  BY <1>1, <1>2, <1>3, <1>4 DEF RulesInv, PageOne
<1>5. ASSUME NEW S \in SUBSET Field, options' = Reparsed(S),
             UNCHANGED settings \/ AttachValidation(options')
      PROVE  RulesInv'
  <2>1. /\ DOMAIN options' \subseteq Field
        /\ \A f \in DOMAIN options' : Settled(f, options'[f])
    BY <1>5, ReparsedSettled
  <2>2. ASSUME NEW f \in DOMAIN options' PROVE Settled(f, options[f])'
    <3>1. PICK rules : rules = options'[f]
      OBVIOUS
    <3>2. Settled(f, rules)'
      BY <1>1, <2>1, <3>1, SettledKept
    <3> QED
      BY <3>1, <3>2 DEF Settled
  <2>3. CASE settings' = settings
    BY <1>3, <2>1, <2>2, <2>3 DEF RulesInv
  <2>4. CASE settings' = [f \in DOMAIN options' |-> Copied(options'[f])]
    <3>1. ASSUME NEW f \in DOMAIN settings'
          PROVE  /\ Settled(f, settings[f])'
                 /\ \A r \in DOMAIN settings'[f] : settings'[f][r].val # Undefined
      <4>1. PICK rules : rules = settings'[f]
        OBVIOUS
      <4>2. f \in Field /\ rules = Copied(options'[f]) /\ Settled(f, options'[f])
        BY <2>1, <2>4, <4>1
      <4>3. Settled(f, rules) /\ \A r \in DOMAIN rules : rules[r].val # Undefined
        BY <4>2, CopySettled
      <4>4. Settled(f, rules)'
        BY <1>1, <4>3, SettledKept
      <4> QED
        BY <4>1, <4>3, <4>4 DEF Settled
    <3>2. DOMAIN settings' \subseteq Field
      BY <2>1, <2>4
    <3> QED
      BY <2>1, <2>2, <3>1, <3>2 DEF RulesInv
  <2> QED
    BY <1>5, <2>3, <2>4 DEF AttachValidation
<1>6. CASE Parse
  <2>1. Marked \in SUBSET Field
    BY PagesAssumption DEF Marked, Inputs, PageOne, PageOK
  <2> QED
    BY <1>1, <1>5, <1>6, <2>1 DEF Parse, PageOne
<1>7. CASE \E f \in Field, skipAttach \in BOOLEAN : ParseElement(f, skipAttach)
  <2>1. PICK f \in Field, skipAttach \in BOOLEAN : ParseElement(f, skipAttach)
    BY <1>7
  <2>2. options' = Reparsed({f}) /\ (UNCHANGED settings \/ AttachValidation(options'))
    BY <2>1 DEF ParseElement
  <2> QED
    BY <1>1, <1>5, <2>2 DEF PageOne
<1>8. ASSUME ~Parse,
             ~(\E f \in Field, skipAttach \in BOOLEAN : ParseElement(f, skipAttach))
      PROVE  UNCHANGED <<options, settings>>
  BY <1>8 DEF Next, vars, pageVars, AddField, Edit, CheckElement,
     Validate, Submit, RemoteAccepts, RemoteRejects, RequestFails, ResetPressed,
     OnReset, PluginResets, PluginThrows, ResetForm
<1> QED
  BY <1>4, <1>6, <1>7, <1>8

(* Rules that are settled accept what the attributes ask for, and nothing  *)
(* else unless two attributes contest a rule.                              *)
LEMMA SettledMeant ==
  ASSUME PageOne, RulesInv, settings # NoForm, NEW f \in DOMAIN settings,
         "equalto" \in DOMAIN page.attrs[f] => "equalTo" \in DOMAIN settings[f],
         NEW v \in Value
  PROVE  /\ Meant(f, v) => AllAccept(f, v)
         /\ AllAccept(f, v) => Meant(f, v) \/ Contested(f)
<1> DEFINE rules == settings[f]
<1>1. /\ f \in Field /\ Settled(f, rules)
      /\ \A r \in DOMAIN rules : rules[r].val # Undefined
  BY DEF RulesInv
<1>2. AllAccept(f, v) <=> \A r \in DOMAIN rules : Accepts(r, rules[r].val, v)
  BY DEF AllAccept
<1> HIDE DEF rules
<1>3. ASSUME "equalTo" \in DOMAIN rules
      PROVE  /\ "equalto" \in DOMAIN page.attrs[f] /\ rules["equalTo"].val = Named(f)
             /\ Accepts("equalTo", rules["equalTo"].val, v) <=> v = value[Named(f)]
  <2>1. "equalto" \in DOMAIN page.attrs[f] /\ rules["equalTo"].val = Named(f)
    BY <1>1, <1>3 DEF Settled
  <2>2. \A w : Accepts("equalTo", w, v) <=> v = value[w]
    BY DEF Accepts
  <2> QED
    BY <2>1, <2>2
<1>4. ASSUME Meant(f, v), NEW r \in DOMAIN rules PROVE Accepts(r, rules[r].val, v)
  <2>1. CASE r = "__dummy__"
    BY <2>1 DEF Accepts, AcceptsOwn
  <2>2. CASE r = "equalTo"
    <3>1. Has(f, "equalto", "other")
      BY <1>1, <1>3, <2>2, Given
    <3>2. v = value[Named(f)]
      BY <1>1, <1>4, <3>1, MeantIs
    <3> QED
      BY <1>3, <2>2, <3>2
  <2>3. CASE r # "__dummy__" /\ r # "equalTo"
    <3>1. PICK i \in Adapted(f) : CallOf(f, i).rule = r /\ CallOf(f, i).val = rules[r].val
      BY <1>1, <2>3 DEF Settled
    <3>2. CASE r \in Vague
      BY <2>3, <3>2 DEF Vague, Accepts, AcceptsOwn
    <3>3. CASE r \notin Vague
      <4>1. Sharp(f, CallOf(f, i))
        BY <1>1, <3>1, <3>3, CallRules
      <4> QED
        BY <1>1, <1>4, <3>1, <4>1, MeantAccepted
    <3> QED
      BY <3>2, <3>3
  <2> QED
    BY <2>1, <2>2, <2>3
<1>5. ASSUME AllAccept(f, v), ~Contested(f) PROVE Meant(f, v)
  <2>1. ASSUME NEW c, Sharp(f, c) PROVE Accepts(c.rule, c.val, v)
    <3>1. PICK i \in Adapted(f) : CallOf(f, i) = c
      BY <1>1, <2>1, CallsAreMade
    <3>2. c.rule \notin Vague /\ c.rule # "__dummy__"
      BY <1>1, <2>1, SharpRules
    <3>3. c.rule \in DOMAIN rules /\ c.rule # "equalTo"
      BY <1>1, <3>1, <3>2 DEF Settled, Vague
    <3>4. PICK j \in Adapted(f) :
            CallOf(f, j).rule = c.rule /\ CallOf(f, j).val = rules[c.rule].val
      BY <1>1, <3>2, <3>3 DEF Settled
    <3>5. CallOf(f, j).val = c.val
      BY <1>5, <3>1, <3>4 DEF Contested
    <3>6. Accepts(c.rule, rules[c.rule].val, v)
      BY <1>2, <1>5, <3>3
    <3> QED
      BY <3>4, <3>5, <3>6
  <2>2. ASSUME "equalto" \in DOMAIN page.attrs[f] PROVE v = value[Named(f)]
    <3>1. "equalTo" \in DOMAIN rules
      BY <2>2 DEF rules
    <3>2. Accepts("equalTo", rules["equalTo"].val, v)
      BY <1>2, <1>5, <3>1
    <3> QED
      BY <1>3, <3>1, <3>2
  <2> QED
    BY <1>1, <2>1, <2>2, AcceptedMeant
<1> QED
  BY <1>2, <1>4, <1>5

(* The rules a form is validated by accept every value that meets what its *)
(* attributes ask for, and no other, for all pages, fields and attributes  *)
(* and in whichever order they are parsed (the adapters, 258-428).  A      *)
(* range with one bound asks for an order of texts: the validator makes no *)
(* number of it, so that a min of 2 refuses 10.  Two exceptions: of two    *)
(* attributes that set one rule the last adapter's wins, and an equalto    *)
(* field parsed before its other field was there lost that rule.           *)
THEOREM RulesAreMeant ==
  Spec => []RulesMeanAttributes
<1> DEFINE IInv == PageOne /\ RulesInv
<1>1. Init => IInv
  BY DEF Init, PageOne, RulesInv
<1>2. IInv /\ [Next]_vars => IInv'
  BY RulesStep
<1>3. IInv => RulesMeanAttributes
  <2> SUFFICES ASSUME IInv, NEW f \in Elements,
                      "equalto" \in DOMAIN page.attrs[f] =>
                        "equalTo" \in DOMAIN settings[f],
                      NEW v \in Value
               PROVE  /\ Meant(f, v) => AllAccept(f, v)
                      /\ AllAccept(f, v) => Meant(f, v) \/ Contested(f)
    BY DEF RulesMeanAttributes
  <2>1. settings # NoForm /\ f \in DOMAIN settings
    BY DEF Elements
  <2> QED
    BY <2>1, SettledMeant
<1> HIDE DEF IInv
<1> QED
  BY <1>1, <1>2, <1>3, PTL DEF Spec
===============================================================================
