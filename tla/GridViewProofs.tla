----------------------------- MODULE GridViewProofs -----------------------------
(* Proofs about GridView, for every page size, list length and set of tabs. *)
EXTENDS GridView, TLAPS

(* Multiplication with a number keeps the order. *)
LEMMA Monotone ==
  ASSUME NEW x \in Int, NEW y \in Int, NEW z \in Nat, x <= y
  PROVE  x * z <= y * z
  OBVIOUS

(* What the proofs use of integer division. *)
LEMMA Quotient ==
  ASSUME NEW n \in Nat, NEW b \in Nat \ {0}
  PROVE  /\ n \div b \in Nat
         /\ (n \div b) * b <= n
         /\ n < (n \div b) * b + b
<1>1. n \div b \in Int /\ n \div b >= 0
  OBVIOUS
<1>2. b * (n \div b) <= n /\ n < b * (n \div b) + b
  OBVIOUS
<1> DEFINE q == n \div b
<1> HIDE DEF q
<1>3. q \in Int => b * q = q * b
  OBVIOUS
<1> QED
  BY <1>1, <1>2, <1>3 DEF q

(* Rounding up, in the inequalities the proofs use. *)
LEMMA CeilingFacts ==
  ASSUME NEW a \in Nat, NEW b \in Nat \ {0}
  PROVE  /\ Ceiling(a, b) \in Nat
         /\ a <= Ceiling(a, b) * b
         /\ (Ceiling(a, b) - 1) * b < a
         /\ a > 0 => Ceiling(a, b) >= 1
<1> DEFINE q == (a + b - 1) \div b
<1>1. a + b - 1 \in Nat
  OBVIOUS
<1>2. /\ q \in Nat
      /\ a + b - 1 < q * b + b
      /\ q * b <= a + b - 1
  BY <1>1, Quotient
<1>3. Ceiling(a, b) = q
  BY DEF Ceiling
<1> HIDE DEF q
<1>4. q * b \in Int
  BY <1>2
<1>5. a <= q * b
  BY <1>2, <1>4
<1>6. ASSUME a > 0, q = 0 PROVE FALSE
  BY <1>5, <1>6
<1>7. (q - 1) * b = q * b - b
  BY <1>2
<1>8. (q - 1) * b < a
  BY <1>2, <1>4, <1>7
<1> QED
  BY <1>2, <1>3, <1>5, <1>6, <1>8

(* A number below a * b has its quotient below a. *)
LEMMA QuotientBound ==
  ASSUME NEW x \in Nat, NEW a \in Nat, NEW b \in Nat \ {0}, x < a * b
  PROVE  x \div b < a
<1> DEFINE q == x \div b
<1>1. q \in Nat /\ q * b <= x
  BY Quotient
<1> HIDE DEF q
<1>2. ASSUME q >= a PROVE FALSE
  <2>1. a * b <= q * b
    BY <1>1, <1>2, Monotone
  <2>2. a * b \in Int /\ q * b \in Int
    BY <1>1
  <2> QED
    BY <1>1, <2>1, <2>2
<1> QED
  BY <1>1, <1>2 DEF q

(* The last page and the last sequence hold the last row, and not more. *)
LEMMA MaxPageFacts ==
  ASSUME NEW n \in Nat
  PROVE  /\ MaxPage(n) \in Nat /\ MaxPageSequence(n) \in Nat
         /\ n <= MaxPage(n) * RowSize
         /\ MaxPage(n) <= MaxPageSequence(n) * PageSize
         /\ (MaxPage(n) - 1) * RowSize < n
         /\ PageStart(MaxPageSequence(n)) < MaxPage(n)
         /\ n > 0 => MaxPage(n) >= 1 /\ MaxPageSequence(n) >= 1
<1>1. RowSize \in Nat \ {0} /\ PageSize \in Nat \ {0}
  BY ConstantsAssumption
<1>2. /\ MaxPage(n) \in Nat
      /\ n <= MaxPage(n) * RowSize
      /\ (MaxPage(n) - 1) * RowSize < n
      /\ n > 0 => MaxPage(n) >= 1
  BY <1>1, CeilingFacts DEF MaxPage
<1>3. /\ MaxPageSequence(n) \in Nat
      /\ MaxPage(n) <= MaxPageSequence(n) * PageSize
      /\ (MaxPageSequence(n) - 1) * PageSize < MaxPage(n)
      /\ MaxPage(n) > 0 => MaxPageSequence(n) >= 1
  BY <1>1, <1>2, CeilingFacts DEF MaxPageSequence
<1> QED
  BY <1>2, <1>3 DEF PageStart

(* Every row of a list of any length is on a button of a group NEXT can    *)
(* reach: the row's page is r \div RowSize, its group follows from that.   *)
LEMMA RowReachable ==
  ASSUME NEW n \in Nat, NEW r \in 0..(n - 1)
  PROVE  \E s \in 1..MaxPageSequence(n) :
           \E p \in PageStart(s)..(PageEnd(s, n) - 1) : r \in RowsOf(p, n)
<1> DEFINE p == r \div RowSize
           q == p \div PageSize
<1>1. RowSize \in Nat \ {0} /\ PageSize \in Nat \ {0} /\ r \in Nat /\ r < n
  BY ConstantsAssumption
<1>2. /\ MaxPage(n) \in Nat /\ MaxPageSequence(n) \in Nat
      /\ n <= MaxPage(n) * RowSize
      /\ MaxPage(n) <= MaxPageSequence(n) * PageSize
  BY MaxPageFacts
<1>3. /\ p \in Nat
      /\ p * RowSize <= r
      /\ r < p * RowSize + RowSize
  BY <1>1, Quotient
<1>4. p < MaxPage(n)
  <2>1. MaxPage(n) * RowSize \in Int
    BY <1>1, <1>2
  <2>2. r < MaxPage(n) * RowSize
    BY <1>1, <1>2, <2>1
  <2> QED
    BY <1>1, <1>2, <2>2, QuotientBound
<1> HIDE DEF p
<1>5. /\ q \in Nat
      /\ q * PageSize <= p
      /\ p < q * PageSize + PageSize
  BY <1>1, <1>3, Quotient
<1>6. q < MaxPageSequence(n)
  <2>1. MaxPageSequence(n) * PageSize \in Int
    BY <1>1, <1>2
  <2>2. p < MaxPageSequence(n) * PageSize
    BY <1>2, <1>3, <1>4, <2>1
  <2> QED
    BY <1>1, <1>2, <1>3, <2>2, QuotientBound
<1> HIDE DEF q
<1>7. PageStart(q + 1) = q * PageSize
  BY <1>1, <1>5 DEF PageStart
<1>8. PageSize * (q + 1) = q * PageSize + PageSize
  BY <1>1, <1>5
<1>9. p \in PageStart(q + 1)..(PageEnd(q + 1, n) - 1)
  <2>1. q * PageSize \in Int
    BY <1>1, <1>5
  <2> QED
    BY <1>1, <1>2, <1>3, <1>4, <1>5, <1>7, <1>8, <2>1 DEF PageEnd, LeastOf
<1>10. (p + 1) * RowSize = p * RowSize + RowSize
  BY <1>1, <1>3
<1>11. r \in RowsOf(p, n)
  BY <1>1, <1>3, <1>10 DEF RowsOf
<1>12. q + 1 \in 1..MaxPageSequence(n)
  BY <1>2, <1>5, <1>6
<1> QED
  BY <1>9, <1>11, <1>12

-------------------------------------------------------------------------------
(* A page that is built is a page. *)
LEMMA BuildType ==
  ASSUME NEW n \in Nat, NEW s \in Nat, NEW a \in [jump : Jump \cup {"none"}, page : Int]
  PROVE  Build(a, s, n) \in Grid
<1>1. RowSize \in Nat \ {0} /\ PageSize \in Nat \ {0}
  BY ConstantsAssumption
<1>2. MaxPage(n) \in Nat /\ MaxPageSequence(n) \in Nat
  BY MaxPageFacts
<1>3. a.jump \in Jump \cup {"none"} /\ a.page \in Int
  OBVIOUS
<1> DEFINE seq == NavigateSequence(a, s, n)
           index == NavigateIndex(a, seq, n)
<1>4. seq \in Nat
  BY <1>2, <1>3 DEF NavigateSequence, LeastOf, MostOf, Jump
<1> HIDE DEF seq
<1>5. PageStart(seq) \in Int
  BY <1>1, <1>4 DEF PageStart
<1>6. index \in Int
  BY <1>2, <1>3, <1>5 DEF NavigateIndex, Jump
<1> HIDE DEF index
<1>7. /\ index * RowSize \in Int
      /\ RowSize * (index + 1) \in Int
      /\ index * RowSize + RowSize \in Int
  BY <1>1, <1>6
<1>8. LeastOf(index * RowSize + RowSize, n) \in Int
  BY <1>7 DEF LeastOf
<1>9. Build(a, s, n) =
        [rows |-> n, seq |-> seq, index |-> index, start |-> index * RowSize,
         end |-> RowSize * (index + 1),
         offset |-> LeastOf(index * RowSize + RowSize, n)]
  BY DEF Build, seq, index
<1> QED
  BY <1>4, <1>6, <1>7, <1>8, <1>9 DEF Grid

(* The page of a button of a grid, and that it has one. *)
LEMMA ButtonType ==
  ASSUME NEW g \in Grid, NEW a \in Buttons(g)
  PROVE  /\ a \in [jump : Jump \cup {"none"}, page : Int]
         /\ g.seq >= 1 => a.page >= 0
<1>1. RowSize \in Nat \ {0} /\ PageSize \in Nat \ {0}
  BY ConstantsAssumption
<1>2. g.seq \in Nat
  BY DEF Grid
<1>3. PageStart(g.seq) \in Int
  BY <1>1, <1>2 DEF PageStart
<1>4. g.seq >= 1 => PageStart(g.seq) >= 0
  <2>1. g.seq >= 1 => 0 * PageSize <= (g.seq - 1) * PageSize
    BY <1>1, <1>2, Monotone
  <2> QED
    BY <1>1, <1>2, <2>1 DEF PageStart
<1>5. CASE \E p \in Numbers(g) : a = Number(p)
  <2>1. PICK p \in Numbers(g) : a = Number(p)
    BY <1>5
  <2>2. p \in Int /\ PageStart(g.seq) <= p
    BY <1>3 DEF Numbers
  <2> QED
    BY <1>3, <1>4, <2>1, <2>2 DEF Number
<1>6. CASE \E j \in Jump : a = Press(j)
  BY <1>6 DEF Press, Jump
<1> QED
  BY <1>5, <1>6 DEF Buttons, Jump

(* The first request asks for page zero. *)
LEMMA NumberZero == Number(0) \in [jump : Jump \cup {"none"}, page : Int]
  BY DEF Number

(* TypeOK is inductive. *)
THEOREM GridTypes == Spec => []TypeOK
<1>1. Init => TypeOK
  <2> SUFFICES ASSUME Init PROVE TypeOK
    OBVIOUS
  <2>1. [t \in Tab |-> Closed] \in [Tab -> Grid \cup {Closed}]
    OBVIOUS
  <2>2. emptied \in BOOLEAN
    BY DEF Init
  <2> QED
    BY <2>1, <2>2 DEF Init, TypeOK
<1>2. TypeOK /\ [Next]_vars => TypeOK'
  <2> SUFFICES ASSUME TypeOK, [Next]_vars PROVE TypeOK'
    OBVIOUS
  <2>0. count \in Nat /\ session \in Nat
    BY ConstantsAssumption DEF TypeOK
  <2>1. ASSUME NEW t \in Tab, SetGridView(t) PROVE TypeOK'
    <3>1. Build(Number(0), session, count) \in Grid
      BY <2>0, BuildType, NumberZero
    <3> QED
      BY <2>1, <3>1 DEF TypeOK, SetGridView
  <2>2. ASSUME NEW t \in Tab, Click(t) PROVE TypeOK'
    <3>1. PICK a \in IF showing[t] = Closed THEN {} ELSE Buttons(showing[t]) :
                 NewPagination(t, a)
      BY <2>2 DEF Click
    <3>2. showing[t] \in Grid /\ a \in Buttons(showing[t])
      BY <3>1 DEF TypeOK
    <3>3. Build(a, session, count) \in Grid
      BY <2>0, <3>2, BuildType, ButtonType
    <3> QED
      BY <3>1, <3>3 DEF TypeOK, NewPagination
  <2>3. ASSUME NEW t \in Tab, Respond(t) PROVE TypeOK'
    <3>1. request[t] \in Grid
      BY <2>3 DEF TypeOK, Respond
    <3>2. request[t].seq \in Nat
      BY <3>1 DEF Grid
    <3> QED
      BY <2>3, <3>1, <3>2 DEF TypeOK, Respond
  <2>4. CASE RowsChange
    BY <2>4 DEF TypeOK, RowsChange
  <2>5. CASE UNCHANGED vars
    BY <2>5 DEF TypeOK, vars
  <2> QED
    BY <2>1, <2>2, <2>3, <2>4, <2>5 DEF Next
<1> QED
  BY <1>1, <1>2, PTL DEF Spec

-------------------------------------------------------------------------------
(* Whatever the length of the list, each of its rows has a button.         *)
THEOREM RowsSafe == Spec => []EveryRowReachable
<1>1. TypeOK => EveryRowReachable
  <2> SUFFICES ASSUME TypeOK PROVE EveryRowReachable
    OBVIOUS
  <2>1. count \in Nat
    BY ConstantsAssumption DEF TypeOK
  <2> QED
    BY <2>1, RowReachable DEF EveryRowReachable
<1> QED
  BY <1>1, GridTypes, PTL

-------------------------------------------------------------------------------
(* A grid built over rows is on a group and a page from 0 on.              *)
Positive(g) == g # Closed => g.seq >= 1 /\ g.index >= 0

NonNegativeInv ==
  /\ TypeOK
  /\ ~emptied => \A t \in Tab :
       /\ Positive(showing[t]) /\ Positive(request[t])
       /\ showing[t] # Closed => session >= 1

(* A list with rows gives a page of a positive sequence. *)
LEMMA BuildPositive ==
  ASSUME NEW n \in Nat, n > 0, NEW s \in Nat,
         NEW a \in [jump : Jump \cup {"none"}, page : Int],
         a.page >= 0, a.page = 0 \/ s >= 1
  PROVE  Positive(Build(a, s, n))
<1>1. RowSize \in Nat \ {0} /\ PageSize \in Nat \ {0}
  BY ConstantsAssumption
<1>2. MaxPage(n) \in Nat /\ MaxPageSequence(n) \in Nat
      /\ MaxPage(n) >= 1 /\ MaxPageSequence(n) >= 1
  BY MaxPageFacts
<1>3. a.jump \in Jump \cup {"none"} /\ a.page \in Int
  OBVIOUS
<1> DEFINE seq == NavigateSequence(a, s, n)
           index == NavigateIndex(a, seq, n)
<1>4. seq \in Nat /\ seq >= 1
  BY <1>2, <1>3 DEF NavigateSequence, LeastOf, MostOf, Jump
<1> HIDE DEF seq
<1>5. PageStart(seq) \in Int /\ PageStart(seq) >= 0
  <2>1. 0 * PageSize <= (seq - 1) * PageSize
    BY <1>1, <1>4, Monotone
  <2> QED
    BY <1>1, <1>4, <2>1 DEF PageStart
<1>6. index >= 0
  BY <1>2, <1>3, <1>5 DEF NavigateIndex, Jump
<1>7. Build(a, s, n).seq = seq /\ Build(a, s, n).index = index
  BY DEF Build, seq
<1> QED
  BY <1>4, <1>6, <1>7 DEF Positive

(* Pages that are shown or asked for are positive until the list is        *)
(* emptied.                                                                *)
LEMMA NonNegativeInvariant == Spec => []NonNegativeInv
<1>1. Init => NonNegativeInv
  <2> SUFFICES ASSUME Init PROVE NonNegativeInv
    OBVIOUS
  <2>1. [t \in Tab |-> Closed] \in [Tab -> Grid \cup {Closed}]
    OBVIOUS
  <2>2. emptied \in BOOLEAN
    BY DEF Init
  <2>3. TypeOK
    BY <2>1, <2>2 DEF Init, TypeOK
  <2> QED
    BY <2>3 DEF Init, NonNegativeInv, Positive
<1>2. TypeOK /\ TypeOK' /\ NonNegativeInv /\ [Next]_vars => NonNegativeInv'
  <2> SUFFICES ASSUME TypeOK, TypeOK', NonNegativeInv, [Next]_vars, ~emptied'
               PROVE  \A t \in Tab :
                        /\ Positive(showing'[t]) /\ Positive(request'[t])
                        /\ showing'[t] # Closed => session' >= 1
    BY DEF NonNegativeInv, Positive
  <2>0. count \in Nat /\ session \in Nat
    BY ConstantsAssumption DEF TypeOK
  <2>1. ASSUME NEW t \in Tab, SetGridView(t)
        PROVE  \A u \in Tab :
                 /\ Positive(showing'[u]) /\ Positive(request'[u])
                 /\ showing'[u] # Closed => session' >= 1
    <3>1. count # 0 /\ ~emptied
      BY <2>1 DEF SetGridView
    <3>2. Number(0).page = 0
      BY DEF Number
    <3>3. Positive(Build(Number(0), session, count))
      BY <2>0, <3>1, <3>2, NumberZero, BuildPositive
    <3>4. showing' = showing /\ session' = session
          /\ \A u \in Tab : request'[u] = IF u = t THEN Build(Number(0), session, count)
                                                ELSE request[u]
      BY <2>1 DEF SetGridView, TypeOK
    <3> QED
      BY <3>1, <3>3, <3>4 DEF NonNegativeInv
  <2>2. ASSUME NEW t \in Tab, Click(t)
        PROVE  \A u \in Tab :
                 /\ Positive(showing'[u]) /\ Positive(request'[u])
                 /\ showing'[u] # Closed => session' >= 1
    <3>1. PICK a \in IF showing[t] = Closed THEN {} ELSE Buttons(showing[t]) :
                 NewPagination(t, a)
      BY <2>2 DEF Click
    <3>2. count # 0 /\ ~emptied
      BY <3>1 DEF NewPagination
    <3>3. showing[t] # Closed /\ showing[t] \in Grid /\ a \in Buttons(showing[t])
      BY <3>1 DEF TypeOK
    <3>4. showing[t].seq >= 1 /\ session >= 1
      BY <3>2, <3>3 DEF NonNegativeInv, Positive
    <3>5. a \in [jump : Jump \cup {"none"}, page : Int] /\ a.page >= 0
      BY <3>3, <3>4, ButtonType
    <3>6. Positive(Build(a, session, count))
      BY <2>0, <3>2, <3>4, <3>5, BuildPositive
    <3>7. showing' = showing /\ session' = session
          /\ \A u \in Tab : request'[u] = IF u = t THEN Build(a, session, count)
                                                ELSE request[u]
      BY <3>1 DEF NewPagination, TypeOK
    <3> QED
      BY <3>2, <3>6, <3>7 DEF NonNegativeInv
  <2>3. ASSUME NEW t \in Tab, Respond(t)
        PROVE  \A u \in Tab :
                 /\ Positive(showing'[u]) /\ Positive(request'[u])
                 /\ showing'[u] # Closed => session' >= 1
    <3>1. ~emptied /\ request[t] # Closed /\ session' = request[t].seq
      BY <2>3 DEF Respond
    <3>2. \A u \in Tab :
            /\ showing'[u] = IF u = t THEN request[t] ELSE showing[u]
            /\ request'[u] = IF u = t THEN Closed ELSE request[u]
      BY <2>3 DEF Respond, TypeOK
    <3>3. Positive(request[t]) /\ session' >= 1
      BY <3>1 DEF NonNegativeInv, Positive
    <3>4. Positive(Closed)
      BY DEF Positive
    <3> QED
      BY <3>1, <3>2, <3>3, <3>4 DEF NonNegativeInv
  <2>4. CASE RowsChange
    BY <2>4 DEF NonNegativeInv, RowsChange
  <2>5. CASE UNCHANGED vars
    BY <2>5 DEF NonNegativeInv, vars
  <2> QED
    BY <2>1, <2>2, <2>3, <2>4, <2>5 DEF Next
<1> QED
  BY <1>1, <1>2, GridTypes, PTL DEF Spec

(* No interleaving of tabs and changes of the list leads a grid to a       *)
(* negative page, unless a request met an empty list.                      *)
THEOREM PagesSafe == Spec => []NeverNegative
<1>1. NonNegativeInv => NeverNegative
  BY DEF NonNegativeInv, NeverNegative, Positive, Grids
<1> QED
  BY <1>1, NonNegativeInvariant, PTL

(* A grid either has a button to the groups it does not show, or shows all *)
(* of them: a group of its own that has vanished leaves the user a way back. *)
THEOREM StrandedSafe == Spec => []NeverStranded
<1>1. NonNegativeInv => NeverStranded
  <2> SUFFICES ASSUME NonNegativeInv, ~emptied, NEW g \in Grids \ {Closed},
                      ~ShowsBack(g), ~ShowsNext(g)
               PROVE  Numbers(g) = 0..(MaxPage(g.rows) - 1)
    BY DEF NeverStranded
  <2>1. g \in Grid /\ g.seq >= 1
    BY DEF NonNegativeInv, TypeOK, Positive, Grids
  <2>2. g.seq \in Nat /\ g.seq = 1
    BY <2>1 DEF Grid, ShowsBack
  <2>3. PageStart(g.seq) = 0
    BY <2>2, ConstantsAssumption DEF PageStart
  <2> QED
    BY <2>3 DEF Numbers, ShowsNext
<1> QED
  BY <1>1, NonNegativeInvariant, PTL

-------------------------------------------------------------------------------
(* A grid over its rows that a user can orient himself by.                 *)
Oriented(g) ==
  /\ g.seq \in 1..MaxPageSequence(g.rows)
  /\ g.index \in Numbers(g)
  /\ g.start = g.index * RowSize
  /\ g.offset = LeastOf(g.index * RowSize + RowSize, g.rows)

(* A button of an oriented grid leads to an oriented grid when the list    *)
(* and the session are still those of the grid.                            *)
LEMMA BuildOriented ==
  ASSUME NEW n \in Nat, n > 0, NEW s \in Nat,
         NEW a \in [jump : Jump \cup {"none"}, page : Int],
         \/ a = Number(0)
         \/ /\ s \in 1..MaxPageSequence(n)
            /\ \/ a.jump \in Jump
               \/ /\ a.jump = "none"
                  /\ a.page \in PageStart(s)..(PageEnd(s, n) - 1)
  PROVE  Oriented(Build(a, s, n))
<1>1. RowSize \in Nat \ {0} /\ PageSize \in Nat \ {0}
  BY ConstantsAssumption
<1>2. /\ MaxPage(n) \in Nat /\ MaxPage(n) >= 1
      /\ MaxPageSequence(n) \in Nat /\ MaxPageSequence(n) >= 1
      /\ MaxPage(n) <= MaxPageSequence(n) * PageSize
      /\ PageStart(MaxPageSequence(n)) < MaxPage(n)
  BY MaxPageFacts
<1>3. a.jump \in Jump \cup {"none"} /\ a.page \in Int
  OBVIOUS
<1> DEFINE seq == NavigateSequence(a, s, n)
           index == NavigateIndex(a, seq, n)
<1>4. seq \in 1..MaxPageSequence(n)
  <2>1. CASE s \in 1..MaxPageSequence(n) /\ a.jump \in Jump
    BY <1>2, <2>1 DEF NavigateSequence, LeastOf, MostOf, Jump
  <2>2. CASE a = Number(0)
    BY <1>2, <2>2 DEF NavigateSequence, Number
  <2>3. CASE s \in 1..MaxPageSequence(n) /\ a.jump = "none"
    BY <1>2, <1>3, <2>3 DEF NavigateSequence
  <2> QED
    BY <2>1, <2>2, <2>3
<1>5. a.jump = "none" => \/ a.page = 0 /\ seq = 1
                         \/ a.page \in PageStart(seq)..(PageEnd(seq, n) - 1)
  BY <1>3 DEF NavigateSequence, Number, Jump
<1>6. a.jump = "LAST" => seq = MaxPageSequence(n)
  BY DEF NavigateSequence
<1> HIDE DEF seq
<1>7. PageStart(seq) \in Int /\ PageStart(seq) < MaxPage(n)
  <2>1. (seq - 1) * PageSize <= (MaxPageSequence(n) - 1) * PageSize
    BY <1>1, <1>2, <1>4, Monotone
  <2>2. (seq - 1) * PageSize \in Int /\ (MaxPageSequence(n) - 1) * PageSize \in Int
    BY <1>1, <1>2, <1>4
  <2> QED
    BY <1>2, <2>1, <2>2 DEF PageStart
<1>8. PageSize * seq = PageStart(seq) + PageSize
  BY <1>1, <1>4 DEF PageStart
<1>9. PageStart(seq) \in PageStart(seq)..(PageEnd(seq, n) - 1)
  BY <1>1, <1>2, <1>7, <1>8 DEF PageEnd, LeastOf
<1>10. seq = 1 => PageStart(seq) = 0
  BY <1>1 DEF PageStart
<1>11. seq = MaxPageSequence(n) => MaxPage(n) - 1 \in PageStart(seq)..(PageEnd(seq, n) - 1)
  <2>1. PageSize * MaxPageSequence(n) = MaxPageSequence(n) * PageSize
    BY <1>1, <1>2
  <2>2. MaxPageSequence(n) * PageSize \in Int
    BY <1>1, <1>2
  <2> QED
    BY <1>1, <1>2, <1>7, <2>1, <2>2 DEF PageEnd, LeastOf
<1>12. index \in PageStart(seq)..(PageEnd(seq, n) - 1)
  BY <1>3, <1>5, <1>6, <1>9, <1>10, <1>11 DEF NavigateIndex, Jump
<1> DEFINE g == Build(a, s, n)
<1>13. /\ g.rows = n /\ g.seq = seq /\ g.index = index
       /\ g.start = index * RowSize
       /\ g.offset = LeastOf(index * RowSize + RowSize, n)
  BY DEF Build, seq
<1> QED
  BY <1>4, <1>12, <1>13 DEF Oriented, Numbers

(* A button of a page leads to a page that is there. *)
LEMMA ButtonOriented ==
  ASSUME NEW g \in Grid, NEW n \in Nat, g.rows = n, Oriented(g), NEW a \in Buttons(g)
  PROVE  /\ g.seq \in 1..MaxPageSequence(n)
         /\ \/ a.jump \in Jump
            \/ /\ a.jump = "none"
               /\ a.page \in PageStart(g.seq)..(PageEnd(g.seq, n) - 1)
<1>1. CASE \E p \in Numbers(g) : a = Number(p)
  BY <1>1 DEF Number, Numbers, Oriented
<1>2. CASE \E j \in Jump : a = Press(j)
  BY <1>2 DEF Press, Oriented
<1> QED
  BY <1>1, <1>2 DEF Buttons, Jump

(* What an oriented grid shows: rows, and NEXT only before another group.  *)
LEMMA OrientedShows ==
  ASSUME NEW g \in Grid, Oriented(g)
  PROVE  /\ g.start < g.rows /\ g.start < g.offset
         /\ ShowsNext(g) => g.seq < MaxPageSequence(g.rows)
<1>1. RowSize \in Nat \ {0} /\ PageSize \in Nat \ {0} /\ g.rows \in Nat
      /\ g.seq \in Nat /\ g.index \in Int
  BY ConstantsAssumption DEF Grid
<1>2. /\ MaxPage(g.rows) \in Nat /\ MaxPageSequence(g.rows) \in Nat
      /\ MaxPage(g.rows) <= MaxPageSequence(g.rows) * PageSize
      /\ (MaxPage(g.rows) - 1) * RowSize < g.rows
  BY <1>1, MaxPageFacts
<1>3. PageEnd(g.seq, g.rows) \in Int /\ PageEnd(g.seq, g.rows) <= MaxPage(g.rows)
  BY <1>1, <1>2 DEF PageEnd, LeastOf
<1>4. g.index <= MaxPage(g.rows) - 1
  <2>1. PageStart(g.seq) \in Int
    BY <1>1 DEF PageStart
  <2> QED
    BY <1>1, <1>2, <1>3, <2>1 DEF Oriented, Numbers
<1>5. g.index * RowSize <= (MaxPage(g.rows) - 1) * RowSize
  BY <1>1, <1>2, <1>4, Monotone
<1>6. g.index * RowSize \in Int /\ (MaxPage(g.rows) - 1) * RowSize \in Int
  BY <1>1, <1>2
<1>7. g.start < g.rows
  BY <1>1, <1>2, <1>5, <1>6 DEF Oriented
<1>8. g.start < g.offset
  BY <1>1, <1>6, <1>7 DEF Oriented, LeastOf
<1>9. ASSUME g.seq >= MaxPageSequence(g.rows)
      PROVE  PageEnd(g.seq, g.rows) = MaxPage(g.rows)
  <2>1. MaxPageSequence(g.rows) * PageSize <= g.seq * PageSize
    BY <1>1, <1>2, <1>9, Monotone
  <2>2. PageSize * g.seq = g.seq * PageSize
    BY <1>1
  <2>3. g.seq * PageSize \in Int /\ MaxPageSequence(g.rows) * PageSize \in Int
    BY <1>1, <1>2
  <2> QED
    BY <1>1, <1>2, <2>1, <2>2, <2>3 DEF PageEnd, LeastOf
<1> QED
  BY <1>1, <1>2, <1>7, <1>8, <1>9 DEF ShowsNext

(* While a tab is alone on rows that do not change, no other request is    *)
(* under way, and its own request, or else its page and the session, agree *)
(* with the rows.                                                          *)
AloneInv ==
  alone \in Tab /\ count > 0 =>
    /\ \A u \in Tab : u # alone => request[u] = Closed
    /\ request[alone] # Closed =>
         request[alone].rows = count /\ Oriented(request[alone])
    /\ request[alone] = Closed =>
         /\ showing[alone] # Closed /\ showing[alone].rows = count
         /\ Oriented(showing[alone]) /\ session = showing[alone].seq

(* The page of a tab that is used alone agrees with the list and the       *)
(* session.                                                                *)
LEMMA AloneInvariant == Spec => []AloneInv
<1>1. Init => AloneInv
  BY ConstantsAssumption DEF Init, AloneInv
<1>2. TypeOK /\ AloneInv /\ [Next]_vars => AloneInv'
  <2> SUFFICES ASSUME TypeOK, AloneInv, [Next]_vars PROVE AloneInv'
    OBVIOUS
  <2>0. count \in Nat /\ session \in Nat /\ NoTab \notin Tab /\ Closed \notin Grid
    BY ConstantsAssumption, ClosedAssumption DEF TypeOK
  <2>1. ASSUME NEW t \in Tab, SetGridView(t) PROVE AloneInv'
    <3> DEFINE g == Build(Number(0), session, count)
    <3>1. g \in Grid /\ g.rows = count
      BY <2>0, BuildType, NumberZero DEF Build
    <3>2. count > 0 => Oriented(g)
      BY <2>0, BuildOriented, NumberZero
    <3> HIDE DEF g
    <3>3. /\ count' = count /\ session' = session /\ showing' = showing
          /\ \A u \in Tab : request'[u] = IF u = t THEN g ELSE request[u]
          /\ alone' = IF \A u \in Tab : request[u] = Closed THEN t ELSE NoTab
      BY <2>1 DEF SetGridView, TypeOK, g
    <3> QED
      BY <2>0, <3>1, <3>2, <3>3 DEF AloneInv
  <2>2. ASSUME NEW t \in Tab, Click(t) PROVE AloneInv'
    <3>1. PICK a \in IF showing[t] = Closed THEN {} ELSE Buttons(showing[t]) :
                 NewPagination(t, a)
      BY <2>2 DEF Click
    <3>2. showing[t] \in Grid /\ a \in Buttons(showing[t]) /\ request[t] = Closed
      BY <3>1 DEF TypeOK, NewPagination
    <3> DEFINE g == Build(a, session, count)
    <3>3. a \in [jump : Jump \cup {"none"}, page : Int]
      BY <3>2, ButtonType
    <3>4. g \in Grid /\ g.rows = count
      BY <2>0, <3>3, BuildType DEF Build
    <3>5. ASSUME alone = t, count > 0 PROVE Oriented(g)
      <4>1. Oriented(showing[t]) /\ showing[t].rows = count
            /\ session = showing[t].seq
        BY <3>2, <3>5 DEF AloneInv
      <4> QED
        BY <2>0, <3>2, <3>3, <3>5, <4>1, ButtonOriented, BuildOriented
    <3> HIDE DEF g
    <3>6. /\ count' = count /\ session' = session /\ showing' = showing
          /\ \A u \in Tab : request'[u] = IF u = t THEN g ELSE request[u]
          /\ alone' = IF alone = t THEN t ELSE NoTab
      BY <3>1 DEF NewPagination, TypeOK, g
    <3> QED
      BY <2>0, <3>4, <3>5, <3>6 DEF AloneInv
  <2>3. ASSUME NEW t \in Tab, Respond(t) PROVE AloneInv'
    <3>1. request[t] # Closed /\ session' = request[t].seq /\ count' = count
          /\ alone' = alone
      BY <2>3 DEF Respond
    <3>2. \A u \in Tab :
            /\ showing'[u] = IF u = t THEN request[t] ELSE showing[u]
            /\ request'[u] = IF u = t THEN Closed ELSE request[u]
      BY <2>3 DEF Respond, TypeOK
    <3> QED
      BY <3>1, <3>2 DEF AloneInv
  <2>4. CASE RowsChange
    BY <2>0, <2>4 DEF AloneInv, RowsChange
  <2>5. CASE UNCHANGED vars
    BY <2>5 DEF AloneInv, vars
  <2> QED
    BY <2>1, <2>2, <2>3, <2>4, <2>5 DEF Next
<1> QED
  BY <1>1, <1>2, GridTypes, PTL DEF Spec

(* A tab alone with its session always shows its page among its buttons,   *)
(* with rows on it, and NEXT only where another group follows.             *)
THEOREM AloneSafe == Spec => []AloneConsistent
<1>1. TypeOK /\ AloneInv => AloneConsistent
  <2> SUFFICES ASSUME TypeOK, AloneInv, NEW t \in Tab, alone = t,
                      request[t] = Closed, count > 0
               PROVE  /\ showing[t].index \in Numbers(showing[t])
                      /\ showing[t].start < showing[t].rows
                      /\ showing[t].start < showing[t].offset
                      /\ ShowsNext(showing[t]) =>
                           showing[t].seq < MaxPageSequence(showing[t].rows)
    BY DEF AloneConsistent
  <2>1. Oriented(showing[t]) /\ showing[t] \in Grid
    BY DEF AloneInv, TypeOK
  <2> QED
    BY <2>1, OrientedShows DEF Oriented
<1> QED
  BY <1>1, AloneInvariant, GridTypes, PTL
===============================================================================
