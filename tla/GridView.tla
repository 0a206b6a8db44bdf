-------------------------------- MODULE GridView --------------------------------
(***************************************************************************)
(* BNet.ASP.MVC.Pagination, class GridView.  A controller makes a new      *)
(* GridView for every request; what survives between requests is the ASP   *)
(* session, shared by all tabs of a browser, and the pages the tabs show.  *)
(* A request works on its own copy of the session, which the middleware    *)
(* stores when the request ends.  The rows come from a data source that    *)
(* changes between requests.                                               *)
(*                                                                         *)
(* Page numbers count from 0 as in the code, sequences (groups of PageSize *)
(* page buttons) from 1.                                                   *)
(***************************************************************************)
EXTENDS Integers

CONSTANTS Tab,        \* browser tabs that share the session
          NoTab,      \* "no tab"
          Closed,     \* a tab that shows no grid
          RowSize,    \* rows per page
          PageSize,   \* page buttons shown at once
          Counts      \* numbers of rows the data source may have

ASSUME ConstantsAssumption ==
  /\ NoTab \notin Tab
  /\ RowSize \in Nat \ {0} /\ PageSize \in Nat \ {0}
  /\ Counts \subseteq Nat

VARIABLES
  count,      \* rows in the data source
  session,    \* {tableId}_page_sequence, 0 before it is first set
  showing,    \* the grid each tab shows
  request,    \* the grid a tab's request has built and not answered with
  emptied,    \* some request has seen an empty data source
  alone       \* the only tab with requests since its first render, on rows
              \* that have not changed since
vars == <<count, session, showing, request, emptied, alone>>

LeastOf(a, b) == IF a <= b THEN a ELSE b
MostOf(a, b) == IF a >= b THEN a ELSE b

(* Changed for comparison: integer division. *)
Floor(a, b) == a \div b

(* (int)Math.Ceiling((double)a / b) *)
Ceiling(a, b) == (a + b - 1) \div b

MaxPage(n) == Ceiling(n, RowSize)
MaxPageSequence(n) == Ceiling(MaxPage(n), PageSize)

PageStart(s) == (s - 1) * PageSize
PageEnd(s, n) == LeastOf(PageSize * s, MaxPage(n))

(* What a page button asks for: a page number or a jump. *)
Jump == {"NEXT", "BACK", "FIRST", "LAST"}

(* Changed for comparison: BACK can leave the first group. *)
NavigateBelow(a, s, n) ==
  CASE a.jump = "NEXT"  -> LeastOf(s + 1, MaxPageSequence(n))
    [] a.jump = "BACK"  -> s - 2
    [] a.jump = "FIRST" -> 1
    [] a.jump = "LAST"  -> MaxPageSequence(n)
    [] OTHER            -> IF a.page = 0 THEN 1 ELSE s

(* ApplySequenceNavigation, and the reset for page "0". *)
NavigateSequence(a, s, n) ==
  CASE a.jump = "NEXT"  -> LeastOf(s + 1, MaxPageSequence(n))
    [] a.jump = "BACK"  -> MostOf(s - 1, 1)
    [] a.jump = "FIRST" -> 1
    [] a.jump = "LAST"  -> MaxPageSequence(n)
    [] OTHER            -> IF a.page = 0 THEN 1 ELSE s

(* Changed for comparison: pages counted from 1. *)
NavigateIndexFromOne(a, s, n) ==
  CASE a.jump \in {"NEXT", "BACK", "FIRST"} -> PageStart(s)
    [] a.jump = "LAST"                      -> MaxPage(n)
    [] OTHER                                -> a.page

(* ApplyIndexNavigation *)
NavigateIndex(a, s, n) ==
  CASE a.jump \in {"NEXT", "BACK", "FIRST"} -> PageStart(s)
    [] a.jump = "LAST"                      -> MaxPage(n) - 1
    [] OTHER                                -> a.page

(* BuildPagination over n rows with sequence s in the session. *)
Build(a, s, n) ==
  LET seq == NavigateSequence(a, s, n)
      index == NavigateIndex(a, seq, n)
  IN [rows   |-> n,
      seq    |-> seq,
      index  |-> index,
      start  |-> index * RowSize,
      end    |-> RowSize * (index + 1),
      offset |-> LeastOf(index * RowSize + RowSize, n)]

(* The buttons BuildPaginationHtml gives a grid (with FirstAndLast). *)
Number(p) == [jump |-> "none", page |-> p]
Press(j) == [jump |-> j, page |-> 0]
\* Changed for comparison: no way back from a group past the end.
ShowsBackWithin(g) == g.seq > 1 /\ PageStart(g.seq) < MaxPage(g.rows)
ShowsBack(g) == g.seq > 1
ShowsNext(g) == PageEnd(g.seq, g.rows) # MaxPage(g.rows)
Numbers(g) == PageStart(g.seq) .. (PageEnd(g.seq, g.rows) - 1)
Buttons(g) ==
  {Number(p) : p \in Numbers(g)}
    \cup (IF ShowsBack(g) THEN {Press("BACK"), Press("FIRST")} ELSE {})
    \cup (IF ShowsNext(g) THEN {Press("NEXT"), Press("LAST")} ELSE {})

Grid == [rows : Nat, seq : Nat, index : Int, start : Int, end : Int,
         offset : Int]

ASSUME ClosedAssumption == Closed \notin Grid

TypeOK ==
  /\ count \in Counts
  /\ session \in Nat
  /\ showing \in [Tab -> Grid \cup {Closed}]
  /\ request \in [Tab -> Grid \cup {Closed}]
  /\ emptied \in BOOLEAN
  /\ alone \in Tab \cup {NoTab}

Init ==
  /\ count \in Counts
  /\ session = 0
  /\ showing = [t \in Tab |-> Closed]
  /\ request = [t \in Tab |-> Closed]
  /\ emptied = FALSE
  /\ alone = NoTab

(* SetGridView: page "0", whatever the session holds. *)
SetGridView(t) ==
  /\ request[t] = Closed
  /\ request' = [request EXCEPT ![t] = Build(Number(0), session, count)]
  /\ emptied' = (emptied \/ count = 0)
  /\ alone' = IF \A u \in Tab : request[u] = Closed THEN t ELSE NoTab
  /\ UNCHANGED <<count, session, showing>>

(* NewPagination, after a click on a button of the grid the tab shows. *)
NewPagination(t, a) ==
  /\ showing[t] # Closed /\ request[t] = Closed
  /\ a \in Buttons(showing[t])
  /\ request' = [request EXCEPT ![t] = Build(a, session, count)]
  /\ emptied' = (emptied \/ count = 0)
  /\ alone' = IF alone = t THEN t ELSE NoTab
  /\ UNCHANGED <<count, session, showing>>

(* The request ends: its session is stored, its answer replaces the table. *)
Respond(t) ==
  /\ request[t] # Closed
  /\ session' = request[t].seq
  /\ showing' = [showing EXCEPT ![t] = request[t]]
  /\ request' = [request EXCEPT ![t] = Closed]
  /\ UNCHANGED <<count, emptied, alone>>

RowsChange ==
  /\ count' \in Counts
  /\ alone' = NoTab
  /\ UNCHANGED <<session, showing, request, emptied>>

Click(t) == \E a \in IF showing[t] = Closed THEN {} ELSE Buttons(showing[t]) :
              NewPagination(t, a)

Next ==
  \/ \E t \in Tab : SetGridView(t) \/ Click(t) \/ Respond(t)
  \/ RowsChange

Spec == Init /\ [][Next]_vars

-------------------------------------------------------------------------------
RowsOf(p, n) == {r \in 0..(n - 1) : p * RowSize <= r /\ r < (p + 1) * RowSize}

(* Rounding up loses no row: every row of the list is on one of the page   *)
(* buttons of one of the groups NEXT can reach.                            *)
EveryRowReachable ==
  \A r \in 0..(count - 1) :
    \E s \in 1..MaxPageSequence(count) :
      \E p \in PageStart(s)..(PageEnd(s, count) - 1) : r \in RowsOf(p, count)

Grids == {showing[t] : t \in Tab} \cup {request[t] : t \in Tab}

(* However tabs share the session and rows come and go, a grid has a page  *)
(* that exists or existed (never a negative one), unless a request met an  *)
(* empty list.                                                             *)
NeverNegative ==
  ~emptied => \A g \in Grids \ {Closed} : g.seq >= 1 /\ g.index >= 0

(* Nor is a user ever stranded: a grid that does not show all page buttons *)
(* has a way to the others, even when its group no longer exists.          *)
NeverStranded ==
  ~emptied => \A g \in Grids \ {Closed} :
    \/ ShowsBack(g) \/ ShowsNext(g)
    \/ Numbers(g) = 0..(MaxPage(g.rows) - 1)

(* A tab alone with its session, on rows that do not change, always shows  *)
(* the page it is on among its buttons, with rows on it, and NEXT only     *)
(* where another group follows.                                            *)
AloneConsistent ==
  \A t \in Tab : alone = t /\ request[t] = Closed /\ count > 0 =>
    LET g == showing[t]
    IN /\ g.index \in Numbers(g)
       /\ g.start < g.rows /\ g.start < g.offset
       /\ ShowsNext(g) => g.seq < MaxPageSequence(g.rows)
===============================================================================
