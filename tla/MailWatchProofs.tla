---------------------------- MODULE MailWatchProofs ----------------------------
(* What follows from MailWatch, whatever implements it.                    *)
EXTENDS MailWatch, TLAPS

Types ==
  /\ arrived \in Nat /\ present \subseteq 1..arrived
  /\ watching \in BOOLEAN /\ known \in Nat
  /\ announced \in Seq(Nat)
  /\ \A a \in Announced : a <= arrived

(* What is there, later than the last known message and not later than one *)
(* announced, has had its turn.                                            *)
Covered ==
  \A m \in present : \A a \in Announced : known < m /\ m <= a => m \in Announced \cup lost

WInv == Types /\ InOrder /\ Covered /\ (~watching => announced = <<>>)

-----------------------------------------------------------------------------
(* One announcement more. *)
LEMMA OneMore ==
  ASSUME NEW s \in Seq(Nat), NEW m \in Nat
  PROVE  /\ Append(s, m) \in Seq(Nat)
         /\ DOMAIN s = 1..Len(s) /\ DOMAIN Append(s, m) = 1..Len(s) + 1
         /\ \A i \in 1..Len(s) : Append(s, m)[i] = s[i]
         /\ Append(s, m)[Len(s) + 1] = m
  OBVIOUS

(* The announced messages afterwards. *)
LEMMA AnnouncedThen ==
  ASSUME NEW m \in Nat, announced \in Seq(Nat), announced' = Append(announced, m)
  PROVE  Announced' = Announced \cup {m}
<1> DEFINE s == announced
           t == announced'
           n == Len(announced)
<1>1. /\ n \in Nat /\ DOMAIN s = 1..n /\ DOMAIN t = 1..n + 1
      /\ \A i \in 1..n : t[i] = s[i]
      /\ t[n + 1] = m
  BY OneMore
<1> HIDE DEF s, t, n
<1>2. \A i \in 1..n + 1 : i \in 1..n \/ i = n + 1
  BY <1>1
<1>3. \A i \in 1..n : i \in 1..n + 1
  BY <1>1
<1>4. n + 1 \in 1..n + 1
  BY <1>1
<1>5. {t[i] : i \in 1..n + 1} = {s[i] : i \in 1..n} \cup {m}
  BY <1>1, <1>2, <1>3, <1>4
<1> QED
  BY <1>1, <1>5 DEF s, t, Announced

(* The invariant is preserved by each action. *)
LEMMA WStep == WInv /\ [Next]_vars => WInv'
<1> SUFFICES ASSUME WInv, [Next]_vars PROVE WInv'
  OBVIOUS
<1> USE DEF WInv
<1>1. /\ arrived \in Nat /\ present \subseteq 1..arrived /\ known \in Nat
      /\ announced \in Seq(Nat) /\ \A a \in Announced : a <= arrived /\ a \in Nat
  BY DEF Types, Announced
<1>2. CASE Arrive
  <2>1. Announced' = Announced
    BY <1>2 DEF Arrive, Announced
  <2>2. Types'
    BY <1>1, <1>2, <2>1 DEF Arrive, Types
  <2>3. Covered'
    <3>1. \A m \in present' : m \in present \/ m = arrived + 1
      BY <1>2 DEF Arrive
    <3>2. \A a \in Announced : ~(arrived + 1 <= a)
      BY <1>1
    <3>3. known' = known /\ lost' = lost
      BY <1>2 DEF Arrive
    <3> QED
      BY <2>1, <3>1, <3>2, <3>3 DEF Covered
  <2> QED
    BY <1>2, <2>2, <2>3 DEF Arrive, InOrder
<1>3. ASSUME NEW S \in SUBSET present, Remove(S) PROVE WInv'
  <2>1. Announced' = Announced
    BY <1>3 DEF Remove, Announced
  <2> QED
    BY <1>1, <1>3, <2>1 DEF Remove, Types, InOrder, Covered
<1>4. ASSUME NEW k \in 0..arrived, Begin(k) PROVE WInv'
  <2>1. Announced' = {} /\ announced' = <<>> /\ known' = k /\ watching' = TRUE
    BY <1>4 DEF Begin, Announced
  <2>2. Types' /\ Covered'
    BY <1>1, <1>4, <2>1 DEF Begin, Types, Covered
  <2> QED
    BY <2>1, <2>2 DEF InOrder
<1>5. ASSUME NEW m \in 1..arrived, Announce(m) PROVE WInv'
  <2>1. /\ m \in Nat /\ watching /\ known < m /\ \A a \in Announced : a < m
        /\ \A w \in present : known < w /\ w < m => w \in Announced \cup lost
        /\ announced' = Append(announced, m)
        /\ UNCHANGED <<arrived, present, watching, known, lost>>
    BY <1>1, <1>5 DEF Announce, MayTake
  <2>2. Announced' = Announced \cup {m}
    BY <1>1, <2>1, AnnouncedThen
  <2>3. announced' \in Seq(Nat)
    BY <1>1, <2>1, OneMore
  <2>4. Types'
    BY <1>1, <1>5, <2>1, <2>2, <2>3 DEF Types
  <2>5. Covered'
    <3>1. SUFFICES ASSUME NEW w \in present, NEW a \in Announced \cup {m}, known < w, w <= a
                   PROVE  w \in Announced \cup {m} \cup lost
      BY <2>1, <2>2 DEF Covered
    <3>2. CASE a \in Announced
      BY <3>1, <3>2 DEF Covered
    <3>3. CASE a = m
      <4>1. w \in Nat
        BY <1>1
      <4>2. w = m \/ w < m
        BY <2>1, <3>1, <3>3, <4>1
      <4> QED
        BY <2>1, <3>1, <4>2
    <3> QED
      BY <3>1, <3>2, <3>3
  <2>6. InOrder'
    <3> DEFINE s == announced
               t == announced'
               n == Len(announced)
    <3>1. /\ n \in Nat /\ DOMAIN s = 1..n /\ DOMAIN t = 1..n + 1
          /\ \A i \in 1..n : t[i] = s[i]
          /\ t[n + 1] = m
      BY <1>1, <2>1, OneMore
    <3>2. \A i, j \in 1..n : i < j => s[i] < s[j]
      BY <3>1 DEF InOrder
    <3>3. \A i \in 1..n : s[i] < m
      BY <2>1, <3>1 DEF Announced
    <3> HIDE DEF s, t, n
    <3>4. \A i, j \in 1..n + 1 : i < j => i \in 1..n /\ (j \in 1..n \/ j = n + 1)
      BY <3>1
    <3>5. \A i, j \in 1..n + 1 : i < j => t[i] < t[j]
      BY <3>1, <3>2, <3>3, <3>4
    <3> QED
      BY <3>1, <3>5 DEF InOrder, t
  <2> QED
    BY <2>1, <2>4, <2>5, <2>6
<1>6. ASSUME NEW m \in 1..arrived, Lose(m) PROVE WInv'
  <2>1. Announced' = Announced
    BY <1>6 DEF Lose, Announced
  <2> QED
    BY <1>1, <1>6, <2>1 DEF Lose, Types, InOrder, Covered
<1>7. CASE Settle
  <2>1. /\ announced # <<>> /\ known < announced[Len(announced)]
        /\ known' = announced[Len(announced)]
        /\ UNCHANGED <<arrived, present, watching, announced, lost>>
    BY <1>7 DEF Settle
  <2>2. Announced' = Announced /\ known' \in Nat
    BY <1>1, <2>1 DEF Announced
  <2>3. ASSUME NEW m \in present, known' < m PROVE known < m
    BY <1>1, <2>1, <2>2, <2>3
  <2>4. Covered'
    BY <2>1, <2>2, <2>3 DEF Covered
  <2> QED
    BY <1>1, <2>1, <2>2, <2>4 DEF Types, InOrder
<1>8. CASE UNCHANGED vars
  <2>1. Announced' = Announced
    BY <1>8 DEF vars, Announced
  <2> QED
    BY <1>8, <2>1 DEF vars, Types, InOrder, Covered
<1> QED
  BY <1>2, <1>3, <1>4, <1>5, <1>6, <1>7, <1>8 DEF Next

(* The invariant holds in every state. *)
LEMMA WAlways == Spec => []WInv
<1>1. ASSUME Init PROVE WInv
  <2>1. /\ arrived = 0 /\ present = {} /\ watching = FALSE /\ known = 0
        /\ announced = <<>> /\ lost = {}
    BY <1>1 DEF Init
  <2>2. Announced = {} /\ DOMAIN announced = {}
    BY <2>1 DEF Announced
  <2>3. announced \in Seq(Nat)
    BY <2>1
  <2>4. Types
    BY <2>1, <2>2, <2>3 DEF Types
  <2>5. InOrder /\ Covered
    BY <2>1, <2>2 DEF InOrder, Covered
  <2> QED
    BY <2>1, <2>4, <2>5 DEF WInv
<1> QED
  BY <1>1, WStep, PTL DEF Spec

(* A listener of MailWatch announces in the order of arrival. *)
THEOREM AnnouncedInOrder == Spec => []InOrder
<1>1. WInv => InOrder
  BY DEF WInv
<1> QED
  BY <1>1, WAlways, PTL

(* Its memory passes over no message that is there. *)
THEOREM NothingPassedOver == Spec => NonePassedOver
<1>1. WInv /\ [Next]_vars =>
        [watching => \A m \in present : known < m /\ m <= known' =>
                        m \in Announced \cup lost]_vars
  <2>1. SUFFICES ASSUME WInv, [Next]_vars, watching, NEW m \in present, known < m, m <= known'
                 PROVE  m \in Announced \cup lost
    OBVIOUS
  <2>2. known \in Nat /\ m \in Nat
    BY <2>1 DEF WInv, Types
  <2>3. known' # known
    BY <2>1, <2>2
  <2>4. Settle
    BY <2>1, <2>3 DEF Next, Arrive, Remove, Begin, Announce, Lose, vars
  <2>5. announced \in Seq(Nat) /\ announced # <<>>
    BY <2>1, <2>4 DEF Settle, WInv, Types
  <2>6. announced[Len(announced)] \in Announced
    BY <2>5 DEF Announced
  <2>7. known' = announced[Len(announced)]
    BY <2>4 DEF Settle
  <2> QED
    BY <2>1, <2>6, <2>7 DEF WInv, Covered
<1> QED
  BY <1>1, WAlways, PTL DEF Spec, NonePassedOver
=============================================================================
