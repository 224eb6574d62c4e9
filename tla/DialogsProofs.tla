---- MODULE DialogsProofs ----
(***************************************************************************)
(* Proofs about Modal and Dialogs: what the calls of modal() make of one   *)
(* dialog, and what the page may rely on, for any number of syncs, of      *)
(* unanswered calls and of backdrops.                                      *)
(***************************************************************************)
EXTENDS Dialogs, FiniteSetTheorems, WellFoundedInduction, TLAPS

(* One dialog *)

\* The backdrops a dialog knows are in the page, and a dialog that is shown has one
\* there that no handler is about to remove.
Linked(m) ==
    /\ m.backdrop # NoBackdrop => m.backdrop \in m.inPage
    /\ \A p \in m.pending : p.backdrop \in m.inPage
    /\ m.shown => /\ m.inPage # {}
                  /\ \A p \in m.pending : p.then = "remove" => p.backdrop # m.backdrop

\* Between two events: nothing is left to tell.
DialogOK(m) == m \in Dialog /\ Linked(m)

\* A dialog that was not shown again while it was being hidden has one backdrop, and
\* goes from closed to opening, open, leaving, fading and closed again.
IsClosed(m) ==
    /\ ~m.shown /\ ~m.visible /\ m.backdrop = NoBackdrop
    /\ m.inPage = {} /\ m.pending = {} /\ m.hiding = 0

HasOneBackdrop(m) ==
    /\ m.backdrop # NoBackdrop /\ m.inPage = {m.backdrop}
    /\ \/ /\ m.hiding = IF m.shown THEN 0 ELSE 1
          /\ m.pending = IF m.visible THEN {} ELSE {[backdrop |-> m.backdrop, then |-> "appear"]}
       \/ /\ m.hiding = 0 /\ ~m.shown /\ ~m.visible
          /\ m.pending = {[backdrop |-> m.backdrop, then |-> "remove"]}

ShownOnce(m) == IsClosed(m) \/ HasOneBackdrop(m)

LEMMA SmallestExists ==
    ASSUME NEW S, S \subseteq Nat, S # {}
    PROVE  \E i \in S : \A j \in S : i <= j
<1>1. IsWellFoundedOn(OpToRel(<, Nat), Nat)
  BY NatLessThanWellFounded
<1>2. PICK i \in S : \A j \in S : ~(<<j, i>> \in OpToRel(<, Nat))
  BY <1>1, WFMin
<1>3. \A j \in S : ~(j < i)
  BY <1>2 DEF OpToRel
<1>4. \A j \in S : i <= j
  BY <1>3
<1> QED
  BY <1>4

LEMMA BackdropsAreFinite ==
    ASSUME NEW S, S \subseteq Backdrops
    PROVE  IsFiniteSet(S)
<1>1. IsFiniteSet(1..MaxBackdrops)
  BY ModalAssumption, FS_Interval
<1> QED
  BY <1>1, FS_Subset DEF Backdrops

\* A new backdrop is one that is not in the page.
LEMMA AddBackdropFacts ==
    ASSUME NEW m \in Dialog, m.inPage # Backdrops, NEW then \in {"appear", "remove", "tell"}
    PROVE  \E b \in Backdrops \ m.inPage :
              AddBackdrop(m, then) =
                [m EXCEPT !.backdrop = b, !.inPage = @ \cup {b},
                          !.pending = @ \cup {[backdrop |-> b, then |-> then]}]
<1> DEFINE free == Backdrops \ m.inPage
<1>1. free \subseteq Nat /\ free # {}
  <2>1. m.inPage \subseteq Backdrops
    BY DEF Dialog
  <2>2. Backdrops \subseteq Nat
    BY ModalAssumption DEF Backdrops
  <2> QED
    BY <2>1, <2>2
<1>2. PICK i \in free : \A j \in free : i <= j
  BY <1>1, SmallestExists
<1>3. (CHOOSE k \in free : \A j \in free : k <= j) \in free
  BY <1>2
<1> QED
  BY <1>3 DEF AddBackdrop

LEMMA AddBackdropOK ==
    ASSUME NEW m \in Dialog, m.inPage # Backdrops, NEW then \in {"appear", "tell"},
           m.backdrop # NoBackdrop => m.backdrop \in m.inPage,
           \A p \in m.pending : p.backdrop \in m.inPage,
           NEW n, n = AddBackdrop(m, then)
    PROVE  /\ DialogOK(n) /\ n.inPage # {} /\ m.inPage \subseteq n.inPage
           /\ n.shown = m.shown /\ n.visible = m.visible /\ n.hiding = m.hiding
           /\ n.told = m.told
           /\ Cardinality(Backdrops \ n.inPage) = Cardinality(Backdrops \ m.inPage) - 1
<1>1. PICK b \in Backdrops \ m.inPage :
        n = [m EXCEPT !.backdrop = b, !.inPage = @ \cup {b},
                      !.pending = @ \cup {[backdrop |-> b, then |-> then]}]
  BY AddBackdropFacts
<1>2. /\ n.backdrop = b /\ n.inPage = m.inPage \cup {b}
      /\ n.pending = m.pending \cup {[backdrop |-> b, then |-> then]}
      /\ n.shown = m.shown /\ n.visible = m.visible /\ n.hiding = m.hiding
      /\ n.told = m.told
  BY <1>1 DEF Dialog
<1>3. n \in Dialog
  <2>1. n.inPage \in SUBSET Backdrops /\ n.pending \in SUBSET Pending
    BY <1>2 DEF Dialog, Pending
  <2> QED
    BY <1>1, <1>2, <2>1 DEF Dialog
<1>4. Linked(n)
  BY <1>2 DEF Linked
<1>5. Cardinality(Backdrops \ n.inPage) = Cardinality(Backdrops \ m.inPage) - 1
  <2>1. IsFiniteSet(Backdrops \ m.inPage)
    BY BackdropsAreFinite
  <2>2. Backdrops \ n.inPage = (Backdrops \ m.inPage) \ {b}
    BY <1>2
  <2> QED
    BY <1>1, <2>1, <2>2, FS_RemoveElement
<1> QED
  BY <1>2, <1>3, <1>4, <1>5 DEF DialogOK

\* modal()
LEMMA ShowFacts ==
    ASSUME NEW m, DialogOK(m), m.inPage # Backdrops, NEW n, n = Show(m)
    PROVE  /\ DialogOK(n) /\ n.shown /\ n.inPage # {}
           /\ n.visible = m.visible /\ n.told = m.told
<1>1. CASE m.shown
  BY <1>1 DEF DialogOK, Linked, Show
<1>2. CASE ~m.shown
  <2> DEFINE s == [m EXCEPT !.shown = TRUE]
  <2>1. /\ s \in Dialog /\ s.inPage = m.inPage /\ s.shown /\ s.backdrop = m.backdrop
        /\ s.pending = m.pending /\ s.visible = m.visible /\ s.told = m.told
    BY DEF DialogOK, Dialog
  <2>2. n = AddBackdrop(s, "appear")
    BY <1>2 DEF Show
  <2> HIDE DEF s
  <2>3. \A p \in s.pending : p.backdrop \in s.inPage
    BY <2>1 DEF DialogOK, Linked
  <2>4. s.backdrop # NoBackdrop => s.backdrop \in s.inPage
    BY <2>1 DEF DialogOK, Linked
  <2> QED
    BY <2>1, <2>2, <2>3, <2>4, AddBackdropOK
<1> QED
  BY <1>1, <1>2

\* modal('hide')
LEMMA HideFacts ==
    ASSUME NEW m, DialogOK(m), m.hiding < MaxHiding, NEW n, n = Hide(m)
    PROVE  /\ DialogOK(n) /\ ~n.shown
           /\ n.inPage = m.inPage /\ n.visible = m.visible /\ n.told = m.told
<1>1. CASE m.shown
  <2>1. n = [m EXCEPT !.shown = FALSE, !.hiding = @ + 1] /\ m \in Dialog
    BY <1>1 DEF DialogOK, Hide
  <2>2. /\ ~n.shown /\ n.visible = m.visible /\ n.told = m.told /\ n.inPage = m.inPage
        /\ n.backdrop = m.backdrop /\ n.pending = m.pending /\ n.hiding = m.hiding + 1
    BY <2>1 DEF Dialog
  <2>3. n.hiding \in 0..MaxHiding
    BY <2>1, <2>2, ModalAssumption DEF Dialog
  <2>4. n \in Dialog
    BY <2>1, <2>2, <2>3 DEF Dialog
  <2> QED
    BY <2>2, <2>4 DEF DialogOK, Linked
<1>2. CASE ~m.shown
  BY <1>2 DEF DialogOK, Hide
<1> QED
  BY <1>1, <1>2

\* hideModal: unless it tells, the page is still covered.
LEMMA HideModalFacts ==
    ASSUME NEW m, DialogOK(m), m.inPage # Backdrops, NEW n, n = HideModal(m)
    PROVE  /\ DialogOK(n) /\ n.shown = m.shown /\ ~n.visible /\ n.hiding = m.hiding
           /\ m.inPage \subseteq n.inPage
           /\ Cardinality(Backdrops \ n.inPage) >= Cardinality(Backdrops \ m.inPage) - 1
<1> DEFINE s == [m EXCEPT !.visible = FALSE]
<1>1. /\ DialogOK(s) /\ ~s.visible /\ s.inPage = m.inPage /\ s.shown = m.shown
      /\ s.backdrop = m.backdrop /\ s.pending = m.pending /\ s.hiding = m.hiding
  BY DEF DialogOK, Dialog, Linked
<1>2. Cardinality(Backdrops \ m.inPage) \in Nat
  BY BackdropsAreFinite, FS_CardinalityType
<1>3. CASE m.shown
  <2>1. n = AddBackdrop(s, "tell")
    BY <1>3 DEF HideModal
  <2> HIDE DEF s
  <2>2. /\ s \in Dialog /\ \A p \in s.pending : p.backdrop \in s.inPage
        /\ s.backdrop # NoBackdrop => s.backdrop \in s.inPage
    BY <1>1 DEF DialogOK, Linked
  <2>3. /\ DialogOK(n) /\ s.inPage \subseteq n.inPage
        /\ n.shown = s.shown /\ n.visible = s.visible /\ n.hiding = s.hiding
        /\ Cardinality(Backdrops \ n.inPage) = Cardinality(Backdrops \ s.inPage) - 1
    BY <1>1, <2>1, <2>2, AddBackdropOK
  <2> QED
    BY <1>1, <1>2, <2>3
<1>4. CASE ~m.shown /\ m.backdrop # NoBackdrop
  <2>1. n = [s EXCEPT !.pending = @ \cup {[backdrop |-> m.backdrop, then |-> "remove"]}]
    BY <1>4 DEF HideModal
  <2>2. m.backdrop \in Backdrops
    BY <1>4 DEF DialogOK, Dialog
  <2> HIDE DEF s
  <2>3. /\ n \in Dialog /\ n.shown = s.shown /\ n.visible = s.visible /\ n.hiding = s.hiding
        /\ n.inPage = s.inPage /\ n.backdrop = s.backdrop
        /\ n.pending = s.pending \cup {[backdrop |-> m.backdrop, then |-> "remove"]}
    BY <1>1, <2>1, <2>2 DEF DialogOK, Dialog, Pending
  <2>4. Linked(n)
    BY <1>1, <1>4, <2>3 DEF DialogOK, Linked
  <2> QED
    BY <1>1, <1>2, <2>3, <2>4 DEF DialogOK
<1>5. CASE ~m.shown /\ m.backdrop = NoBackdrop
  <2>1. n = [s EXCEPT !.told = TRUE]
    BY <1>5 DEF HideModal
  <2> HIDE DEF s
  <2>2. /\ n \in Dialog /\ n.shown = s.shown /\ n.visible = s.visible /\ n.hiding = s.hiding
        /\ n.inPage = s.inPage /\ n.backdrop = s.backdrop /\ n.pending = s.pending
    BY <1>1, <2>1 DEF DialogOK, Dialog
  <2> QED
    BY <1>1, <1>2, <2>2 DEF DialogOK, Linked
<1> QED
  BY <1>3, <1>4, <1>5

\* The transition of the dialog ends, after one hide or two.
LEMMA FadeEndsFacts ==
    ASSUME NEW m, DialogOK(m), FadeCanEnd(m), NEW n, n = FadeEnds(m)
    PROVE  /\ DialogOK(n) /\ n.shown = m.shown /\ n.hiding = 0
           /\ m.inPage \subseteq n.inPage
<1> DEFINE s == [m EXCEPT !.hiding = 0]
<1>1. DialogOK(s) /\ s.inPage = m.inPage /\ s.shown = m.shown /\ s.hiding = 0
  <2>1. m \in Dialog
    BY DEF DialogOK
  <2>2. /\ s.inPage = m.inPage /\ s.shown = m.shown /\ s.backdrop = m.backdrop
        /\ s.pending = m.pending /\ s.hiding = 0 /\ s \in Dialog
    BY <2>1, ModalAssumption DEF Dialog
  <2> QED
    BY <2>2 DEF DialogOK, Linked
<1>2. m.hiding \in Nat /\ m.hiding # 0
  BY ModalAssumption DEF FadeCanEnd, DialogOK, Dialog
<1>3. /\ Cardinality(Backdrops \ s.inPage) \in Nat
      /\ Cardinality(Backdrops \ s.inPage) >= m.hiding
  BY <1>1, BackdropsAreFinite, FS_CardinalityType DEF FadeCanEnd
<1>4. n = IF m.hiding = 1 THEN HideModal(s) ELSE HideModal(HideModal(s))
  BY DEF FadeEnds
<1> HIDE DEF s
<1>5. ASSUME NEW k, DialogOK(k), Cardinality(Backdrops \ k.inPage) >= 1
      PROVE  k.inPage # Backdrops
  <2>1. Backdrops \ Backdrops = {} /\ Cardinality({}) = 0
    BY FS_EmptySet
  <2> QED
    BY <1>5, <2>1
<1>6. s.inPage # Backdrops
  BY <1>1, <1>2, <1>3, <1>5
<1> DEFINE k == HideModal(s)
<1>7. /\ DialogOK(k) /\ k.shown = s.shown /\ k.hiding = 0 /\ s.inPage \subseteq k.inPage
      /\ Cardinality(Backdrops \ k.inPage) >= Cardinality(Backdrops \ s.inPage) - 1
  BY <1>1, <1>6, HideModalFacts
<1>8. CASE m.hiding = 1
  BY <1>1, <1>4, <1>7, <1>8
<1>9. CASE m.hiding # 1
  <2>1. n = HideModal(k)
    BY <1>4, <1>9
  <2>2. Cardinality(Backdrops \ k.inPage) \in Nat
    BY BackdropsAreFinite, FS_CardinalityType
  <2> HIDE DEF k
  <2>3. k.inPage # Backdrops
    BY <1>2, <1>3, <1>5, <1>7, <1>9, <2>2
  <2>4. DialogOK(n) /\ n.shown = k.shown /\ n.hiding = 0 /\ k.inPage \subseteq n.inPage
    BY <1>7, <2>1, <2>3, HideModalFacts
  <2> QED
    BY <1>1, <1>7, <2>4
<1> QED
  BY <1>8, <1>9

\* The transition of a backdrop ends: no backdrop leaves the page untold.
LEMMA BackdropEndsFacts ==
    ASSUME NEW m, DialogOK(m), NEW p \in m.pending, NEW n, n = BackdropEnds(m, p.backdrop)
    PROVE  /\ DialogOK(n) /\ n.shown = m.shown /\ n.hiding = m.hiding
           /\ ~n.told => n.inPage = m.inPage
<1> DEFINE b == p.backdrop
           then == {q.then : q \in {r \in m.pending : r.backdrop = b}}
           left == {q \in m.pending : q.backdrop # b}
           appears == m.visible \/ "appear" \in then
           tells == then \cap {"remove", "tell"} # {}
           done == [m EXCEPT !.pending = left, !.visible = appears, !.told = tells]
<1>1. n = IF "remove" \in then THEN RemoveBackdrop(done) ELSE done
  BY DEF BackdropEnds
<1>2. m \in Dialog /\ b \in m.inPage
  BY DEF DialogOK, Linked
<1>3. left \in SUBSET Pending /\ appears \in BOOLEAN /\ tells \in BOOLEAN
  BY <1>2 DEF Dialog
<1>4. "remove" \in then => tells
  OBVIOUS
<1>5. m.shown /\ "remove" \in then => b # m.backdrop
  BY DEF DialogOK, Linked
<1>6. left \subseteq m.pending
  OBVIOUS
<1> HIDE DEF b, then, left, appears, tells
<1>7. /\ done.pending = left /\ done.visible = appears /\ done.told = tells
      /\ done.shown = m.shown /\ done.inPage = m.inPage /\ done.backdrop = m.backdrop
      /\ done.hiding = m.hiding /\ done \in Dialog
  BY <1>2, <1>3 DEF Dialog
<1> HIDE DEF done
<1>8. CASE "remove" \notin then
  BY <1>1, <1>6, <1>7, <1>8 DEF DialogOK, Linked
<1>9. CASE "remove" \in then
  <2> DEFINE rest == {q \in done.pending : q.backdrop # done.backdrop}
             stay == done.inPage \ {done.backdrop}
  <2>1. n = [done EXCEPT !.backdrop = NoBackdrop, !.inPage = stay, !.pending = rest]
    BY <1>1, <1>9 DEF RemoveBackdrop
  <2>2. stay \in SUBSET Backdrops /\ rest \in SUBSET Pending
    BY <1>7 DEF Dialog
  <2>3. \A q \in rest : q \in m.pending /\ q.backdrop # m.backdrop /\ q.backdrop \in stay
    BY <1>6, <1>7 DEF DialogOK, Linked
  <2>4. m.shown => b \in stay
    BY <1>2, <1>5, <1>7, <1>9
  <2> HIDE DEF rest, stay
  <2>5. /\ n.backdrop = NoBackdrop /\ n.inPage = stay /\ n.pending = rest
        /\ n.shown = m.shown /\ n.hiding = m.hiding /\ n.told = tells /\ n \in Dialog
    BY <1>7, <2>1, <2>2 DEF Dialog
  <2>6. \A q \in rest : q.backdrop # NoBackdrop
    <3>1. NoBackdrop \notin Backdrops
      BY ModalAssumption DEF Backdrops, NoBackdrop
    <3> QED
      BY <2>2, <3>1 DEF Pending
  <2>7. Linked(n)
    BY <2>3, <2>4, <2>5, <2>6 DEF Linked
  <2> QED
    BY <1>4, <1>9, <2>5, <2>7 DEF DialogOK
<1> QED
  BY <1>8, <1>9

\* The step has told what it had to.
Quiet(m) == [m EXCEPT !.told = FALSE]

LEMMA QuietFacts ==
    ASSUME NEW m, DialogOK(m), NEW n, n = Quiet(m)
    PROVE  /\ DialogOK(n) /\ ~n.told /\ n.shown = m.shown /\ n.visible = m.visible
           /\ n.inPage = m.inPage /\ n.backdrop = m.backdrop
           /\ n.pending = m.pending /\ n.hiding = m.hiding
<1>1. m \in Dialog
  BY DEF DialogOK
<1>2. /\ ~n.told /\ n.shown = m.shown /\ n.visible = m.visible
      /\ n.inPage = m.inPage /\ n.backdrop = m.backdrop
      /\ n.pending = m.pending /\ n.hiding = m.hiding /\ n \in Dialog
  BY <1>1 DEF Quiet, Dialog
<1> QED
  BY <1>2 DEF DialogOK, Linked

----
(* A dialog that is not shown again while it vanishes *)

LEMMA OnlyTheFieldsCount ==
    ASSUME NEW m, NEW n, ShownOnce(m),
           n.shown = m.shown, n.visible = m.visible, n.backdrop = m.backdrop,
           n.inPage = m.inPage, n.pending = m.pending, n.hiding = m.hiding
    PROVE  ShownOnce(n)
BY DEF ShownOnce, IsClosed, HasOneBackdrop

LEMMA SettledAndHidden ==
    ASSUME NEW m, ShownOnce(m), Settled(m), ~m.shown
    PROVE  IsClosed(m)
<1>1. m.pending = {} /\ m.hiding = 0
  BY DEF Settled
<1>2. ~HasOneBackdrop(m)
  <2>1. m.hiding # IF m.shown THEN 0 ELSE 1
    BY <1>1
  <2>2. \A p : m.pending # {p}
    BY <1>1
  <2> QED
    BY <2>1, <2>2, Zenon DEF HasOneBackdrop
<1> QED
  BY <1>2 DEF ShownOnce

LEMMA ShowOnce ==
    ASSUME NEW m, DialogOK(m), m.inPage # Backdrops, ShownOnce(m), m.shown \/ Settled(m)
    PROVE  ShownOnce(Show(m))
<1>1. CASE m.shown
  BY <1>1 DEF Show
<1>2. CASE ~m.shown
  <2> DEFINE s == [m EXCEPT !.shown = TRUE]
             n == Show(m)
  <2>1. IsClosed(m) /\ m \in Dialog
    BY <1>2, SettledAndHidden DEF DialogOK
  <2>2. /\ s.shown /\ ~s.visible /\ s.inPage = {} /\ s.pending = {} /\ s.hiding = 0
        /\ s \in Dialog
    BY <2>1 DEF IsClosed, Dialog
  <2>3. n = AddBackdrop(s, "appear")
    BY <1>2 DEF Show
  <2>4. s.inPage # Backdrops
    BY <2>1, <2>2 DEF IsClosed
  <2> HIDE DEF s, n
  <2>5. PICK b \in Backdrops :
          n = [s EXCEPT !.backdrop = b, !.inPage = @ \cup {b},
                        !.pending = @ \cup {[backdrop |-> b, then |-> "appear"]}]
    BY <2>2, <2>3, <2>4, AddBackdropFacts
  <2>6. /\ n.shown /\ ~n.visible /\ n.backdrop = b /\ n.inPage = {b} /\ n.hiding = 0
        /\ n.pending = {[backdrop |-> b, then |-> "appear"]}
    BY <2>2, <2>5 DEF Dialog
  <2>7. b # NoBackdrop
    BY ModalAssumption DEF Backdrops, NoBackdrop
  <2> QED
    BY <2>6, <2>7 DEF ShownOnce, HasOneBackdrop, n
<1> QED
  BY <1>1, <1>2

LEMMA HideOnce ==
    ASSUME NEW m, DialogOK(m), ShownOnce(m)
    PROVE  ShownOnce(Hide(m))
<1>1. CASE ~m.shown
  BY <1>1 DEF Hide
<1>2. CASE m.shown
  <2> DEFINE n == Hide(m)
  <2>1. m \in Dialog /\ HasOneBackdrop(m)
    BY <1>2 DEF DialogOK, ShownOnce, IsClosed
  <2>2. n = [m EXCEPT !.shown = FALSE, !.hiding = @ + 1]
    BY <1>2 DEF Hide
  <2> HIDE DEF n
  <2>3. /\ ~n.shown /\ n.visible = m.visible /\ n.backdrop = m.backdrop
        /\ n.inPage = m.inPage /\ n.pending = m.pending /\ n.hiding = m.hiding + 1
    BY <2>1, <2>2 DEF Dialog
  <2>4. m.hiding = 0
    BY <1>2, <2>1 DEF HasOneBackdrop
  <2>5. HasOneBackdrop(n)
    BY <1>2, <2>1, <2>3, <2>4 DEF HasOneBackdrop
  <2> QED
    BY <2>5 DEF ShownOnce, n
<1> QED
  BY <1>1, <1>2

\* The dialog is hidden once its element has gone, and then only its backdrop is left.
LEMMA FadeEndsOnce ==
    ASSUME NEW m, DialogOK(m), ShownOnce(m), FadeCanEnd(m), NEW n, n = FadeEnds(m)
    PROVE  ShownOnce(n) /\ n.told = m.told /\ ~n.shown
<1> DEFINE s == [m EXCEPT !.hiding = 0]
           k == [s EXCEPT !.visible = FALSE]
<1>1. m \in Dialog /\ m.hiding # 0
  BY ModalAssumption DEF DialogOK, FadeCanEnd, Dialog
<1>2. /\ HasOneBackdrop(m) /\ ~m.shown /\ m.hiding = 1
  BY <1>1 DEF ShownOnce, IsClosed, HasOneBackdrop
<1>3. ~Waits(m, "appear")
  BY <1>2 DEF FadeCanEnd
<1>4. m.pending = {}
  BY <1>2, <1>3 DEF HasOneBackdrop, Waits
<1>5. /\ ~s.shown /\ s.backdrop = m.backdrop /\ s.inPage = m.inPage /\ s.pending = {}
      /\ s.hiding = 0 /\ s.told = m.told /\ s \in Dialog
  BY <1>1, <1>2, <1>4, ModalAssumption DEF Dialog
<1>6. n = HideModal(s)
  BY <1>2 DEF FadeEnds
<1> HIDE DEF s
<1>7. /\ ~k.shown /\ ~k.visible /\ k.backdrop = m.backdrop /\ k.inPage = m.inPage
      /\ k.pending = {} /\ k.hiding = 0 /\ k.told = m.told /\ k \in Dialog
  BY <1>5 DEF Dialog
<1>8. n = [k EXCEPT !.pending = @ \cup {[backdrop |-> m.backdrop, then |-> "remove"]}]
  BY <1>2, <1>5, <1>6 DEF HideModal, HasOneBackdrop
<1> HIDE DEF k
<1>9. /\ ~n.shown /\ ~n.visible /\ n.backdrop = m.backdrop /\ n.inPage = m.inPage
      /\ n.pending = {[backdrop |-> m.backdrop, then |-> "remove"]}
      /\ n.hiding = 0 /\ n.told = m.told
  BY <1>7, <1>8 DEF Dialog
<1> QED
  BY <1>2, <1>9 DEF ShownOnce, HasOneBackdrop

\* A backdrop has come, and the dialog appears, or has gone, and the dialog is closed.
LEMMA BackdropEndsOnce ==
    ASSUME NEW m, DialogOK(m), ~m.told, ShownOnce(m), NEW p \in m.pending,
           NEW n, n = BackdropEnds(m, p.backdrop)
    PROVE  ShownOnce(n) /\ (n.told => ~n.shown)
<1> DEFINE b == p.backdrop
           then == {q.then : q \in {r \in m.pending : r.backdrop = b}}
           left == {q \in m.pending : q.backdrop # b}
           done == [m EXCEPT !.pending = left, !.visible = @ \/ "appear" \in then,
                             !.told = then \cap {"remove", "tell"} # {}]
<1>1. n = IF "remove" \in then THEN RemoveBackdrop(done) ELSE done
  BY DEF BackdropEnds
<1>2. m \in Dialog /\ HasOneBackdrop(m)
  BY DEF DialogOK, ShownOnce, IsClosed
<1>3. m.pending = {p} /\ b = m.backdrop
  BY <1>2 DEF HasOneBackdrop
<1>4. then = {p.then} /\ left = {}
  BY <1>3
<1>5. CASE p.then = "appear"
  <2>1. done = [m EXCEPT !.pending = {}, !.visible = TRUE, !.told = FALSE]
    <3>1. then = {"appear"} /\ {"appear"} \cap {"remove", "tell"} = {}
      BY <1>4, <1>5
    <3>2. (m.visible \/ "appear" \in then) = TRUE /\ (then \cap {"remove", "tell"} # {}) = FALSE
      BY <3>1
    <3> QED
      BY <1>4, <3>2
  <2>2. n = done
    BY <1>1, <1>4, <1>5
  <2> HIDE DEF done
  <2>3. /\ n.visible /\ ~n.told /\ n.pending = {} /\ n.shown = m.shown
        /\ n.backdrop = m.backdrop /\ n.inPage = m.inPage /\ n.hiding = m.hiding
    BY <1>2, <2>1, <2>2 DEF Dialog
  <2>4. m.hiding = IF m.shown THEN 0 ELSE 1
    BY <1>2, <1>3, <1>5 DEF HasOneBackdrop
  <2> QED
    BY <1>2, <2>3, <2>4 DEF ShownOnce, HasOneBackdrop
<1>6. CASE p.then # "appear"
  <2>1. /\ p.then = "remove" /\ m.hiding = 0 /\ ~m.shown /\ ~m.visible
    BY <1>2, <1>3, <1>6 DEF HasOneBackdrop
  <2>2. done = [m EXCEPT !.pending = {}, !.visible = FALSE, !.told = TRUE]
    <3>1. then = {"remove"} /\ "remove" \in {"remove"} \cap {"remove", "tell"}
      BY <1>4, <2>1
    <3>2. (m.visible \/ "appear" \in then) = FALSE /\ (then \cap {"remove", "tell"} # {}) = TRUE
      BY <2>1, <3>1
    <3> QED
      BY <1>4, <3>2
  <2>3. n = RemoveBackdrop(done)
    BY <1>1, <1>4, <2>1
  <2> HIDE DEF done
  <2>4. /\ ~done.visible /\ done.pending = {} /\ ~done.shown /\ done.hiding = 0
        /\ done.backdrop = m.backdrop /\ done.inPage = {m.backdrop} /\ done \in Dialog
    BY <1>2, <2>1, <2>2 DEF Dialog, HasOneBackdrop
  <2>5. n = [done EXCEPT !.backdrop = NoBackdrop, !.inPage = {}, !.pending = {}]
    <3>1. {m.backdrop} \ {m.backdrop} = {} /\ {q \in {} : q.backdrop # m.backdrop} = {}
      OBVIOUS
    <3> QED
      BY <2>3, <2>4, <3>1 DEF RemoveBackdrop
  <2>6. /\ ~n.shown /\ ~n.visible /\ n.backdrop = NoBackdrop /\ n.inPage = {}
        /\ n.pending = {} /\ n.hiding = 0
    BY <2>4, <2>5 DEF Dialog
  <2> QED
    BY <2>6 DEF ShownOnce, IsClosed
<1> QED
  BY <1>5, <1>6

----
(* The page *)

ModalsOK == /\ modal \in [DialogNames -> Dialog]
            /\ \A d \in DialogNames : DialogOK(modal[d]) /\ ~modal[d].told

OnceEach == \A d \in DialogNames : ShownOnce(modal[d])

Running == {s \in Syncs : sync[s] = "running"}

RestTyped ==
    /\ sync \in [Syncs -> {"idle", "running", "aborted"}]
    /\ hooks = Running
    /\ {contacts, sends, loads, saves} \subseteq 0..MaxCalls
    /\ ready \in BOOLEAN
    /\ letter \in {"empty", "written", "posted"}
    /\ odd \subseteq Oddities

\* The page cannot be clicked while it waits for a sync.
SyncCovers == Running # {} => modal["progress"].inPage # {}

PostedIsHidden == letter = "posted" => ~modal["compose"].shown

\* As long as nothing odd has gone on, the page waits for one call at a time: a sync,
\* with no compose dialog, or a letter whose dialog vanishes.
OneCallWaits ==
    odd = {} =>
        /\ Running # {} => modal["progress"].shown /\ Gone(modal["compose"]) /\ sends = 0
        /\ sends > 0 => modal["progress"].shown /\ letter = "posted" /\ sends = 1

PageInv ==
    /\ ModalsOK /\ RestTyped
    /\ "reshown" \notin odd => OnceEach
    /\ SyncCovers /\ OneSyncAtATime /\ PostedIsHidden /\ OneCallWaits

\* A page that is free waits for nothing.
LEMMA FreePage ==
    ASSUME PageInv, PageIsFree
    PROVE  /\ Running = {}
           /\ odd = {} => sends = 0
           /\ \A d \in DialogNames : ~modal[d].shown
<1>1. \A d \in DialogNames : modal[d].inPage = {}
  BY DEF PageIsFree, Gone
<1>2. \A d \in DialogNames : ~modal[d].shown
  BY <1>1 DEF PageInv, ModalsOK, DialogOK, Linked
<1>3. Running = {}
  BY <1>1 DEF PageInv, SyncCovers, DialogNames
<1>4. ASSUME odd = {} PROVE sends = 0
  <2>1. ~modal["progress"].shown
    BY <1>2 DEF DialogNames
  <2>2. ~(sends > 0) /\ sends \in Nat
    BY <1>4, <2>1, DialogsAssumption DEF PageInv, OneCallWaits, RestTyped
  <2> QED
    BY <2>2
<1> QED
  BY <1>2, <1>3, <1>4

\* One dialog is replaced.
LEMMA OneDialogChanges ==
    ASSUME ModalsOK, NEW d \in DialogNames, NEW m, DialogOK(m), ~m.told,
           modal' = [modal EXCEPT ![d] = m]
    PROVE  /\ ModalsOK' /\ modal'[d] = m
           /\ \A e \in DialogNames : e # d => modal'[e] = modal[e]
           /\ OnceEach /\ ShownOnce(m) => OnceEach'
<1>1. /\ modal'[d] = m
      /\ \A e \in DialogNames : e # d => modal'[e] = modal[e]
  BY DEF ModalsOK
<1>2. modal' \in [DialogNames -> Dialog]
  BY DEF ModalsOK, DialogOK
<1>3. \A e \in DialogNames : modal'[e] = m \/ modal'[e] = modal[e]
  BY <1>1
<1> QED
  BY <1>1, <1>2, <1>3 DEF ModalsOK, OnceEach

LEMMA ShowsStep ==
    ASSUME ModalsOK, NEW d \in DialogNames, Shows(d)
    PROVE  /\ ModalsOK' /\ modal'[d].shown /\ modal'[d].inPage # {}
           /\ \A e \in DialogNames : e # d => modal'[e] = modal[e]
           /\ "reshown" \notin NoteShow(d) /\ OnceEach => OnceEach'
<1> DEFINE m == Show(modal[d])
<1>1. DialogOK(modal[d]) /\ ~modal[d].told /\ modal[d].inPage # Backdrops
  BY DEF ModalsOK, Shows, Room
<1>2. DialogOK(m) /\ m.shown /\ m.inPage # {} /\ ~m.told
  BY <1>1, ShowFacts
<1>3. "reshown" \notin NoteShow(d) /\ OnceEach => ShownOnce(m)
  <2> SUFFICES ASSUME "reshown" \notin NoteShow(d), OnceEach PROVE ShownOnce(m)
    OBVIOUS
  <2>1. modal[d].shown \/ Settled(modal[d])
    BY DEF NoteShow, Reshows
  <2> QED
    BY <1>1, <2>1, ShowOnce DEF OnceEach
<1>4. modal' = [modal EXCEPT ![d] = m]
  BY DEF Shows
<1> HIDE DEF m
<1>5. /\ ModalsOK' /\ modal'[d] = m
      /\ \A e \in DialogNames : e # d => modal'[e] = modal[e]
      /\ OnceEach /\ ShownOnce(m) => OnceEach'
  BY <1>2, <1>4, OneDialogChanges
<1> QED
  BY <1>2, <1>3, <1>5

LEMMA HidesStep ==
    ASSUME ModalsOK, NEW d \in DialogNames, Hides(d)
    PROVE  /\ ModalsOK' /\ ~modal'[d].shown
           /\ modal'[d].inPage = modal[d].inPage /\ modal'[d].visible = modal[d].visible
           /\ \A e \in DialogNames : e # d => modal'[e] = modal[e]
           /\ OnceEach => OnceEach'
<1> DEFINE m == Hide(modal[d])
<1>1. DialogOK(modal[d]) /\ ~modal[d].told /\ modal[d].hiding < MaxHiding
  BY DEF ModalsOK, Hides, Room
<1>2. /\ DialogOK(m) /\ ~m.shown /\ ~m.told
      /\ m.inPage = modal[d].inPage /\ m.visible = modal[d].visible
  BY <1>1, HideFacts
<1>3. OnceEach => ShownOnce(m)
  BY <1>1, HideOnce DEF OnceEach
<1>4. modal' = [modal EXCEPT ![d] = m]
  BY DEF Hides
<1> HIDE DEF m
<1>5. /\ ModalsOK' /\ modal'[d] = m
      /\ \A e \in DialogNames : e # d => modal'[e] = modal[e]
      /\ OnceEach /\ ShownOnce(m) => OnceEach'
  BY <1>2, <1>4, OneDialogChanges
<1> QED
  BY <1>2, <1>3, <1>5

LEMMA ClickRefreshStep == ASSUME PageInv, ClickRefresh PROVE PageInv'
<1>1. PICK s \in Syncs :
        /\ sync[s] = "idle" /\ Shows("progress")
        /\ sync' = [sync EXCEPT ![s] = "running"]
        /\ hooks' = hooks \cup {s}
  BY DEF ClickRefresh
<1>2. /\ PageIsFree /\ odd' = NoteShow("progress")
      /\ UNCHANGED <<contacts, ready, letter, sends, loads, saves>>
  BY DEF ClickRefresh
<1>3. /\ ModalsOK' /\ modal'["progress"].shown /\ modal'["progress"].inPage # {}
      /\ modal'["compose"] = modal["compose"]
      /\ "reshown" \notin NoteShow("progress") /\ OnceEach => OnceEach'
  BY <1>1, ShowsStep DEF PageInv, DialogNames
<1>4. /\ Running = {}
      /\ odd = {} => sends = 0
      /\ Gone(modal["compose"])
  BY <1>2, FreePage DEF PageIsFree, DialogNames
<1>5. Running' = {s}
  BY <1>1, <1>4 DEF Running, PageInv, RestTyped
<1>6. RestTyped'
  BY <1>1, <1>2, <1>4, <1>5 DEF PageInv, RestTyped, NoteShow, Oddities
<1>7. odd \subseteq odd'
  BY <1>2 DEF NoteShow
<1>8. "reshown" \notin odd' => OnceEach'
  BY <1>2, <1>3, <1>7 DEF PageInv
<1>9. SyncCovers' /\ OneSyncAtATime'
  BY <1>3, <1>5 DEF SyncCovers, OneSyncAtATime, Running
<1>10. PostedIsHidden'
  BY <1>2, <1>3 DEF PageInv, PostedIsHidden
<1>11. OneCallWaits'
  BY <1>2, <1>3, <1>4, <1>7 DEF OneCallWaits
<1> QED
  BY <1>3, <1>6, <1>8, <1>9, <1>10, <1>11 DEF PageInv

LEMMA SyncAnsweredStep == ASSUME PageInv, SyncAnswered PROVE PageInv'
<1>1. PICK s \in Syncs :
        /\ sync[s] = "running" /\ Hides("progress")
        /\ sync' = [sync EXCEPT ![s] = "idle"] /\ hooks' = Off(s)
  BY DEF SyncAnswered
<1>2. UNCHANGED <<contacts, ready, letter, sends, loads, saves, odd>>
  BY DEF SyncAnswered
<1>3. /\ ModalsOK' /\ modal'["compose"] = modal["compose"]
      /\ OnceEach => OnceEach'
  BY <1>1, HidesStep DEF PageInv, DialogNames
<1>4. Running' = {} /\ s \in Running
  BY <1>1 DEF Running, PageInv, RestTyped, OneSyncAtATime
<1>5. RestTyped'
  BY <1>1, <1>2, <1>4 DEF PageInv, RestTyped, Off
<1>6. SyncCovers' /\ OneSyncAtATime'
  BY <1>4 DEF SyncCovers, OneSyncAtATime, Running
<1>7. PostedIsHidden'
  BY <1>2, <1>3 DEF PageInv, PostedIsHidden
<1>8. OneCallWaits'
  BY <1>2, <1>4 DEF PageInv, OneCallWaits
<1> QED
  BY <1>2, <1>3, <1>5, <1>6, <1>7, <1>8 DEF PageInv

LEMMA ServerEndsStep == ASSUME PageInv, ServerEnds PROVE PageInv'
<1>1. UNCHANGED <<modal, hooks, contacts, ready, letter, sends, loads, saves, odd>>
  BY DEF ServerEnds
<1>2. Running' = Running /\ RestTyped'
  BY DEF ServerEnds, PageInv, RestTyped, Running
<1>3. ModalsOK' /\ ("reshown" \notin odd' => OnceEach')
  BY <1>1 DEF PageInv, ModalsOK, OnceEach
<1> QED
  BY <1>1, <1>2, <1>3
  DEF PageInv, SyncCovers, OneSyncAtATime, Running, PostedIsHidden, OneCallWaits

\* Calls are counted, and nothing else happens.
LEMMA CallsCounted ==
    ASSUME PageInv, UNCHANGED <<modal, sync, hooks, ready, letter, sends, odd>>,
           {contacts', loads', saves'} \subseteq 0..MaxCalls
    PROVE  PageInv'
<1>1. Running' = Running
  BY DEF Running
<1>2. RestTyped'
  BY <1>1 DEF PageInv, RestTyped
<1>3. ModalsOK' /\ ("reshown" \notin odd' => OnceEach')
  BY DEF PageInv, ModalsOK, OnceEach
<1> QED
  BY <1>1, <1>2, <1>3 DEF PageInv, SyncCovers, OneSyncAtATime, PostedIsHidden, OneCallWaits

\* The compose dialog is opened, on a free page or with a note.
LEMMA OpenComposeStep ==
    ASSUME PageInv, OpenCompose, UNCHANGED <<sync, hooks, sends, loads, saves>>,
           ready' \in BOOLEAN, contacts' \in 0..MaxCalls,
           odd' \subseteq Oddities, NoteShow("compose") \subseteq odd',
           odd' = {} => PageIsFree
    PROVE  PageInv'
<1>1. Shows("compose") /\ letter' = "empty"
  BY DEF OpenCompose, ShowCompose
<1>2. /\ ModalsOK' /\ modal'["progress"] = modal["progress"]
      /\ "reshown" \notin NoteShow("compose") /\ OnceEach => OnceEach'
  BY <1>1, ShowsStep DEF PageInv, DialogNames
<1>3. odd \subseteq NoteShow("compose")
  BY DEF NoteShow
<1>4. Running' = Running
  BY DEF Running
<1>5. RestTyped'
  BY <1>1, <1>4 DEF PageInv, RestTyped
<1>6. "reshown" \notin odd' => OnceEach'
  BY <1>2, <1>3 DEF PageInv
<1>7. SyncCovers' /\ OneSyncAtATime' /\ PostedIsHidden'
  BY <1>1, <1>2, <1>4 DEF PageInv, SyncCovers, OneSyncAtATime, PostedIsHidden
<1>8. OneCallWaits'
  <2> SUFFICES ASSUME odd' = {} PROVE Running' = {} /\ sends' = 0
    BY DEF OneCallWaits
  <2> QED
    BY <1>3, <1>4, FreePage
<1> QED
  BY <1>2, <1>5, <1>6, <1>7, <1>8 DEF PageInv

LEMMA ClickComposeStep == ASSUME PageInv, ClickCompose PROVE PageInv'
<1>1. CASE ready
  BY <1>1, OpenComposeStep DEF ClickCompose, PageInv, RestTyped, NoteShow, Oddities
<1>2. CASE ~ready
  BY <1>2, CallsCounted, DialogsAssumption DEF ClickCompose, PageInv, RestTyped
<1> QED
  BY <1>1, <1>2

LEMMA ContactsAnsweredStep == ASSUME PageInv, ContactsAnswered PROVE PageInv'
<1>1. odd' \subseteq Oddities /\ NoteShow("compose") \subseteq odd'
  BY DEF ContactsAnswered, PageInv, RestTyped, NoteLate, NoteShow, Oddities
<1>2. odd' = {} => PageIsFree
  BY DEF ContactsAnswered, NoteLate
<1>3. contacts' \in 0..MaxCalls
  BY DialogsAssumption DEF ContactsAnswered, PageInv, RestTyped
<1> QED
  BY <1>1, <1>2, <1>3, OpenComposeStep DEF ContactsAnswered

LEMMA WriteStep == ASSUME PageInv, Write PROVE PageInv'
<1>1. /\ letter = "empty" /\ letter' = "written"
      /\ UNCHANGED <<modal, sync, hooks, contacts, ready, sends, loads, saves, odd>>
  BY DEF Write
<1>2. Running' = Running
  BY <1>1 DEF Running
<1>3. RestTyped'
  BY <1>1, <1>2 DEF PageInv, RestTyped
<1>4. ModalsOK' /\ ("reshown" \notin odd' => OnceEach')
  BY <1>1 DEF PageInv, ModalsOK, OnceEach
<1> QED
  BY <1>1, <1>2, <1>3, <1>4
  DEF PageInv, SyncCovers, OneSyncAtATime, PostedIsHidden, OneCallWaits

\* A dialog that no call waits for is hidden.
LEMMA HidesOtherStep ==
    ASSUME PageInv, NEW d \in {"settings", "compose"}, Hides(d),
           UNCHANGED <<sync, hooks, contacts, ready, letter, sends, loads, odd>>,
           saves' \in 0..MaxCalls
    PROVE  PageInv'
<1>1. /\ ModalsOK' /\ modal'["progress"] = modal["progress"]
      /\ modal'["compose"].shown => modal["compose"].shown
      /\ Gone(modal["compose"]) => Gone(modal'["compose"])
      /\ OnceEach => OnceEach'
  BY HidesStep DEF PageInv, DialogNames, Gone
<1>2. Running' = Running
  BY DEF Running
<1>3. RestTyped'
  BY <1>2 DEF PageInv, RestTyped
<1> QED
  BY <1>1, <1>2, <1>3 DEF PageInv, SyncCovers, OneSyncAtATime, PostedIsHidden, OneCallWaits

LEMMA ClickSendStep == ASSUME PageInv, ClickSend PROVE PageInv'
<1> DEFINE c == Hide(modal["compose"])
           p == Show(modal["progress"])
<1>1. /\ modal["compose"].visible /\ letter' = "posted"
      /\ modal' = [modal EXCEPT !["compose"] = c, !["progress"] = p]
      /\ Room(modal["compose"]) /\ Room(modal["progress"])
      /\ sends < MaxCalls /\ sends' = sends + 1
      /\ odd' = NoteShow("progress") \cup (IF letter = "posted" THEN {"twice"} ELSE {})
      /\ UNCHANGED <<sync, hooks, contacts, ready, loads, saves>>
  BY DEF ClickSend, OnTop, Post, PostLetter
<1>2. \A d \in DialogNames : DialogOK(modal[d]) /\ ~modal[d].told
  BY DEF PageInv, ModalsOK
<1>3. DialogOK(c) /\ ~c.told /\ ~c.shown
  BY <1>1, <1>2, HideFacts DEF Room, DialogNames
<1>4. DialogOK(p) /\ ~p.told /\ p.shown /\ p.inPage # {}
  BY <1>1, <1>2, ShowFacts DEF Room, DialogNames
<1>5. OnceEach => ShownOnce(c)
  BY <1>2, HideOnce DEF OnceEach, DialogNames
<1>6. OnceEach /\ "reshown" \notin odd' => ShownOnce(p)
  <2> SUFFICES ASSUME OnceEach, "reshown" \notin odd' PROVE ShownOnce(p)
    OBVIOUS
  <2>1. modal["progress"].shown \/ Settled(modal["progress"])
    BY <1>1 DEF NoteShow, Reshows
  <2> QED
    BY <1>1, <1>2, <2>1, ShowOnce DEF OnceEach, Room, DialogNames
<1> HIDE DEF c, p
<1>7. /\ modal'["compose"] = c /\ modal'["progress"] = p
      /\ modal'["settings"] = modal["settings"]
      /\ modal' \in [DialogNames -> Dialog]
  BY <1>1, <1>3, <1>4 DEF PageInv, ModalsOK, DialogOK, DialogNames
<1>8. ModalsOK'
  BY <1>2, <1>3, <1>4, <1>7 DEF ModalsOK, DialogNames
<1>9. OnceEach /\ "reshown" \notin odd' => OnceEach'
  BY <1>5, <1>6, <1>7 DEF OnceEach, DialogNames
<1>10. Running' = Running /\ odd \subseteq odd'
  BY <1>1 DEF Running, NoteShow
<1>11. RestTyped'
  BY <1>1, <1>10, DialogsAssumption DEF PageInv, RestTyped, NoteShow, Oddities
<1>12. SyncCovers' /\ OneSyncAtATime' /\ PostedIsHidden'
  BY <1>1, <1>3, <1>4, <1>7, <1>10 DEF PageInv, SyncCovers, OneSyncAtATime, PostedIsHidden
<1>13. OneCallWaits'
  <2> SUFFICES ASSUME odd' = {} PROVE Running' = {} /\ sends' = 1
    BY <1>1, <1>4, <1>7 DEF OneCallWaits
  <2>1. odd = {} /\ letter # "posted"
    BY <1>1, <1>10
  <2>2. ~Gone(modal["compose"])
    BY <1>1 DEF Gone
  <2>3. sends \in Nat
    BY DialogsAssumption DEF PageInv, RestTyped
  <2>4. Running = {} /\ sends = 0
    BY <2>1, <2>2, <2>3 DEF PageInv, OneCallWaits
  <2> QED
    BY <1>1, <1>10, <2>4
<1> QED
  BY <1>8, <1>9, <1>10, <1>11, <1>12, <1>13 DEF PageInv

LEMMA SendAnsweredStep == ASSUME PageInv, SendAnswered PROVE PageInv'
<1>1. /\ sends > 0 /\ sends' = sends - 1 /\ Hides("progress")
      /\ letter' \in {"empty", letter}
      /\ UNCHANGED <<sync, hooks, contacts, ready, loads, saves, odd>>
  BY DEF SendAnswered
<1>2. /\ ModalsOK' /\ modal'["compose"] = modal["compose"]
      /\ modal'["progress"].inPage = modal["progress"].inPage
      /\ OnceEach => OnceEach'
  BY <1>1, HidesStep DEF PageInv, DialogNames
<1>3. Running' = Running
  BY <1>1 DEF Running
<1>4. RestTyped'
  BY <1>1, <1>3, DialogsAssumption DEF PageInv, RestTyped
<1>5. SyncCovers' /\ OneSyncAtATime' /\ PostedIsHidden'
  BY <1>1, <1>2, <1>3 DEF PageInv, SyncCovers, OneSyncAtATime, PostedIsHidden
<1>6. OneCallWaits'
  <2> SUFFICES ASSUME odd = {} PROVE Running' = {} /\ sends' = 0
    BY <1>1 DEF OneCallWaits
  <2>1. sends = 1
    BY <1>1 DEF PageInv, OneCallWaits
  <2>2. Running = {}
    BY <2>1 DEF PageInv, OneCallWaits
  <2> QED
    BY <1>1, <1>3, <2>1, <2>2
<1> QED
  BY <1>1, <1>2, <1>4, <1>5, <1>6 DEF PageInv

LEMMA SettingsLoadedStep == ASSUME PageInv, SettingsLoaded PROVE PageInv'
<1>1. /\ Shows("settings") /\ odd' = NoteLate("settings") /\ loads > 0 /\ loads' = loads - 1
      /\ UNCHANGED <<sync, hooks, contacts, ready, letter, sends, saves>>
  BY DEF SettingsLoaded
<1>2. /\ ModalsOK' /\ modal'["progress"] = modal["progress"]
      /\ modal'["compose"] = modal["compose"]
      /\ "reshown" \notin NoteShow("settings") /\ OnceEach => OnceEach'
  BY <1>1, ShowsStep DEF PageInv, DialogNames
<1>3. odd \subseteq odd' /\ NoteShow("settings") \subseteq odd'
  BY <1>1 DEF NoteLate, NoteShow
<1>4. Running' = Running
  BY <1>1 DEF Running
<1>5. RestTyped'
  BY <1>1, <1>4, DialogsAssumption DEF PageInv, RestTyped, NoteLate, NoteShow, Oddities
<1>6. SyncCovers' /\ OneSyncAtATime' /\ PostedIsHidden' /\ OneCallWaits'
  BY <1>1, <1>2, <1>3, <1>4
  DEF PageInv, SyncCovers, OneSyncAtATime, PostedIsHidden, OneCallWaits
<1> QED
  BY <1>2, <1>3, <1>5, <1>6 DEF PageInv

LEMMA SaveAnsweredStep == ASSUME PageInv, SaveAnswered PROVE PageInv'
<1>1. {contacts', loads', saves'} \subseteq 0..MaxCalls
  BY DialogsAssumption DEF SaveAnswered, PageInv, RestTyped
<1>2. CASE UNCHANGED modal
  BY <1>1, <1>2, CallsCounted DEF SaveAnswered
<1>3. CASE Hides("settings")
  BY <1>1, <1>3, HidesOtherStep DEF SaveAnswered
<1> QED
  BY <1>2, <1>3 DEF SaveAnswered

\* The transition of an element of dialog d has made m of it.
LEMMA TransitionStep ==
    ASSUME PageInv, NEW d \in DialogNames, NEW m, DialogOK(m), m.hiding < MaxHiding,
           m.shown = modal[d].shown, ~IsClosed(modal[d]),
           ~m.told => modal[d].inPage \subseteq m.inPage,
           OnceEach => ShownOnce(m) /\ (m.told => ~m.shown),
           TransitionEnds(d, m),
           UNCHANGED <<contacts, ready, letter, sends, loads, saves, odd>>
    PROVE  PageInv'
<1> DEFINE stops == IF m.told /\ d = "progress" THEN hooks ELSE {}
           q == Quiet(m)
           n == IF stops # {} THEN Hide(q) ELSE q
<1>1. /\ modal' = [modal EXCEPT ![d] = n]
      /\ sync' = [s \in Syncs |-> IF s \in stops /\ sync[s] = "running" THEN "aborted" ELSE sync[s]]
      /\ hooks' = hooks \ stops
  BY DEF TransitionEnds, Ends, Quiet
<1>2. /\ DialogOK(q) /\ ~q.told /\ q.shown = m.shown /\ q.visible = m.visible
      /\ q.inPage = m.inPage /\ q.backdrop = m.backdrop
      /\ q.pending = m.pending /\ q.hiding = m.hiding
  BY QuietFacts
<1>3. ShownOnce(m) => ShownOnce(q)
  BY <1>2, OnlyTheFieldsCount
<1> HIDE DEF q
<1>4. /\ DialogOK(n) /\ ~n.told /\ n.inPage = m.inPage
      /\ stops = {} => n.shown = m.shown
      /\ n.shown => m.shown
      /\ ShownOnce(m) => ShownOnce(n)
  <2>1. CASE stops = {}
    BY <1>2, <1>3, <2>1
  <2>2. CASE stops # {}
    BY <1>2, <1>3, <2>2, HideFacts, HideOnce
  <2> QED
    BY <2>1, <2>2
<1> HIDE DEF n
<1>5. /\ ModalsOK' /\ modal'[d] = n
      /\ \A e \in DialogNames : e # d => modal'[e] = modal[e]
      /\ OnceEach /\ ShownOnce(n) => OnceEach'
  BY <1>1, <1>4, OneDialogChanges DEF PageInv
<1>6. hooks = Running /\ stops \subseteq Running
  BY DEF PageInv, RestTyped
<1> HIDE DEF stops
<1>7. Running' = Running \ stops
  BY <1>1 DEF Running
<1>8. RestTyped'
  BY <1>1, <1>6, <1>7 DEF PageInv, RestTyped
<1>9. OneSyncAtATime'
  BY <1>7 DEF PageInv, OneSyncAtATime, Running
<1>10. SyncCovers'
  <2> SUFFICES ASSUME Running' # {} PROVE modal'["progress"].inPage # {}
    BY DEF SyncCovers
  <2>1. modal["progress"].inPage # {}
    BY <1>7 DEF PageInv, SyncCovers
  <2>2. d = "progress" => ~m.told
    BY <1>6, <1>7 DEF stops
  <2> QED
    BY <1>4, <1>5, <2>1, <2>2 DEF DialogNames
<1>11. PostedIsHidden'
  BY <1>4, <1>5 DEF PageInv, PostedIsHidden, DialogNames
<1>12. OneCallWaits'
  <2> SUFFICES ASSUME odd = {}
               PROVE  /\ modal["progress"].shown => modal'["progress"].shown
                      /\ Gone(modal["compose"]) => Gone(modal'["compose"])
    BY <1>7 DEF PageInv, OneCallWaits
  <2>1. OnceEach
    BY DEF PageInv
  <2>2. ASSUME modal["progress"].shown PROVE modal'["progress"].shown
    <3>1. CASE d # "progress"
      BY <1>5, <2>2, <3>1 DEF DialogNames
    <3>2. CASE d = "progress"
      <4>1. stops = {}
        BY <2>1, <2>2, <3>2 DEF stops
      <4> QED
        BY <1>4, <1>5, <2>2, <3>2, <4>1
    <3> QED
      BY <3>1, <3>2
  <2>3. ASSUME Gone(modal["compose"]) PROVE Gone(modal'["compose"])
    <3>1. IsClosed(modal["compose"])
      BY <2>1, <2>3 DEF OnceEach, ShownOnce, HasOneBackdrop, Gone, DialogNames
    <3> QED
      BY <1>5, <2>3, <3>1 DEF DialogNames
  <2> QED
    BY <2>2, <2>3
<1> QED
  BY <1>4, <1>5, <1>8, <1>9, <1>10, <1>11, <1>12 DEF PageInv

LEMMA DialogFadesStep == ASSUME PageInv, DialogFades PROVE PageInv'
<1>1. PICK d \in DialogNames :
        /\ FadeCanEnd(modal[d]) /\ TransitionEnds(d, FadeEnds(modal[d]))
  BY DEF DialogFades
<1> DEFINE m == FadeEnds(modal[d])
<1>2. DialogOK(modal[d]) /\ ~modal[d].told
  BY DEF PageInv, ModalsOK
<1>3. /\ DialogOK(m) /\ m.shown = modal[d].shown /\ m.hiding = 0
      /\ modal[d].inPage \subseteq m.inPage
  BY <1>1, <1>2, FadeEndsFacts
<1>4. OnceEach => ShownOnce(m) /\ (m.told => ~m.shown)
  BY <1>1, <1>2, FadeEndsOnce DEF OnceEach
<1>5. ~IsClosed(modal[d])
  BY <1>1 DEF FadeCanEnd, IsClosed
<1> HIDE DEF m
<1>6. m.hiding < MaxHiding
  BY <1>3, ModalAssumption
<1> QED
  BY <1>1, <1>3, <1>4, <1>5, <1>6, TransitionStep DEF DialogFades, m

LEMMA BackdropFadesStep == ASSUME PageInv, BackdropFades PROVE PageInv'
<1>1. PICK d \in DialogNames : \E p \in modal[d].pending :
        Room(modal[d]) /\ TransitionEnds(d, BackdropEnds(modal[d], p.backdrop))
  BY DEF BackdropFades
<1>2. PICK p \in modal[d].pending :
        Room(modal[d]) /\ TransitionEnds(d, BackdropEnds(modal[d], p.backdrop))
  BY <1>1
<1> DEFINE m == BackdropEnds(modal[d], p.backdrop)
<1>3. DialogOK(modal[d]) /\ ~modal[d].told
  BY DEF PageInv, ModalsOK
<1>4. /\ DialogOK(m) /\ m.shown = modal[d].shown /\ m.hiding = modal[d].hiding
      /\ ~m.told => m.inPage = modal[d].inPage
  BY <1>3, BackdropEndsFacts
<1>5. OnceEach => ShownOnce(m) /\ (m.told => ~m.shown)
  BY <1>3, BackdropEndsOnce DEF OnceEach
<1>6. ~IsClosed(modal[d])
  BY DEF IsClosed
<1> HIDE DEF m
<1>7. m.hiding < MaxHiding
  BY <1>2, <1>4 DEF Room
<1>8. UNCHANGED <<contacts, ready, letter, sends, loads, saves, odd>>
  BY DEF BackdropFades
<1> QED
  BY <1>2, <1>4, <1>5, <1>6, <1>7, <1>8, TransitionStep DEF m

LEMMA ClosedFacts == DialogOK(Closed) /\ ~Closed.told /\ IsClosed(Closed) /\ ~Closed.shown
<1>1. Closed \in Dialog
  BY ModalAssumption DEF Closed, Dialog, NoBackdrop
<1> QED
  BY <1>1 DEF Closed, DialogOK, Linked, IsClosed

LEMMA ReloadStep == ASSUME PageInv, Reload PROVE PageInv'
<1>1. \A d \in DialogNames : modal'[d] = Closed
  BY DEF Reload
<1>2. ModalsOK' /\ OnceEach'
  <2>1. modal' \in [DialogNames -> Dialog]
    BY ClosedFacts DEF Reload, DialogOK
  <2> QED
    BY <1>1, <2>1, ClosedFacts DEF ModalsOK, OnceEach, ShownOnce
<1>3. Running' = {} /\ sync' \in [Syncs -> {"idle", "running", "aborted"}]
  BY DEF Reload, Running
<1>4. RestTyped'
  <2>1. 0 \in 0..MaxCalls
    BY DialogsAssumption
  <2> QED
    BY <1>3, <2>1 DEF Reload, RestTyped, Oddities
<1> QED
  BY <1>2, <1>3, <1>4
  DEF Reload, PageInv, SyncCovers, OneSyncAtATime, Running, PostedIsHidden, OneCallWaits

LEMMA PageInvInit == DialogsInit => PageInv
<1> SUFFICES ASSUME DialogsInit PROVE PageInv
  OBVIOUS
<1>1. \A d \in DialogNames : modal[d] = Closed
  BY DEF DialogsInit
<1>2. ModalsOK /\ OnceEach
  <2>1. modal \in [DialogNames -> Dialog]
    BY ClosedFacts DEF DialogsInit, DialogOK
  <2> QED
    BY <1>1, <2>1, ClosedFacts DEF ModalsOK, OnceEach, ShownOnce
<1>3. Running = {} /\ sync \in [Syncs -> {"idle", "running", "aborted"}]
  BY DEF DialogsInit, Running
<1>4. RestTyped
  <2>1. 0 \in 0..MaxCalls
    BY DialogsAssumption
  <2> QED
    BY <1>3, <2>1 DEF DialogsInit, RestTyped, Oddities
<1> QED
  BY <1>2, <1>3, <1>4
  DEF DialogsInit, PageInv, SyncCovers, OneSyncAtATime, Running, PostedIsHidden, OneCallWaits

LEMMA PageInvStep == ASSUME PageInv, [DialogsNext]_dialogVars PROVE PageInv'
<1>1. CASE ContactsFail \/ ClickSettings \/ SettingsNotLoaded \/ ClickSave \/ UNCHANGED dialogVars
  <2>1. {contacts', loads', saves'} \subseteq 0..MaxCalls
    BY <1>1, DialogsAssumption
    DEF PageInv, RestTyped, ContactsFail, ClickSettings, SettingsNotLoaded, ClickSave, dialogVars
  <2> QED
    BY <1>1, <2>1, CallsCounted
    DEF ContactsFail, ClickSettings, SettingsNotLoaded, ClickSave, dialogVars
<1>2. CASE Cancel
  <2>1. saves \in 0..MaxCalls
    BY DEF PageInv, RestTyped
  <2> QED
    BY <1>2, <2>1, HidesOtherStep DEF Cancel
<1> QED
  BY <1>1, <1>2, ClickRefreshStep, SyncAnsweredStep, ServerEndsStep, ClickComposeStep,
     ContactsAnsweredStep, WriteStep, ClickSendStep, SendAnsweredStep, SettingsLoadedStep,
     SaveAnsweredStep, DialogFadesStep, BackdropFadesStep, ReloadStep
  DEF DialogsNext

\* The inductive invariant of the page.
THEOREM PageInvAlways == DialogsSpec => []PageInv
<1>1. PageInv /\ [DialogsNext]_dialogVars => PageInv'
  BY PageInvStep
<1> QED
  BY <1>1, PageInvInit, PTL DEF DialogsSpec

\* Type correctness of the three dialogs and of what home.html keeps about its calls.
THEOREM DialogTypesAlways == DialogsSpec => []DialogsTypeOK
<1>1. PageInv => DialogsTypeOK
  BY DEF PageInv, ModalsOK, RestTyped, Running, DialogsTypeOK
<1> QED
  BY <1>1, PageInvAlways, PTL

\* home.html waits for one call of syncMails at a time, whatever else is shown, hidden
\* or answered: the page is covered until the call is answered or given up.
THEOREM OneSyncWaits == DialogsSpec => []OneSyncAtATime
<1>1. PageInv => OneSyncAtATime
  BY DEF PageInv
<1> QED
  BY <1>1, PageInvAlways, PTL

\* A dialog of bootstrap.js that has come to rest has a backdrop exactly while it is
\* shown, unless it was shown again while it vanished.
THEOREM RestsWhole == DialogsSpec => []AtRest
<1>1. PageInv => AtRest
  <2> SUFFICES ASSUME PageInv, "reshown" \notin odd, NEW d \in DialogNames, Settled(modal[d])
               PROVE  /\ modal[d].visible = modal[d].shown
                      /\ modal[d].inPage = IF modal[d].shown THEN {modal[d].backdrop} ELSE {}
    BY DEF AtRest
  <2>1. ShownOnce(modal[d]) /\ modal[d] \in Dialog
    BY DEF PageInv, OnceEach, ModalsOK
  <2>2. modal[d].visible \in BOOLEAN /\ modal[d].shown \in BOOLEAN
    BY <2>1 DEF Dialog
  <2>3. CASE ~modal[d].shown
    BY <2>1, <2>2, <2>3, SettledAndHidden DEF IsClosed
  <2>4. CASE modal[d].shown
    <3>1. HasOneBackdrop(modal[d])
      BY <2>1, <2>4 DEF ShownOnce, IsClosed
    <3>2. modal[d].visible
      BY <2>4, <3>1 DEF HasOneBackdrop, Settled
    <3> QED
      BY <2>2, <2>4, <3>1, <3>2 DEF HasOneBackdrop
  <2> QED
    BY <2>3, <2>4
<1> QED
  BY <1>1, PageInvAlways, PTL

\* While home.html waits for a sync or for the answer to a letter, its progress dialog
\* is up and the page cannot be clicked, as long as nothing odd has gone on.
THEOREM WaitsBehindItsDialog == DialogsSpec => []PageWaits
<1>1. PageInv => PageWaits
  <2> SUFFICES ASSUME PageInv, odd = {}, sends > 0 \/ \E s \in Syncs : sync[s] = "running"
               PROVE  ~PageIsFree /\ modal["progress"].shown
    BY DEF PageWaits
  <2>1. modal["progress"].shown
    BY DEF PageInv, OneCallWaits, Running
  <2> QED
    BY <2>1, FreePage DEF DialogNames
<1> QED
  BY <1>1, PageInvAlways, PTL

\* An open compose dialog never posts a letter that was posted before: the Send button
\* does so only while the dialog vanishes.
THEOREM PostsAgainOnlyWhileFading == DialogsSpec => PostedTwiceOnlyWhileFading
<1>1. PageInv => [sends' > sends /\ letter = "posted" => ~modal["compose"].shown]_dialogVars
  BY DEF PageInv, PostedIsHidden
<1> QED
  BY <1>1, PageInvAlways, PTL DEF PostedTwiceOnlyWhileFading

----
(* The letter that is being written *)

\* As long as nothing odd has gone on, the progress dialog is out of the way of a
\* letter that can still be written or sent; and when something odd has, an answer came
\* late or a letter went out twice.  The compose dialog waits for its first contacts.
LetterInv ==
    /\ modal["compose"].shown => ready
    /\ odd = {} \/ odd \cap {"late", "twice"} # {}
    /\ odd = {} /\ ~Gone(modal["compose"]) /\ (modal["compose"].shown \/ letter = "written")
         => IsClosed(modal["progress"])

\* Nothing odd so far: every dialog is whole, and in a free page they are all closed.
LEMMA WholeSoFar ==
    ASSUME PageInv, odd = {}
    PROVE  /\ OnceEach
           /\ PageIsFree => \A d \in DialogNames : IsClosed(modal[d])
<1>1. OnceEach
  BY DEF PageInv
<1> QED
  BY <1>1 DEF OnceEach, ShownOnce, HasOneBackdrop, PageIsFree, Gone

\* A transition changes one dialog, which is not closed, and shows none.
LEMMA TransitionOfOne ==
    ASSUME PageInv, DialogFades \/ BackdropFades
    PROVE  \E d \in DialogNames :
              /\ ~IsClosed(modal[d])
              /\ \A e \in DialogNames \ {d} : modal'[e] = modal[e]
              /\ modal'[d].shown => modal[d].shown
<1>1. ASSUME NEW d \in DialogNames, NEW m, DialogOK(m), m.hiding < MaxHiding,
             m.shown = modal[d].shown, ~IsClosed(modal[d]), TransitionEnds(d, m)
      PROVE  /\ \A e \in DialogNames \ {d} : modal'[e] = modal[e]
             /\ modal'[d].shown => modal[d].shown
  <2> DEFINE stops == IF m.told /\ d = "progress" THEN hooks ELSE {}
             q == Quiet(m)
             n == IF stops # {} THEN Hide(q) ELSE q
  <2>1. modal' = [modal EXCEPT ![d] = n]
    BY <1>1 DEF TransitionEnds, Ends, Quiet
  <2>2. DialogOK(q) /\ q.shown = m.shown /\ q.hiding = m.hiding
    BY <1>1, QuietFacts
  <2> HIDE DEF q, stops
  <2>3. n.shown => m.shown
    BY <1>1, <2>2, HideFacts
  <2> HIDE DEF n
  <2>4. modal' \in [DialogNames -> {modal'[e] : e \in DialogNames}] /\ modal'[d] = n
    BY <2>1 DEF PageInv, ModalsOK
  <2> QED
    BY <1>1, <2>1, <2>3, <2>4 DEF PageInv, ModalsOK
<1>2. CASE DialogFades
  <2>1. PICK d \in DialogNames : FadeCanEnd(modal[d]) /\ TransitionEnds(d, FadeEnds(modal[d]))
    BY <1>2 DEF DialogFades
  <2> DEFINE m == FadeEnds(modal[d])
  <2>2. DialogOK(m) /\ m.shown = modal[d].shown /\ m.hiding = 0
    BY <2>1, FadeEndsFacts DEF PageInv, ModalsOK
  <2>3. ~IsClosed(modal[d]) /\ 0 < MaxHiding
    BY <2>1, ModalAssumption DEF FadeCanEnd, IsClosed
  <2> HIDE DEF m
  <2>4. TransitionEnds(d, m) /\ m.hiding < MaxHiding
    BY <2>1, <2>2, <2>3 DEF m
  <2> QED
    BY <1>1, <2>2, <2>3, <2>4
<1>3. CASE BackdropFades
  <2>1. PICK d \in DialogNames : \E p \in modal[d].pending :
          Room(modal[d]) /\ TransitionEnds(d, BackdropEnds(modal[d], p.backdrop))
    BY <1>3 DEF BackdropFades
  <2>2. PICK p \in modal[d].pending :
          Room(modal[d]) /\ TransitionEnds(d, BackdropEnds(modal[d], p.backdrop))
    BY <2>1
  <2> DEFINE m == BackdropEnds(modal[d], p.backdrop)
  <2>3. DialogOK(m) /\ m.shown = modal[d].shown /\ m.hiding = modal[d].hiding
    BY BackdropEndsFacts DEF PageInv, ModalsOK
  <2>4. ~IsClosed(modal[d])
    BY DEF IsClosed
  <2> HIDE DEF m
  <2>5. TransitionEnds(d, m) /\ m.hiding < MaxHiding
    BY <2>2, <2>3 DEF m, Room
  <2> QED
    BY <1>1, <2>3, <2>4, <2>5
<1> QED
  BY <1>2, <1>3

\* A closed dialog is left alone by modal('hide').
LEMMA ClosedStaysClosed ==
    ASSUME PageInv, NEW d \in DialogNames, Hides(d), IsClosed(modal[d])
    PROVE  IsClosed(modal'[d])
BY DEF Hides, Hide, IsClosed, PageInv, ModalsOK

LEMMA LetterInvStep == ASSUME PageInv, LetterInv, [DialogsNext]_dialogVars PROVE LetterInv'
<1>1. ModalsOK /\ modal \in [DialogNames -> Dialog]
  BY DEF PageInv, ModalsOK
<1>2. CASE ClickRefresh
  <2>1. ModalsOK' /\ modal'["compose"] = modal["compose"]
    BY <1>1, <1>2, ShowsStep DEF ClickRefresh, DialogNames
  <2>2. Gone(modal["compose"])
    BY <1>2 DEF ClickRefresh, PageIsFree, DialogNames
  <2>3. odd = {} => "reshown" \notin NoteShow("progress")
    BY <1>2, WholeSoFar DEF ClickRefresh, NoteShow, Reshows, Settled, IsClosed, DialogNames
  <2> QED
    BY <1>2, <2>1, <2>2, <2>3 DEF ClickRefresh, LetterInv, NoteShow
<1>3. CASE SyncAnswered \/ SendAnswered
  <2>1. Hides("progress") /\ UNCHANGED <<ready, odd>> /\ letter' \in {"empty", letter}
    BY <1>3 DEF SyncAnswered, SendAnswered
  <2>2. modal'["compose"] = modal["compose"]
    BY <1>1, <2>1, HidesStep DEF DialogNames
  <2>3. IsClosed(modal["progress"]) => IsClosed(modal'["progress"])
    BY <2>1, ClosedStaysClosed DEF DialogNames
  <2> QED
    BY <2>1, <2>2, <2>3 DEF LetterInv
<1>4. CASE ClickCompose \/ ContactsAnswered
  <2>1. CASE ~OpenCompose
    BY <1>4, <2>1 DEF ClickCompose, ContactsAnswered, LetterInv
  <2>2. CASE OpenCompose
    <3>1. ready' /\ modal'["progress"] = modal["progress"]
      BY <1>1, <1>4, <2>2, ShowsStep
      DEF ClickCompose, ContactsAnswered, OpenCompose, ShowCompose, DialogNames, LetterInv
    <3>2. odd' = {} \/ odd' \cap {"late", "twice"} # {}
      BY <1>4, WholeSoFar
      DEF ClickCompose, ContactsAnswered, NoteLate, NoteShow, Reshows, Settled, IsClosed,
          DialogNames, LetterInv
    <3>3. odd' = {} => odd = {} /\ PageIsFree
      BY <1>4 DEF ClickCompose, ContactsAnswered, NoteLate, NoteShow
    <3>4. odd' = {} => IsClosed(modal'["progress"])
      BY <3>1, <3>3, WholeSoFar DEF DialogNames
    <3> QED
      BY <3>1, <3>2, <3>4 DEF LetterInv
  <2> QED
    BY <2>1, <2>2
<1>5. CASE Write
  BY <1>5 DEF Write, LetterInv
<1>6. CASE Cancel \/ SaveAnswered
  <2>1. PICK d \in {"settings", "compose"} :
           (Hides(d) /\ (d = "compose" => modal[d].shown)) \/ UNCHANGED modal
    BY <1>6 DEF Cancel, SaveAnswered
  <2>2. UNCHANGED <<ready, letter, odd>>
    BY <1>6 DEF Cancel, SaveAnswered
  <2>3. CASE UNCHANGED modal
    BY <2>2, <2>3 DEF LetterInv
  <2>4. CASE Hides(d) /\ (d = "compose" => modal[d].shown)
    <3>1. /\ modal'["progress"] = modal["progress"]
          /\ modal'["compose"].shown => modal["compose"].shown
          /\ modal'["compose"].inPage = modal["compose"].inPage
          /\ modal'["compose"].visible = modal["compose"].visible
      BY <1>1, <2>4, HidesStep DEF DialogNames
    <3> QED
      BY <2>2, <3>1 DEF LetterInv, Gone
  <2> QED
    BY <2>1, <2>3, <2>4
<1>7. CASE ClickSend
  <2>1. letter' = "posted" /\ modal'["compose"] = Hide(modal["compose"]) /\ ready' = ready
    BY <1>1, <1>7 DEF ClickSend, Post, PostLetter, DialogNames
  <2>2. ~modal'["compose"].shown
    BY <1>1, <1>7, <2>1, HideFacts DEF ModalsOK, ClickSend, Room, DialogNames
  <2>3. odd' = {} \/ odd' \cap {"late", "twice"} # {}
    <3>1. CASE odd # {} \/ letter = "posted"
      BY <1>7, <3>1 DEF ClickSend, NoteShow, LetterInv
    <3>2. CASE odd = {} /\ letter # "posted"
      <4>1. letter = "written" /\ ~Gone(modal["compose"])
        BY <1>7, <3>2 DEF ClickSend, OnTop, Gone, PageInv, RestTyped
      <4>2. IsClosed(modal["progress"])
        BY <3>2, <4>1 DEF LetterInv
      <4> QED
        BY <1>7, <3>2, <4>2 DEF ClickSend, NoteShow, Reshows, Settled, IsClosed
    <3> QED
      BY <3>1, <3>2
  <2> QED
    BY <2>1, <2>2, <2>3 DEF LetterInv
<1>8. CASE SettingsLoaded
  <2>1. /\ modal'["progress"] = modal["progress"] /\ modal'["compose"] = modal["compose"]
        /\ UNCHANGED <<ready, letter>> /\ odd' = NoteLate("settings")
    BY <1>1, <1>8, ShowsStep DEF SettingsLoaded, DialogNames
  <2>2. odd' = {} \/ odd' \cap {"late", "twice"} # {}
    BY <2>1, WholeSoFar DEF NoteLate, NoteShow, Reshows, Settled, IsClosed, DialogNames, LetterInv
  <2>3. odd' = {} => odd = {}
    BY <2>1 DEF NoteLate, NoteShow
  <2> QED
    BY <2>1, <2>2, <2>3 DEF LetterInv
<1>9. CASE DialogFades \/ BackdropFades
  <2>1. PICK d \in DialogNames :
              /\ ~IsClosed(modal[d])
              /\ \A e \in DialogNames \ {d} : modal'[e] = modal[e]
              /\ modal'[d].shown => modal[d].shown
    BY <1>9, TransitionOfOne
  <2>2. UNCHANGED <<ready, letter, odd>>
    BY <1>9 DEF DialogFades, BackdropFades
  <2>3. modal'["compose"].shown => modal["compose"].shown
    BY <2>1 DEF DialogNames
  <2>4. ASSUME odd = {}, Gone(modal["compose"]) PROVE modal'["compose"] = modal["compose"]
    <3>1. IsClosed(modal["compose"])
      BY <2>4, WholeSoFar DEF OnceEach, ShownOnce, HasOneBackdrop, Gone, DialogNames
    <3> QED
      BY <2>1, <3>1 DEF DialogNames
  <2>5. IsClosed(modal["progress"]) => modal'["progress"] = modal["progress"]
    BY <2>1 DEF DialogNames
  <2> QED
    BY <2>2, <2>3, <2>4, <2>5 DEF LetterInv
<1>10. CASE Reload
  BY <1>10, ClosedFacts DEF Reload, LetterInv, DialogNames
<1>11. CASE UNCHANGED <<modal, ready, letter, odd>>
  BY <1>11 DEF LetterInv
<1> QED
  BY <1>2, <1>3, <1>4, <1>5, <1>6, <1>7, <1>8, <1>9, <1>10, <1>11
  DEF DialogsNext, dialogVars, ServerEnds, ContactsFail, ClickSettings, SettingsNotLoaded, ClickSave

TextKept ==
    modal["compose"].shown /\ letter = "written"
        => \/ letter' \in {"written", "posted"}
           \/ modal' = [d \in DialogNames |-> Closed]
           \/ ready /\ contacts' = contacts - 1
           \/ odd \cap {"late", "twice"} # {} /\ sends' = sends - 1

\* Of all that goes on in home.html, two answers only reset what the user is writing: the
\* contacts, when they arrive for the second time, and the answer to an earlier letter,
\* when that letter went out twice or a dialog came up late.
THEOREM TextIsKept == DialogsSpec => WrittenTextIsKept
<1>1. ASSUME PageInv, LetterInv, DialogsNext, modal["compose"].shown, letter = "written"
      PROVE  TextKept
  <2>1. ~PageIsFree
    BY <1>1, FreePage DEF DialogNames
  <2>2. CASE ContactsAnswered
    BY <1>1, <2>2 DEF ContactsAnswered, TextKept, LetterInv
  <2>3. CASE SendAnswered
    <3>1. sends > 0 /\ sends' = sends - 1
      BY <2>3 DEF SendAnswered
    <3>2. odd # {}
      BY <1>1, <3>1 DEF PageInv, OneCallWaits
    <3> QED
      BY <1>1, <3>1, <3>2 DEF LetterInv, TextKept
  <2>4. CASE ClickSend
    BY <2>4 DEF ClickSend, Post, PostLetter, TextKept
  <2>5. CASE Reload
    BY <2>5 DEF Reload, TextKept
  <2>6. CASE UNCHANGED letter
    BY <1>1, <2>6 DEF TextKept
  <2> QED
    BY <1>1, <2>1, <2>2, <2>3, <2>4, <2>5, <2>6
    DEF DialogsNext, ClickRefresh, SyncAnswered, ServerEnds, ClickCompose, ContactsFail, Write,
        Cancel, ClickSettings, SettingsLoaded, SettingsNotLoaded, ClickSave, SaveAnswered,
        DialogFades, BackdropFades
<1>2. PageInv /\ LetterInv /\ [DialogsNext]_dialogVars => [TextKept]_dialogVars
  BY <1>1 DEF TextKept
<1>3. DialogsInit => LetterInv
  BY ClosedFacts DEF DialogsInit, LetterInv, DialogNames
<1>4. PageInv /\ LetterInv /\ [DialogsNext]_dialogVars => LetterInv'
  BY LetterInvStep
<1> QED
  BY <1>2, <1>3, <1>4, PageInvAlways, PTL DEF DialogsSpec, WrittenTextIsKept, TextKept
====
