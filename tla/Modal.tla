---- MODULE Modal ----
(***************************************************************************)
(* The modal dialogs of bootstrap.js: what a call of modal() or            *)
(* modal('hide'), and the end of a transition, make of one dialog with the *)
(* class "fade".  Every operator maps a dialog to the dialog after it.     *)
(***************************************************************************)
EXTENDS Naturals, FiniteSets

CONSTANTS
    MaxBackdrops,   \* bound: backdrops of one dialog in the page at once
    MaxHiding       \* bound: hides of one dialog whose transition has not ended

\* FadeEnds runs the handlers of up to two hides.
ASSUME ModalAssumption == MaxBackdrops \in Nat \ {0} /\ MaxHiding \in 1..2

Backdrops == 1..MaxBackdrops
NoBackdrop == 0

\* What waits for the end of the transition of a backdrop: show() to let the dialog
\* appear, hideModal() to remove the backdrop, or only to tell that it is hidden.
Pending == [backdrop : Backdrops, then : {"appear", "remove", "tell"}]

Dialog == [ shown    : BOOLEAN,                      \* isShown
            visible  : BOOLEAN,                      \* the element is displayed
            backdrop : Backdrops \cup {NoBackdrop},  \* $backdrop
            inPage   : SUBSET Backdrops,             \* the backdrops in the document
            pending  : SUBSET Pending,
            hiding   : 0..MaxHiding,                 \* hideModal handlers of the element
            told     : BOOLEAN ]                     \* this step triggers hidden.bs.modal

Closed == [ shown |-> FALSE, visible |-> FALSE, backdrop |-> NoBackdrop, inPage |-> {},
            pending |-> {}, hiding |-> 0, told |-> FALSE ]

\* Nothing of the dialog covers the page.
Gone(m) == ~m.visible /\ m.inPage = {}

\* No transition is under way.
Settled(m) == m.hiding = 0 /\ m.pending = {}

Waits(m, then) == \E p \in m.pending : p.then = then

----
\* backdrop(), with isShown: a new element, whatever became of the one before it.
AddBackdrop(m, then) ==
    LET b == CHOOSE i \in Backdrops \ m.inPage : \A j \in Backdrops \ m.inPage : i <= j
    IN  [m EXCEPT !.backdrop = b, !.inPage = @ \cup {b},
                  !.pending = @ \cup {[backdrop |-> b, then |-> then]}]

\* removeBackdrop: the element $backdrop points at, with its handlers.
RemoveBackdrop(m) ==
    [m EXCEPT !.backdrop = NoBackdrop, !.inPage = @ \ {m.backdrop},
              !.pending = {p \in @ : p.backdrop # m.backdrop}]

Room(m) == m.inPage # Backdrops /\ m.hiding < MaxHiding

\* modal()
Show(m) == IF m.shown THEN m ELSE AddBackdrop([m EXCEPT !.shown = TRUE], "appear")

\* Seeded fault (PageComesBack): a dialog that has not appeared yet is not hidden.
HideAppeared(m) ==
    IF m.shown /\ m.visible THEN [m EXCEPT !.shown = FALSE, !.hiding = @ + 1] ELSE m

\* modal('hide')
Hide(m) == IF m.shown THEN [m EXCEPT !.shown = FALSE, !.hiding = @ + 1] ELSE m

\* Seeded fault (AtRest): a dialog that is hidden leaves its backdrop.
HideElement(m) == [m EXCEPT !.visible = FALSE, !.told = TRUE]

\* hideModal, and backdrop() after it: the dialog may have been shown again meanwhile.
HideModal(m) ==
    LET n == [m EXCEPT !.visible = FALSE]
    IN  CASE m.shown -> AddBackdrop(n, "tell")
          [] ~m.shown /\ m.backdrop # NoBackdrop ->
                [n EXCEPT !.pending = @ \cup {[backdrop |-> m.backdrop, then |-> "remove"]}]
          [] OTHER -> [n EXCEPT !.told = TRUE]

\* The transition of the dialog ends: all its handlers run.  A dialog that is hidden
\* once appears first: its backdrop needs 150 ms from show(), the dialog more from hide().
FadeCanEnd(m) ==
    /\ m.hiding > 0
    /\ m.hiding = 1 /\ ~m.shown => ~Waits(m, "appear")
    /\ Cardinality(Backdrops \ m.inPage) >= m.hiding

FadeEnds(m) ==
    LET n == [m EXCEPT !.hiding = 0]
    IN  IF m.hiding = 1 THEN HideModal(n) ELSE HideModal(HideModal(n))

\* The transition of a backdrop ends.
BackdropEnds(m, b) ==
    LET then == {p.then : p \in {q \in m.pending : q.backdrop = b}}
        done == [m EXCEPT !.pending = {p \in @ : p.backdrop # b},
                          !.visible = @ \/ "appear" \in then,
                          !.told = then \cap {"remove", "tell"} # {}]
    IN  IF "remove" \in then THEN RemoveBackdrop(done) ELSE done
====
